---------------------------- MODULE PayloadsProofs ----------------------------
(***************************************************************************)
(* What the operators of Payloads and ErrorMapping return, for every value *)
(* and every exception: the first error of several, the errors that a      *)
(* value object can throw, the status and the language of an exception.    *)
(***************************************************************************)
EXTENDS Payloads, ErrorMapping, FiniteSetTheorems, WellFoundedInduction, TLAPS

------------------------------------------------------------------------------
(* The first of several.                                                   *)

\* Sets of naturals have a least element,
LEMMA LeastIndex ==
    ASSUME NEW S, S \subseteq Nat, S # {}
    PROVE  \E least \in S : \A n \in S : least <= n
<1>1. PICK least \in S : \A n \in S : ~(<<n, least>> \in OpToRel(<, Nat))
  BY WFMin, NatLessThanWellFounded
<1>2. ASSUME NEW n \in S PROVE least <= n
  <2>1. n < least => <<n, least>> \in OpToRel(<, Nat)
    BY <1>2 DEF OpToRel
  <2>2. n \in Nat /\ least \in Nat /\ ~(n < least)
    BY <1>1, <1>2, <2>1
  <2> QED BY <2>2
<1> QED BY <1>2

\* and it is the one that CHOOSE takes.
LEMMA ChosenIndex ==
    ASSUME NEW S, S \subseteq Nat, NEW least \in S, \A n \in S : least <= n
    PROVE  (CHOOSE i \in S : \A j \in S : i <= j) = least
<1> DEFINE chosen == CHOOSE i \in S : \A j \in S : i <= j
<1>1. chosen \in S /\ \A j \in S : chosen <= j
  OBVIOUS
<1>2. chosen <= least /\ least <= chosen
  BY <1>1
<1>3. chosen \in Nat /\ least \in Nat
  BY <1>1
<1> HIDE DEF chosen
<1>4. chosen = least
  BY <1>2, <1>3
<1> QED BY <1>4 DEF chosen

\* Several checks find nothing if none finds anything, and otherwise report what
\* one of them found.
LEMMA FirstErrorOf ==
    ASSUME NEW n \in Nat, NEW errors, DOMAIN errors = 1..n
    PROVE  /\ (\A i \in 1..n : errors[i] = Fine) => FirstError(errors) = Fine
           /\ (\E i \in 1..n : errors[i] # Fine) =>
                 \E i \in 1..n : FirstError(errors) = errors[i] /\ errors[i] # Fine
<1> DEFINE reported == {i \in DOMAIN errors : errors[i] # Fine}
<1>1. CASE \A i \in 1..n : errors[i] = Fine
  BY <1>1 DEF FirstError
<1>2. CASE reported # {}
  <2>1. PICK least \in reported : \A i \in reported : least <= i
    <3>1. reported \subseteq Nat
      OBVIOUS
    <3> QED BY <1>2, <3>1, LeastIndex
  <2>2. (CHOOSE i \in reported : \A j \in reported : i <= j) = least
    <3>1. reported \subseteq Nat
      OBVIOUS
    <3> HIDE DEF reported
    <3> QED BY <2>1, <3>1, ChosenIndex
  <2>3. FirstError(errors) = errors[least]
    BY <1>2, <2>2 DEF FirstError
  <2> QED BY <2>1, <2>3
<1> QED BY <1>1, <1>2

------------------------------------------------------------------------------
(* The errors of the value objects and of the aggregates.                  *)

\* A value object throws errors of its own family only.
LEMMA ValueErrors ==
    \A v, w :
        /\ BatteryLevel(v) \in BatteryLevelErrors \cup {Fine}
        /\ Temperature(v) \in TemperatureErrors \cup {Fine}
        /\ LocationFrom(v, w) \in GeoCoordinatesErrors \cup {Fine}
        /\ DeviceStatus(v) \in DeviceStatusErrors \cup {Fine}
        /\ TelemetryTimestamp(v) \in TelemetryTimestampErrors \cup {Fine}
        /\ DeviceId(v) \in DeviceIdErrors \cup {Fine}
        /\ DeviceName(v) \in DeviceNameErrors \cup {Fine}
        /\ Email(v) \in EmailErrors \cup {Fine}
        /\ Password(v) \in PasswordErrors \cup {Fine}
        /\ NamePart(v) \in NameErrors \cup {Fine}
<1> TAKE v, w
<1>1. /\ BatteryLevel(v) \in BatteryLevelErrors \cup {Fine}
      /\ Temperature(v) \in TemperatureErrors \cup {Fine}
      /\ DeviceStatus(v) \in DeviceStatusErrors \cup {Fine}
      /\ TelemetryTimestamp(v) \in TelemetryTimestampErrors \cup {Fine}
  BY DEF BatteryLevel, Temperature, DeviceStatus, TelemetryTimestamp,
         BatteryLevelErrors, TemperatureErrors, DeviceStatusErrors, TelemetryTimestampErrors
<1>2. LocationFrom(v, w) \in GeoCoordinatesErrors \cup {Fine}
  BY DEF LocationFrom, GeoCoordinates, GeoCoordinatesErrors
<1>3. /\ DeviceId(v) \in DeviceIdErrors \cup {Fine}
      /\ DeviceName(v) \in DeviceNameErrors \cup {Fine}
  BY DEF DeviceId, DeviceName, DeviceIdErrors, DeviceNameErrors
<1>4. /\ Email(v) \in EmailErrors \cup {Fine}
      /\ Password(v) \in PasswordErrors \cup {Fine}
      /\ NamePart(v) \in NameErrors \cup {Fine}
  BY DEF Email, Password, NamePart, EmailErrors, PasswordErrors, NameErrors
<1> QED BY <1>1, <1>2, <1>3, <1>4

\* The ids that the service makes up are never refused.
LEMMA GeneratedIdsAreFine ==
    TelemetryEventId(GeneratedId) = Fine /\ UserId(GeneratedId) = Fine /\ DeviceOwnerId(GeneratedId) = Fine
BY DEF TelemetryEventId, UserId, DeviceOwnerId, GeneratedId, Value, IsEmpty, IsValidUUID

\* A refused reading is refused by a validation error of one of its parts.
LEMMA RecordErrors ==
    ASSUME NEW command
    PROVE  /\ RecordError(command) \in ValidationDomainError \cup {Fine}
           /\ RecordError(command) = Fine <=>
                 /\ DeviceId(command.id) = Fine
                 /\ BatteryLevel(command.battery) = Fine
                 /\ Temperature(command.temperature) = Fine
                 /\ LocationFrom(command.lat, command.lng) = Fine
                 /\ DeviceStatus(StatusOrUnknown(command.status)) = Fine
                 /\ TelemetryTimestamp(command.recordedAt) = Fine
<1> DEFINE errors == <<TelemetryEventId(GeneratedId), DeviceId(command.id), BatteryLevel(command.battery),
                       Temperature(command.temperature), LocationFrom(command.lat, command.lng),
                       DeviceStatus(StatusOrUnknown(command.status)), TelemetryTimestamp(command.recordedAt)>>
<1>1. RecordError(command) = FirstError(errors)
  BY DEF RecordError
<1>2. DOMAIN errors = 1..7
  OBVIOUS
<1>3. /\ errors[1] = Fine
      /\ errors[2] = DeviceId(command.id)
      /\ errors[3] = BatteryLevel(command.battery)
      /\ errors[4] = Temperature(command.temperature)
      /\ errors[5] = LocationFrom(command.lat, command.lng)
      /\ errors[6] = DeviceStatus(StatusOrUnknown(command.status))
      /\ errors[7] = TelemetryTimestamp(command.recordedAt)
  BY GeneratedIdsAreFine
<1> HIDE DEF errors
<1>4. \A i \in 1..7 : errors[i] \in ValidationDomainError \cup {Fine}
  <2> TAKE i \in 1..7
  <2>1. i \in {1, 2, 3, 4, 5, 6, 7}
    OBVIOUS
  <2>2. ReadingErrors \subseteq ValidationDomainError /\ DeviceIdErrors \subseteq ValidationDomainError
    BY DEF ValidationDomainError
  <2>3. errors[i] \in DeviceIdErrors \cup ReadingErrors \cup {Fine}
    BY <1>3, <2>1, ValueErrors DEF ReadingErrors
  <2> QED BY <2>2, <2>3
<1>5. /\ (\A i \in 1..7 : errors[i] = Fine) => FirstError(errors) = Fine
      /\ (\E i \in 1..7 : errors[i] # Fine) =>
            \E i \in 1..7 : FirstError(errors) = errors[i] /\ errors[i] # Fine
  BY <1>2, FirstErrorOf
<1>6. RecordError(command) \in ValidationDomainError \cup {Fine}
  BY <1>1, <1>4, <1>5
<1>7. RecordError(command) = Fine <=> \A i \in 1..7 : errors[i] = Fine
  BY <1>1, <1>5
<1>8. (\A i \in 1..7 : errors[i] = Fine) <=>
        errors[2] = Fine /\ errors[3] = Fine /\ errors[4] = Fine /\ errors[5] = Fine /\ errors[6] = Fine /\ errors[7] = Fine
  BY <1>3
<1> QED BY <1>3, <1>6, <1>7, <1>8

\* A device is refused for its id or for its name.
LEMMA RegisterDeviceErrors ==
    ASSUME NEW id, NEW name
    PROVE  /\ RegisterDeviceError(id, name, GeneratedId) \in ValidationDomainError \cup {Fine}
           /\ RegisterDeviceError(id, name, GeneratedId) = Fine <=> DeviceId(id) = Fine /\ DeviceName(name) = Fine
<1> DEFINE errors == <<DeviceId(id), DeviceName(name), DeviceOwnerId(GeneratedId)>>
<1>1. RegisterDeviceError(id, name, GeneratedId) = FirstError(errors)
  BY DEF RegisterDeviceError
<1>2. DOMAIN errors = 1..3
  OBVIOUS
<1>3. errors[1] = DeviceId(id) /\ errors[2] = DeviceName(name) /\ errors[3] = Fine
  BY GeneratedIdsAreFine
<1> HIDE DEF errors
<1>4. \A i \in 1..3 : errors[i] \in ValidationDomainError \cup {Fine}
  BY <1>3, ValueErrors DEF ValidationDomainError
<1>5. /\ (\A i \in 1..3 : errors[i] = Fine) => FirstError(errors) = Fine
      /\ (\E i \in 1..3 : errors[i] # Fine) =>
            \E i \in 1..3 : FirstError(errors) = errors[i] /\ errors[i] # Fine
  BY <1>2, FirstErrorOf
<1>6. (\A i \in 1..3 : errors[i] = Fine) <=> errors[1] = Fine /\ errors[2] = Fine
  BY <1>3
<1> QED BY <1>1, <1>3, <1>4, <1>5, <1>6

\* A name is refused for its first or its last part.
LEMMA NameErrorsOf ==
    ASSUME NEW first, NEW last
    PROVE  /\ Name(first, last) \in NameErrors \cup {Fine}
           /\ Name(first, last) = Fine <=> NamePart(first) = Fine /\ NamePart(last) = Fine
<1> DEFINE errors == <<NamePart(first), NamePart(last)>>
<1>1. Name(first, last) = FirstError(errors)
  BY DEF Name
<1>2. DOMAIN errors = 1..2
  OBVIOUS
<1>3. errors[1] = NamePart(first) /\ errors[2] = NamePart(last)
  OBVIOUS
<1> HIDE DEF errors
<1>4. \A i \in 1..2 : errors[i] \in NameErrors \cup {Fine}
  BY <1>3, ValueErrors
<1>5. /\ (\A i \in 1..2 : errors[i] = Fine) => FirstError(errors) = Fine
      /\ (\E i \in 1..2 : errors[i] # Fine) =>
            \E i \in 1..2 : FirstError(errors) = errors[i] /\ errors[i] # Fine
  BY <1>2, FirstErrorOf
<1>6. (\A i \in 1..2 : errors[i] = Fine) <=> errors[1] = Fine /\ errors[2] = Fine
  OBVIOUS
<1> QED BY <1>1, <1>3, <1>4, <1>5, <1>6

\* A user is refused for the email, the password or a name.
LEMMA CreateUserErrors ==
    ASSUME NEW body
    PROVE  /\ CreateUserError(body) \in ValidationDomainError \cup {Fine}
           /\ CreateUserError(body) = Fine <=>
                 /\ Email(body.email) = Fine
                 /\ Password(body.password) = Fine
                 /\ NamePart(body.firstName) = Fine
                 /\ NamePart(body.lastName) = Fine
<1> DEFINE name == Name(body.firstName, body.lastName)
<1> DEFINE errors == <<UserId(GeneratedId), Email(body.email), Password(body.password), name>>
<1>1. CreateUserError(body) = FirstError(errors)
  BY DEF CreateUserError
<1>2. DOMAIN errors = 1..4
  OBVIOUS
<1>3. /\ errors[1] = Fine /\ errors[2] = Email(body.email) /\ errors[3] = Password(body.password)
      /\ errors[4] = name
  BY GeneratedIdsAreFine
<1>4. /\ name \in NameErrors \cup {Fine}
      /\ name = Fine <=> NamePart(body.firstName) = Fine /\ NamePart(body.lastName) = Fine
  BY NameErrorsOf
<1> HIDE DEF errors, name
<1>5. \A i \in 1..4 : errors[i] \in ValidationDomainError \cup {Fine}
  BY <1>3, <1>4, ValueErrors DEF ValidationDomainError
<1>6. /\ (\A i \in 1..4 : errors[i] = Fine) => FirstError(errors) = Fine
      /\ (\E i \in 1..4 : errors[i] # Fine) =>
            \E i \in 1..4 : FirstError(errors) = errors[i] /\ errors[i] # Fine
  BY <1>2, FirstErrorOf
<1>7. (\A i \in 1..4 : errors[i] = Fine) <=> errors[2] = Fine /\ errors[3] = Fine /\ errors[4] = Fine
  BY <1>3
<1> QED BY <1>1, <1>3, <1>4, <1>5, <1>6, <1>7
------------------------------------------------------------------------------
(* The filter: the status of an exception.                                 *)

\* The arms of the filter, in order.
LEMMA CascadeIs ==
    /\ DOMAIN Cascade = 1..11
    /\ Cascade[1] = Arm(NotFoundDomainError, 404)
    /\ Cascade[2] = Arm(ValidationDomainError, 400)
    /\ Cascade[3] = Arm(DomainError, 409)
    /\ Cascade[4] = Arm(ConflictError, 409)
    /\ Cascade[5] = Arm(BadRequestError, 400)
    /\ Cascade[6] = Arm(UnauthorizedError, 401)
    /\ Cascade[7] = Arm(NotFoundError, 404)
    /\ Cascade[8] = Arm(TooManyRequestsError, 429)
    /\ Cascade[9] = Arm(ApplicationError, 400)
    /\ Cascade[10] = Arm(InfrastructureError, 500)
    /\ Cascade[11] = Arm(HttpException, 400)
BY DEF Cascade

\* The first arm that matches decides.
LEMMA FirstArmDecides ==
    ASSUME NEW error, error \notin PrismaErrors,
           NEW i \in 1..11, error \in Cascade[i].class, \A j \in 1..(i - 1) : error \notin Cascade[j].class
    PROVE  StatusOf(error) = Cascade[i].status
<1> DEFINE matches == {j \in DOMAIN Cascade : error \in Cascade[j].class}
<1>1. matches \subseteq Nat /\ i \in matches /\ \A j \in matches : i <= j
  BY CascadeIs
<1>2. (CHOOSE j \in matches : \A k \in matches : j <= k) = i
  <2> HIDE DEF matches
  <2> QED BY <1>1, ChosenIndex
<1>3. matches # {}
  BY <1>1
<1>4. StatusOf(error) = Cascade[CHOOSE j \in matches : \A k \in matches : j <= k].status
  BY <1>3 DEF StatusOf
<1> HIDE DEF matches
<1> QED BY <1>2, <1>4

\* No exception belongs to two families.
LEMMA FamiliesAreApart ==
    /\ (DomainError \cup ApplicationError \cup HttpException \cup {"Error"}) \cap PrismaErrors = {}
    /\ (ApplicationError \cup HttpException \cup {"Error"}) \cap DomainError = {}
    /\ (HttpException \cup {"Error"}) \cap ApplicationError = {}
    /\ "Error" \notin HttpException
BY DEF DomainError, ApplicationError, HttpException, PrismaErrors, PrismaCodes, ValidationDomainError,
       NotFoundDomainError, DeviceErrors, TelemetryThresholdsErrors, UserErrors, DeviceIdErrors, DeviceNameErrors,
       DeviceOwnerErrors, ReadingErrors, BatteryLevelErrors, TemperatureErrors, GeoCoordinatesErrors,
       DeviceStatusErrors, TelemetryTimestampErrors, TelemetryEventIdErrors, UserIdErrors, EmailErrors, NameErrors,
       PasswordErrors, BadRequestError, ConflictError, UnauthorizedError, NotFoundError, TooManyRequestsError,
       InvalidHistoryRangeError, DeviceNotFoundError, LatestStateUnavailableError, TelemetryRateLimitExceededError,
       AuthenticationErrors, TokenErrors

\* The errors of the domain: a value that is invalid is the request's fault, a
\* rule that would be broken is a conflict.
LEMMA DomainStatuses ==
    /\ \A error \in ValidationDomainError : StatusOf(error) = 400
    /\ \A error \in DeviceErrors \cup TelemetryThresholdsErrors \cup UserErrors : StatusOf(error) = 409
<1>1. ASSUME NEW error \in ValidationDomainError
      PROVE  StatusOf(error) = 400
  <2>1. error \notin PrismaErrors
    BY FamiliesAreApart DEF DomainError
  <2>2. error \in Cascade[2].class /\ error \notin Cascade[1].class
    BY CascadeIs DEF Arm, NotFoundDomainError
  <2>3. \A j \in 1..(2 - 1) : error \notin Cascade[j].class
    BY <2>2
  <2> QED BY <2>1, <2>2, <2>3, FirstArmDecides, CascadeIs DEF Arm
<1>2. ASSUME NEW error \in DeviceErrors \cup TelemetryThresholdsErrors \cup UserErrors
      PROVE  StatusOf(error) = 409
  <2>1. error \notin PrismaErrors
    BY FamiliesAreApart DEF DomainError
  <2>2. error \notin ValidationDomainError
    BY DEF ValidationDomainError, DeviceErrors, TelemetryThresholdsErrors, UserErrors, DeviceIdErrors,
           DeviceNameErrors, DeviceOwnerErrors, ReadingErrors, BatteryLevelErrors, TemperatureErrors,
           GeoCoordinatesErrors, DeviceStatusErrors, TelemetryTimestampErrors, TelemetryEventIdErrors,
           UserIdErrors, EmailErrors, NameErrors, PasswordErrors
  <2>3. error \in Cascade[3].class
    BY CascadeIs DEF Arm, DomainError
  <2>4. error \notin Cascade[1].class /\ error \notin Cascade[2].class
    BY <2>2, CascadeIs DEF Arm, NotFoundDomainError
  <2>5. \A j \in 1..(3 - 1) : error \notin Cascade[j].class
    BY <2>4
  <2> QED BY <2>1, <2>3, <2>5, FirstArmDecides, CascadeIs DEF Arm
<1> QED BY <1>1, <1>2

\* The errors of the handlers.
LEMMA ApplicationStatuses ==
    /\ \A error \in BadRequestError : StatusOf(error) = 400
    /\ \A error \in UnauthorizedError : StatusOf(error) = 401
    /\ \A error \in NotFoundError : StatusOf(error) = 404
    /\ \A error \in TooManyRequestsError : StatusOf(error) = 429
<1> DEFINE Refusals == BadRequestError \cup UnauthorizedError \cup NotFoundError \cup TooManyRequestsError
<1>1. ASSUME NEW error \in Refusals
      PROVE  /\ error \notin PrismaErrors
             /\ \A j \in 1..4 : error \notin Cascade[j].class
  <2>1. error \in ApplicationError
    BY DEF ApplicationError
  <2>2. error \notin PrismaErrors /\ error \notin DomainError
    BY <2>1, FamiliesAreApart
  <2> QED BY <2>2, CascadeIs DEF Arm, DomainError, NotFoundDomainError, ConflictError
<1>2. ASSUME NEW error \in BadRequestError
      PROVE  StatusOf(error) = 400
  <2>1. error \in Cascade[5].class
    BY CascadeIs DEF Arm
  <2>2. error \notin PrismaErrors /\ \A j \in 1..(5 - 1) : error \notin Cascade[j].class
    BY <1>1
  <2> QED BY <2>1, <2>2, FirstArmDecides, CascadeIs DEF Arm
<1>3. ASSUME NEW error \in UnauthorizedError
      PROVE  StatusOf(error) = 401
  <2>1. error \in Cascade[6].class
    BY CascadeIs DEF Arm
  <2>2. error \notin Cascade[5].class
    BY CascadeIs DEF Arm, BadRequestError, UnauthorizedError, InvalidHistoryRangeError, AuthenticationErrors, TokenErrors
  <2>3. error \notin PrismaErrors /\ \A j \in 1..(6 - 1) : error \notin Cascade[j].class
    BY <1>1, <2>2
  <2> QED BY <2>1, <2>3, FirstArmDecides, CascadeIs DEF Arm
<1>4. ASSUME NEW error \in NotFoundError
      PROVE  StatusOf(error) = 404
  <2>1. error \in Cascade[7].class
    BY CascadeIs DEF Arm
  <2>2. error \notin Cascade[5].class /\ error \notin Cascade[6].class
    BY CascadeIs DEF Arm, BadRequestError, UnauthorizedError, NotFoundError, InvalidHistoryRangeError,
                     AuthenticationErrors, TokenErrors, DeviceNotFoundError, LatestStateUnavailableError
  <2>3. error \notin PrismaErrors /\ \A j \in 1..(7 - 1) : error \notin Cascade[j].class
    BY <1>1, <2>2
  <2> QED BY <2>1, <2>3, FirstArmDecides, CascadeIs DEF Arm
<1>5. ASSUME NEW error \in TooManyRequestsError
      PROVE  StatusOf(error) = 429
  <2>1. error \in Cascade[8].class
    BY CascadeIs DEF Arm
  <2>2. error \notin Cascade[5].class /\ error \notin Cascade[6].class /\ error \notin Cascade[7].class
    BY CascadeIs DEF Arm, BadRequestError, UnauthorizedError, NotFoundError, TooManyRequestsError,
                     InvalidHistoryRangeError, AuthenticationErrors, TokenErrors, DeviceNotFoundError,
                     LatestStateUnavailableError, TelemetryRateLimitExceededError
  <2>3. error \notin PrismaErrors /\ \A j \in 1..(8 - 1) : error \notin Cascade[j].class
    BY <1>1, <2>2
  <2> QED BY <2>1, <2>3, FirstArmDecides, CascadeIs DEF Arm
<1> QED BY <1>2, <1>3, <1>4, <1>5

\* What the framework, the database clients and the libraries throw.
LEMMA ForeignStatuses ==
    /\ \A error \in HttpException : StatusOf(error) = 400
    /\ \A error \in PrismaErrors : StatusOf(error) = PrismaStatus(error)
    /\ StatusOf("Error") = 500
<1>1. ASSUME NEW error \in HttpException \cup {"Error"}
      PROVE  error \notin PrismaErrors /\ \A j \in 1..10 : error \notin Cascade[j].class
  <2>1. error \notin PrismaErrors /\ error \notin DomainError /\ error \notin ApplicationError
    BY FamiliesAreApart
  <2> QED BY <2>1, CascadeIs DEF Arm, DomainError, ApplicationError, InfrastructureError
<1>2. ASSUME NEW error \in HttpException
      PROVE  StatusOf(error) = 400
  <2>1. error \in Cascade[11].class
    BY CascadeIs DEF Arm
  <2>2. error \notin PrismaErrors /\ \A j \in 1..(11 - 1) : error \notin Cascade[j].class
    BY <1>1
  <2> QED BY <2>1, <2>2, FirstArmDecides, CascadeIs DEF Arm
<1>3. \A error \in PrismaErrors : StatusOf(error) = PrismaStatus(error)
  BY DEF StatusOf
<1>4. StatusOf("Error") = 500
  <2>1. "Error" \notin PrismaErrors /\ \A j \in DOMAIN Cascade : "Error" \notin Cascade[j].class
    BY <1>1, CascadeIs, FamiliesAreApart DEF Arm
  <2> QED BY <2>1 DEF StatusOf
<1> QED BY <1>2, <1>3, <1>4

\* Every arm has the status of an error.
LEMMA EveryExceptionHasAStatus ==
    \A error : StatusOf(error) \in {400, 401, 404, 409, 429, 500, 503}
<1> TAKE error
<1> DEFINE matches == {i \in DOMAIN Cascade : error \in Cascade[i].class}
<1>1. CASE error \in PrismaErrors
  BY <1>1, ForeignStatuses DEF PrismaStatus
<1>2. CASE error \notin PrismaErrors /\ matches = {}
  BY <1>2 DEF StatusOf
<1>3. CASE error \notin PrismaErrors /\ matches # {}
  <2>1. matches \subseteq 1..11
    BY CascadeIs
  <2>2. PICK least \in matches : \A i \in matches : least <= i
    <3>1. matches \subseteq Nat
      BY <2>1
    <3> HIDE DEF matches
    <3> QED BY <1>3, <3>1, LeastIndex
  <2>3. \A j \in 1..(least - 1) : error \notin Cascade[j].class
    BY <2>1, <2>2, CascadeIs
  <2>4. StatusOf(error) = Cascade[least].status
    BY <1>3, <2>1, <2>2, <2>3, FirstArmDecides
  <2>5. \A i \in 1..11 : Cascade[i].status \in {400, 401, 404, 409, 429, 500}
    <3> TAKE i \in 1..11
    <3>1. i \in {1, 2, 3, 4, 5, 6, 7, 8, 9, 10, 11}
      OBVIOUS
    <3> QED BY <3>1, CascadeIs DEF Arm
  <2> QED BY <2>1, <2>4, <2>5
<1> QED BY <1>1, <1>2, <1>3

------------------------------------------------------------------------------
(* The filter: the language of an exception.                               *)

\* Publishing adds messages to every language and removes none.
LEMMA PublishAdds ==
    ASSUME NEW catalogs, DOMAIN catalogs = Locales, NEW messages
    PROVE  /\ DOMAIN PublishCatalogs(catalogs, messages) = Locales
           /\ \A locale \in Locales : PublishCatalogs(catalogs, messages)[locale] = catalogs[locale] \cup messages
BY DEF PublishCatalogs, Register, Locales

\* No module's catalog displaces another's.
LEMMA CatalogsAreComplete ==
    \A locale \in Locales : Catalogs[locale] = (SecurityMessages \cup AuthMessages) \cup DevicesMessages
<1> DEFINE none == [locale \in Locales |-> {}]
<1> DEFINE security == PublishCatalogs(none, SecurityMessages)
<1> DEFINE auth == PublishCatalogs(security, AuthMessages)
<1>1. DOMAIN security = Locales /\ \A locale \in Locales : security[locale] = SecurityMessages
  <2>1. DOMAIN none = Locales /\ \A locale \in Locales : none[locale] = {}
    OBVIOUS
  <2> HIDE DEF none
  <2>2. DOMAIN security = Locales /\ \A locale \in Locales : security[locale] = none[locale] \cup SecurityMessages
    BY <2>1, PublishAdds
  <2> HIDE DEF security
  <2> QED BY <2>1, <2>2
<1> HIDE DEF security
<1>2. DOMAIN auth = Locales /\ \A locale \in Locales : auth[locale] = SecurityMessages \cup AuthMessages
  BY <1>1, PublishAdds
<1> HIDE DEF auth
<1>3. \A locale \in Locales :
        PublishCatalogs(auth, DevicesMessages)[locale] = (SecurityMessages \cup AuthMessages) \cup DevicesMessages
  BY <1>2, PublishAdds
<1> QED BY <1>3 DEF Catalogs, auth, security

\* Every error that a client can be told about has a translation in each language.
THEOREM EveryMessageIsTranslated ==
    \A error : \A locale \in Locales : HasTranslationKey(error) => Translate(error, locale) = locale
<1> SUFFICES ASSUME NEW error, NEW locale \in Locales, HasTranslationKey(error)
             PROVE  error \in Catalogs[locale]
  BY DEF Translate
<1>1. error \in (SecurityMessages \cup AuthMessages) \cup DevicesMessages
  BY DEF HasTranslationKey, DomainError, ApplicationError, ValidationDomainError, NotFoundDomainError,
         BadRequestError, ConflictError, UnauthorizedError, NotFoundError, TooManyRequestsError,
         SecurityMessages, AuthMessages, DevicesMessages
<1> QED BY <1>1, CatalogsAreComplete

\* The language is the first of the client's that is supported, or English.
THEOREM FirstSupportedLanguage ==
    ASSUME NEW languages \in Seq(STRING)
    PROVE  \/ \E i \in DOMAIN languages :
                 /\ ResolveLocale(languages) = languages[i]
                 /\ languages[i] \in Locales
                 /\ \A j \in 1..(i - 1) : languages[j] \notin Locales
           \/ ResolveLocale(languages) = "en" /\ \A i \in DOMAIN languages : languages[i] \notin Locales
<1> DEFINE supported == {i \in DOMAIN languages : languages[i] \in Locales}
<1>1. DOMAIN languages = 1..Len(languages) /\ Len(languages) \in Nat
  OBVIOUS
<1>2. CASE supported = {}
  BY <1>2 DEF ResolveLocale
<1>3. CASE supported # {}
  <2>1. supported \subseteq Nat
    BY <1>1
  <2>2. PICK least \in supported : \A i \in supported : least <= i
    <3> HIDE DEF supported
    <3> QED BY <1>3, <2>1, LeastIndex
  <2>3. (CHOOSE i \in supported : \A j \in supported : i <= j) = least
    <3> HIDE DEF supported
    <3> QED BY <2>1, <2>2, ChosenIndex
  <2>4. ResolveLocale(languages) = languages[least]
    BY <1>3, <2>3 DEF ResolveLocale
  <2>5. \A j \in 1..(least - 1) : languages[j] \notin Locales
    BY <1>1, <2>2
  <2> QED BY <2>2, <2>4, <2>5
<1> QED BY <1>2, <1>3

\* What a client is told, by the kind of the exception.
LEMMA Messages ==
    ASSUME NEW error, NEW locale \in Locales
    PROVE  /\ error \in PrismaErrors => Message(error, locale) = "fixed"
           /\ error = "Error" => Message(error, locale) = "fixed"
           /\ Message(error, locale) \in {"fixed", "own", locale}
<1>1. error = "Error" => error \notin PrismaErrors /\ ~HasTranslationKey(error) /\ StatusOf(error) = 500
  BY FamiliesAreApart, ForeignStatuses DEF HasTranslationKey
<1>2. error \in PrismaErrors => Message(error, locale) = "fixed"
  <2>1. error \in PrismaErrors => ~HasTranslationKey(error)
    BY FamiliesAreApart DEF HasTranslationKey
  <2> QED BY <2>1 DEF Message
<1>3. error = "Error" => Message(error, locale) = "fixed"
  BY <1>1 DEF Message
<1>4. HasTranslationKey(error) => Translate(error, locale) = locale
  BY EveryMessageIsTranslated
<1>5. Message(error, locale) \in {"fixed", "own", Translate(error, locale)}
      /\ (Message(error, locale) \in {"fixed", "own"} \/ HasTranslationKey(error))
  BY DEF Message
<1> QED BY <1>2, <1>3, <1>4, <1>5
==============================================================================
