----------------------------- MODULE ErrorMapping -----------------------------
(***************************************************************************)
(* GlobalErrorFilter and LocalizationService: the answer to a request that *)
(* ended in an exception.  An exception is the name of its class; a class  *)
(* is the set of the exceptions that are instances of it.  Operators only. *)
(***************************************************************************)
EXTENDS Integers

\* The errors of the domain, file by file.
DeviceIdErrors == {"EmptyDeviceIdError", "InvalidDeviceIdFormatError"}
DeviceNameErrors == {"EmptyDeviceNameError", "DeviceNameTooShortError", "DeviceNameTooLongError"}
DeviceOwnerErrors == {"EmptyDeviceOwnerIdError", "InvalidDeviceOwnerIdFormatError"}
DeviceErrors == {"DeviceAlreadyExistsError"}
BatteryLevelErrors == {"InvalidBatteryLevelError", "BatteryLevelOutOfRangeError"}
TemperatureErrors == {"InvalidTemperatureError", "TemperatureOutOfRangeError"}
GeoCoordinatesErrors == {"InvalidLatitudeError", "InvalidLongitudeError", "PartialGeoCoordinatesError"}
DeviceStatusErrors == {"EmptyDeviceStatusError", "InvalidDeviceStatusError"}
TelemetryTimestampErrors == {"InvalidTelemetryTimestampError", "TelemetryTimestampInFutureError"}
TelemetryThresholdsErrors == {"InvalidBatteryThresholdError", "InvalidTemperatureThresholdError"}
TelemetryEventIdErrors == {"EmptyTelemetryEventIdError", "InvalidTelemetryEventIdFormatError"}
UserIdErrors == {"EmptyUserIdError", "InvalidUserIdFormatError"}
EmailErrors == {"InvalidEmailError"}
NameErrors == {"EmptyNameError", "NameTooShortError", "NameTooLongError", "InvalidNameFormatError"}
PasswordErrors == {"InvalidPasswordError"}
UserErrors == {"UserAlreadyExistsError"}

ReadingErrors ==
    BatteryLevelErrors \cup TemperatureErrors \cup GeoCoordinatesErrors \cup DeviceStatusErrors
        \cup TelemetryTimestampErrors \cup TelemetryEventIdErrors

\* The classes that the filter looks for.
ValidationDomainError ==
    DeviceIdErrors \cup DeviceNameErrors \cup DeviceOwnerErrors \cup ReadingErrors
        \cup UserIdErrors \cup EmailErrors \cup NameErrors \cup PasswordErrors
NotFoundDomainError == {}
DomainError ==
    ValidationDomainError \cup NotFoundDomainError \cup DeviceErrors \cup TelemetryThresholdsErrors \cup UserErrors

InvalidHistoryRangeError == {"InvalidHistoryRangeError"}
DeviceNotFoundError == {"DeviceNotFoundError"}
LatestStateUnavailableError == {"LatestStateUnavailableError"}
TelemetryRateLimitExceededError == {"TelemetryRateLimitExceededError"}
AuthenticationErrors == {"InvalidCredentialError", "UserIsInactiveError"}
TokenErrors == {"no_token", "invalid_token"}

BadRequestError == InvalidHistoryRangeError
ConflictError == {}
UnauthorizedError == AuthenticationErrors \cup TokenErrors
NotFoundError == DeviceNotFoundError \cup LatestStateUnavailableError
TooManyRequestsError == TelemetryRateLimitExceededError
ApplicationError ==
    BadRequestError \cup ConflictError \cup UnauthorizedError \cup NotFoundError \cup TooManyRequestsError
InfrastructureError == {}

\* What NestJS throws: the ValidationPipe's refusal is an HttpException.
HttpException == {"BadRequestException"}

PrismaCodes == {"P1001", "P1002", "P2000", "P2001", "P2002", "P2003", "P2016", "P2025", "P2024"}
PrismaErrors == PrismaCodes \cup {"PrismaClientUnknownRequestError"}

Exceptions == DomainError \cup ApplicationError \cup InfrastructureError \cup HttpException \cup PrismaErrors \cup {"Error"}

------------------------------------------------------------------------------
(* LocalizationService.                                                    *)

Locales == {"en", "ar"}

\* The keys of each module's catalogs, which are the same in both languages,
\* each named by the error that carries it.
AuthMessages == EmailErrors \cup NameErrors \cup PasswordErrors \cup UserErrors \cup AuthenticationErrors
DevicesMessages ==
    DeviceIdErrors \cup DeviceNameErrors \cup DeviceOwnerErrors \cup DeviceErrors \cup ReadingErrors
        \cup TelemetryThresholdsErrors \cup InvalidHistoryRangeError \cup DeviceNotFoundError
        \cup LatestStateUnavailableError \cup TelemetryRateLimitExceededError
SecurityMessages == TokenErrors

\* MUTANT: the catalog of a module replaces the one that is there.
RegisterReplaces(catalogs, locale, messages) == [catalogs EXCEPT ![locale] = messages]

Register(catalogs, locale, messages) == [catalogs EXCEPT ![locale] = @ \cup messages]

\* onModuleInit of a module.
PublishCatalogs(catalogs, messages) == Register(Register(catalogs, "en", messages), "ar", messages)

\* The catalogs once every module has started.
Catalogs ==
    PublishCatalogs(PublishCatalogs(PublishCatalogs([locale \in Locales |-> {}], SecurityMessages), AuthMessages),
                    DevicesMessages)

\* The first supported language of the Accept-Language header.
ResolveLocale(languages) ==
    LET supported == {i \in DOMAIN languages : languages[i] \in Locales}
    IN  IF supported = {} THEN "en" ELSE languages[CHOOSE i \in supported : \A j \in supported : i <= j]

\* The language of a translated message; the error's own text is English.
Translate(error, locale) == IF error \in Catalogs[locale] THEN locale ELSE "en"

\* The errors of a user's id are never meant for a client.
HasTranslationKey(error) == error \in (DomainError \cup ApplicationError) \ UserIdErrors

------------------------------------------------------------------------------
(* GlobalErrorFilter.                                                      *)

\* MUTANT: the switch has no default.
NoDefault(error) ==
    CASE error \in {"P2000", "P2001", "P2003", "P2016"} -> 400
      [] error = "P2002" -> 409
      [] error = "P2025" -> 404
      [] error \in {"P1001", "P1002"} -> 503
      [] OTHER -> 0

PrismaStatus(error) ==
    CASE error \in {"P2000", "P2001", "P2003", "P2016"} -> 400
      [] error = "P2002" -> 409
      [] error = "P2025" -> 404
      [] error \in {"P1001", "P1002"} -> 503
      [] OTHER -> 500

Arm(class, status) == [class |-> class, status |-> status]

\* MUTANT: the generic errors are looked for before their subclasses.
GenericFirst ==
    <<Arm(DomainError, 409), Arm(ValidationDomainError, 400), Arm(ApplicationError, 400),
      Arm(UnauthorizedError, 401), Arm(NotFoundError, 404), Arm(TooManyRequestsError, 429),
      Arm(HttpException, 400)>>

\* The classes in the order in which the filter looks for them.  An HttpException
\* has its own status; the only one thrown here is the ValidationPipe's.
Cascade ==
    <<Arm(NotFoundDomainError, 404), Arm(ValidationDomainError, 400), Arm(DomainError, 409),
      Arm(ConflictError, 409), Arm(BadRequestError, 400), Arm(UnauthorizedError, 401),
      Arm(NotFoundError, 404), Arm(TooManyRequestsError, 429), Arm(ApplicationError, 400),
      Arm(InfrastructureError, 500), Arm(HttpException, 400)>>

StatusOf(error) ==
    LET matches == {i \in DOMAIN Cascade : error \in Cascade[i].class}
    IN  CASE error \in PrismaErrors -> PrismaStatus(error)
          [] error \notin PrismaErrors /\ matches # {} ->
                 Cascade[CHOOSE i \in matches : \A j \in matches : i <= j].status
          [] OTHER -> 500

\* The text of the answer: a fixed one, a translation (by its language), or the
\* text that the exception itself carries.
Message(error, locale) ==
    CASE error \in PrismaErrors -> "fixed"
      [] HasTranslationKey(error) -> Translate(error, locale)
      [] ~HasTranslationKey(error) /\ StatusOf(error) = 500 -> "fixed"
      [] OTHER -> "own"
==============================================================================
