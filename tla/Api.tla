--------------------------------- MODULE Api ---------------------------------
(***************************************************************************)
(* One client of the HTTP interface, request after request: the guard, the *)
(* ValidationPipe, the handler, the error filter, and the answer that      *)
(* takes its time to reach a browser with a cookie jar.  What the handlers *)
(* find in the databases is left open here (Service, Ingestion, Accounts   *)
(* and RateLimiter say what they may find).  Time is in minutes.           *)
(***************************************************************************)
EXTENDS Payloads, ErrorMapping

CONSTANTS
    Requests,          \* what a client may ask: endpoint, body, languages
    Configurations,    \* the settings that an operator may have chosen
    DatabaseFailures,  \* the exceptions of the database clients
    TickLength,        \* the minutes that pass in a step of the clock
    LastMinute,        \* BOUND: the clock stops here
    NoToken,           \* no token
    Nothing            \* no request, row, page or answer

Protected == {"record", "registerDevice", "history", "state", "devices", "alerts"}
Endpoints == Protected \cup {"register", "login", "logout"}

\* What a client may send to an endpoint, before any check.
Bodies(endpoint) ==
    CASE endpoint = "record" ->
             [id : TextValues, battery : Values, temperature : Values, lat : Values, lng : Values, status : STRING,
              timestamp : Values, unknownField : BOOLEAN]
      [] endpoint = "registerDevice" -> [id : TextValues, name : TextValues, unknownField : BOOLEAN]
      [] endpoint = "history" -> [from : Settings, to : Settings, offset : Settings, limit : Settings, unknownField : BOOLEAN]
      [] endpoint = "register" ->
             [email : TextValues, password : TextValues, firstName : TextValues, lastName : TextValues,
              unknownField : BOOLEAN]
      [] endpoint = "login" -> [email : TextValues, password : TextValues, unknownField : BOOLEAN]
      [] endpoint \in {"logout", "state", "devices", "alerts"} -> {Nothing}

ASSUME RequestsAssumption ==
    \A r \in Requests :
        r.endpoint \in Endpoints /\ r.body \in Bodies(r.endpoint) /\ r.languages \in Seq(STRING)

\* A duration is a text of some kind and the minutes that it denotes.
ASSUME ConfigurationsAssumption ==
    \A c \in Configurations : c.jwt.n \in Int /\ c.minBattery \in Settings /\ c.maxTemperature \in Settings

\* A violated key, P2002, is not among these failures: the actions that can meet one
\* say what becomes of it.  Of the other codes for which the filter has a status
\* the statements here can only meet those of a connection that fails; an error
\* may also have another code, or none.
ASSUME FailuresAssumption ==
    DatabaseFailures \subseteq {"P1001", "P1002", "P2024", "PrismaClientUnknownRequestError", "Error"}

ASSUME ClockAssumption == TickLength \in Nat /\ LastMinute \in Nat

VARIABLES
    config,   \* the settings: thresholds and JWT_EXPIRES_IN
    now,      \* the clock
    jar,      \* the browser's auth_token cookie
    held,     \* a token that the client took from the body of an answer
    pc,       \* the stage that the request has reached
    request,  \* the request, with the tokens that came along
    effect,   \* the row the request stored or the page it asked for
    answer,   \* the answer
    cause     \* history: what decided the answer

vars == <<config, now, jar, held, pc, request, effect, answer, cause>>

Causes == {"none", "token", "body", "device", "limit", "taken", "credentials", "silence", "settings", "server"}

Init ==
    /\ config \in Configurations
    /\ now = 0
    /\ jar = NoToken
    /\ held = NoToken
    /\ pc = "idle"
    /\ request = Nothing
    /\ effect = Nothing
    /\ answer = Nothing
    /\ cause = "none"

------------------------------------------------------------------------------
(* Tokens and cookies, from the setting JWT_EXPIRES_IN: a text of some     *)
(* kind and the minutes n that it denotes.                                 *)

\* MUTANT: every cookie lasts an hour.
AlwaysAnHour(duration) == 60

\* The cookie: plain milliseconds and a number with one of the units s, m, h, d;
\* an hour for every other text.  Spaces are the number 0.
ParseDuration(duration) ==
    CASE duration.kind \in {"milliseconds", "withUnit"} -> duration.n
      [] duration.kind = "spaces" -> 0
      [] OTHER -> 60

\* The token: the ms package, which also reads "10 minutes"; what it cannot read
\* makes sign() throw.
CanSign(duration) == duration.kind \in {"milliseconds", "withUnit", "inWords"}
Sign(time, duration) == [issued |-> time, expires |-> time + duration.n]
Verify(token) == now < token.expires

\* MUTANT: the Authorization header comes first, as in the CurrentUser decorator.
HeaderFirst == IF request.bearer # NoToken THEN request.bearer ELSE request.cookie

ExtractToken == IF request.cookie # NoToken THEN request.cookie ELSE request.bearer

------------------------------------------------------------------------------
Unchanged == [kind |-> "unchanged", token |-> NoToken, maxAge |-> 0]
Cleared == [kind |-> "cleared", token |-> NoToken, maxAge |-> 0]
SetTo(token, maxAge) == [kind |-> "set", token |-> token, maxAge |-> maxAge]

AnswerWith(status, message, cookie) ==
    /\ answer' = [status |-> status, message |-> message, cookie |-> cookie, at |-> now]
    /\ pc' = "receive"

Succeed(status, cookie) == AnswerWith(status, "result", cookie) /\ cause' = "none"

\* The exception goes through the error filter.
Throw(error, why) ==
    /\ AnswerWith(StatusOf(error), Message(error, ResolveLocale(request.languages)), Unchanged)
    /\ cause' = why

DatabaseFails == \E error \in DatabaseFailures : Throw(error, "server")

Proceed(stage) == pc' = stage /\ UNCHANGED <<answer, cause>>

\* A browser sends its cookie as long as it lasts; a client may add a token.
Send ==
    /\ pc = "idle"
    /\ \E r \in Requests, bearer \in {NoToken, held} :
          request' = [endpoint |-> r.endpoint, body |-> r.body, languages |-> r.languages, bearer |-> bearer,
                      cookie |-> IF jar # NoToken /\ now < jar.expires THEN jar.token ELSE NoToken]
    /\ Proceed(IF request'.endpoint \in Protected THEN "guard" ELSE "pipe")
    /\ UNCHANGED <<config, now, jar, held, effect>>

\* JwtAuthGuard.
Guard ==
    /\ pc = "guard"
    /\ \/ ExtractToken = NoToken /\ Throw("no_token", "token")
       \/ ExtractToken # NoToken /\ ~Verify(ExtractToken) /\ Throw("invalid_token", "token")
       \/ ExtractToken # NoToken /\ Verify(ExtractToken) /\ Proceed("pipe")
    /\ UNCHANGED <<config, now, jar, held, request, effect>>

Accepts ==
    CASE request.endpoint = "record" -> AcceptsRecordTelemetry(request.body)
      [] request.endpoint = "registerDevice" -> AcceptsRegisterDevice(request.body)
      [] request.endpoint = "history" -> AcceptsDeviceHistory(request.body)
      [] request.endpoint = "register" -> AcceptsRegister(request.body)
      [] request.endpoint = "login" -> AcceptsLogin(request.body)
      [] request.endpoint \in {"logout", "state", "devices", "alerts"} -> TRUE

\* The ValidationPipe.
Pipe ==
    /\ pc = "pipe"
    /\ \/ ~Accepts /\ Throw("BadRequestException", "body")
       \/ Accepts /\ Proceed("handler")
    /\ UNCHANGED <<config, now, jar, held, request, effect>>

Handling(endpoint) == pc = "handler" /\ request.endpoint = endpoint

\* The row is stored or not when the database fails.
Store(row, Success) ==
    \/ Success /\ effect' = row
    \/ DatabaseFails /\ effect' \in {Nothing, row}

\* RecordTelemetryHandler, up to the save.
RecordTelemetry ==
    /\ Handling("record")
    /\ LET command == RecordTelemetryCommand(request.body)
           thresholds == CurrentThresholds(config)
       IN \/ DeviceId(command.id) # Fine /\ Throw(DeviceId(command.id), "body") /\ UNCHANGED effect
          \/ /\ DeviceId(command.id) = Fine
             /\ \/ DatabaseFails /\ UNCHANGED effect
                \/ Throw("DeviceNotFoundError", "device") /\ UNCHANGED effect
                \/ Throw("TelemetryRateLimitExceededError", "limit") /\ UNCHANGED effect
                \/ /\ TelemetryThresholds(thresholds) # Fine
                   /\ Throw(TelemetryThresholds(thresholds), "settings")
                   /\ UNCHANGED effect
                \/ /\ TelemetryThresholds(thresholds) = Fine
                   /\ RecordError(command) # Fine
                   /\ Throw(RecordError(command), "body")
                   /\ UNCHANGED effect
                \/ /\ TelemetryThresholds(thresholds) = Fine
                   /\ RecordError(command) = Fine
                   /\ LET reading == TelemetryReading(command)
                      IN  Store([reading |-> reading, breached |-> Breached(reading, thresholds)],
                                Succeed(201, Unchanged))
    /\ UNCHANGED <<config, now, jar, held, request>>

\* RegisterDeviceHandler; the owner is the user of the token.
RegisterDevice ==
    /\ Handling("registerDevice")
    /\ LET device == request.body
           invalid == RegisterDeviceError(device.id, device.name, GeneratedId)
       IN \/ DeviceId(device.id) # Fine /\ Throw(DeviceId(device.id), "body") /\ UNCHANGED effect
          \/ /\ DeviceId(device.id) = Fine
             /\ \/ DatabaseFails /\ UNCHANGED effect
                \/ Throw("DeviceAlreadyExistsError", "taken") /\ UNCHANGED effect
                \/ invalid # Fine /\ Throw(invalid, "body") /\ UNCHANGED effect
                \/ invalid = Fine /\ Store([id |-> device.id, name |-> device.name], Succeed(201, Unchanged))
    /\ UNCHANGED <<config, now, jar, held, request>>

\* GetDeviceHistoryHandler: the range is checked before the owner.
GetDeviceHistory ==
    /\ Handling("history")
    /\ LET query == GetDeviceHistoryQuery(request.body)
       IN \/ IsInverted(query) /\ Throw("InvalidHistoryRangeError", "body") /\ UNCHANGED effect
          \/ /\ ~IsInverted(query)
             /\ \/ Throw("DeviceNotFoundError", "device") /\ UNCHANGED effect
                \/ DatabaseFails /\ UNCHANGED effect
                \/ Succeed(200, Unchanged) /\ effect' = query
    /\ UNCHANGED <<config, now, jar, held, request>>

\* GetLatestDeviceStateHandler: an owner learns that the device never reported.
GetLatestDeviceState ==
    /\ Handling("state")
    /\ \/ DatabaseFails
       \/ Throw("DeviceNotFoundError", "device")
       \/ Throw("LatestStateUnavailableError", "silence")
       \/ Succeed(200, Unchanged)
    /\ UNCHANGED <<config, now, jar, held, request, effect>>

\* ListDevicesHandler and ListActiveAlertsHandler: a list may be empty.
ListOwned ==
    /\ Handling("devices") \/ Handling("alerts")
    /\ DatabaseFails \/ Succeed(200, Unchanged)
    /\ UNCHANGED <<config, now, jar, held, request, effect>>

\* A token in the body and in a cookie, or the exception of sign().
GrantToken(status) ==
    \/ /\ CanSign(config.jwt)
       /\ Succeed(status, SetTo(Sign(now, config.jwt), ParseDuration(config.jwt)))
    \/ ~CanSign(config.jwt) /\ Throw("Error", "server")

\* RegisterHandler.  P2002 is a registration that was faster; the account is
\* stored before the token is signed.
RegisterUser ==
    /\ Handling("register")
    /\ LET user == request.body
       IN \/ DatabaseFails /\ UNCHANGED effect
          \/ Throw("UserAlreadyExistsError", "taken") /\ UNCHANGED effect
          \/ CreateUserError(user) # Fine /\ Throw(CreateUserError(user), "body") /\ UNCHANGED effect
          \/ CreateUserError(user) = Fine /\ Throw("P2002", "taken") /\ UNCHANGED effect
          \/ CreateUserError(user) = Fine /\ Store(user, GrantToken(201))
    /\ UNCHANGED <<config, now, jar, held, request>>

\* AuthenticateHandler.
Login ==
    /\ Handling("login")
    /\ \/ Email(request.body.email) # Fine /\ Throw(Email(request.body.email), "body")
       \/ /\ Email(request.body.email) = Fine
          /\ \/ DatabaseFails
             \/ Throw("InvalidCredentialError", "credentials")
             \/ Throw("UserIsInactiveError", "credentials")
             \/ GrantToken(200)
    /\ UNCHANGED <<config, now, jar, held, request, effect>>

\* LogoutController: nothing but the cookie.
Logout ==
    /\ Handling("logout")
    /\ Succeed(200, Cleared)
    /\ UNCHANGED <<config, now, jar, held, request, effect>>

Done ==
    /\ pc' = "idle"
    /\ request' = Nothing
    /\ effect' = Nothing
    /\ answer' = Nothing
    /\ cause' = "none"

\* The answer arrives: the browser follows its cookie, the client may keep the token.
Receive ==
    /\ pc = "receive"
    /\ \/ answer.cookie.kind = "unchanged" /\ UNCHANGED <<jar, held>>
       \/ answer.cookie.kind = "cleared" /\ jar' = NoToken /\ UNCHANGED held
       \/ /\ answer.cookie.kind = "set"
          /\ jar' = [token |-> answer.cookie.token, received |-> now, expires |-> now + answer.cookie.maxAge]
          /\ held' \in {held, answer.cookie.token}
    /\ Done
    /\ UNCHANGED <<config, now>>

\* The answer is lost.
LoseAnswer ==
    /\ pc = "receive"
    /\ Done
    /\ UNCHANGED <<config, now, jar, held>>

Tick ==
    /\ now + TickLength <= LastMinute
    /\ now' = now + TickLength
    /\ UNCHANGED <<config, jar, held, pc, request, effect, answer, cause>>

Next ==
    \/ Send \/ Guard \/ Pipe \/ Receive \/ LoseAnswer \/ Tick
    \/ RecordTelemetry \/ RegisterDevice
    \/ GetDeviceHistory \/ GetLatestDeviceState \/ ListOwned
    \/ RegisterUser \/ Login \/ Logout

Spec == Init /\ [][Next]_vars

------------------------------------------------------------------------------
(* What a request says, read from the fields as its author means them.     *)

\* v states a number in min..max: as a number or as the text of one.
States(v, min, max) == v.kind \in {"number", "numeral"} /\ v.n \in min..max

IsSilent(v) == v.kind \in {"absent", "null"}

\* A number is an instant in milliseconds; true and false are instants, too.
NamesInstant(v) == v.kind \in {"date", "number", "bool"}

\* The kinds of texts without spaces, commas and the like.
IdKinds == {"word", "uuid", "numeral", "date"}

TextOf(v, kinds, min, max) == v.kind \in kinds /\ v.n \in min..max

WellFormedReading(body) ==
    /\ TextOf(body.id, IdKinds, 3, 100)
    /\ States(body.battery, 0, 10000)
    /\ States(body.temperature, -27315, 100000)
    /\ \/ IsSilent(body.lat) /\ IsSilent(body.lng)
       \/ States(body.lat, -9000, 9000) /\ States(body.lng, -18000, 18000)
    /\ body.status \in {"absent", "OK", "FAULT", "UNKNOWN"}
    /\ NamesInstant(body.timestamp) /\ body.timestamp.n <= 300
    /\ ~body.unknownField

WellFormedDevice(body) ==
    /\ TextOf(body.id, IdKinds, 3, 100)
    /\ TextOf(body.name, TextKinds \ {"blank"}, 2, 100)
    /\ ~body.unknownField

\* A whole number in the range; a blank text in a query is a 0.
IsCount(v, range) ==
    \/ v.kind = "numeral" /\ v.n % 100 = 0 /\ v.n \div 100 \in range
    \/ v.kind = "blank" /\ 0 \in range

WellFormedFilter(filter) ==
    /\ \A v \in {filter.from, filter.to} : IsSilent(v) \/ v.kind = "date"
    /\ filter.from.kind = "date" /\ filter.to.kind = "date" => filter.from.n <= filter.to.n
    /\ IsSilent(filter.offset) \/ IsCount(filter.offset, Nat)
    /\ IsSilent(filter.limit) \/ IsCount(filter.limit, 1..100)
    /\ ~filter.unknownField

WellFormedUser(body) ==
    /\ body.email.kind = "email"
    /\ body.password.kind \in TextKinds /\ body.password.n >= 5
    /\ \A v \in {body.firstName, body.lastName} : TextOf(v, {"word", "phrase", "blank"}, 2, 50)
    /\ ~body.unknownField

WellFormedLogin(body) ==
    /\ body.email.kind = "email"
    /\ body.password.kind \in TextKinds /\ body.password.n > 0
    /\ ~body.unknownField

WellFormed ==
    CASE request.endpoint = "record" -> WellFormedReading(request.body)
      [] request.endpoint = "registerDevice" -> WellFormedDevice(request.body)
      [] request.endpoint = "history" -> WellFormedFilter(request.body)
      [] request.endpoint = "register" -> WellFormedUser(request.body)
      [] request.endpoint = "login" -> WellFormedLogin(request.body)
      [] request.endpoint \in {"logout", "state", "devices", "alerts"} -> TRUE

------------------------------------------------------------------------------
(* What the interface promises.                                            *)

Tokens == [issued : 0..LastMinute, expires : Int]
Statuses == {200, 201, 400, 401, 404, 409, 429, 500, 503}

\* The type invariant.
ApiTypeOK ==
    /\ config \in Configurations
    /\ now \in 0..LastMinute
    /\ jar = NoToken \/ (jar.token \in Tokens /\ jar.received \in 0..LastMinute /\ jar.expires \in Int)
    /\ held \in Tokens \cup {NoToken}
    /\ pc \in {"idle", "guard", "pipe", "handler", "receive"}
    /\ IF pc = "idle" THEN request = Nothing
       ELSE /\ request.endpoint \in Endpoints /\ request.body \in Bodies(request.endpoint)
            /\ request.languages \in Seq(STRING)
            /\ {request.cookie, request.bearer} \subseteq Tokens \cup {NoToken}
    /\ IF pc # "receive" THEN effect = Nothing /\ answer = Nothing
       ELSE /\ answer.status \in Statuses /\ answer.at \in 0..LastMinute
            /\ answer.cookie.kind \in {"unchanged", "cleared", "set"}
            /\ answer.cookie.kind = "set" => answer.cookie.token \in Tokens /\ answer.cookie.maxAge \in Int
    /\ cause \in Causes

\* What reaches a table or a query is what the client meant: only a well-formed
\* request has an effect, a reading is stored with the very numbers and the
\* instant that the body states, and a page is the one that was asked for.  No
\* null, blank or Boolean becomes a measurement on its way.
RecordedAsSent ==
    effect # Nothing =>
        /\ WellFormed
        /\ request.endpoint = "record" =>
              LET sent == request.body
                  row == effect.reading
              IN  /\ row.battery = sent.battery.n
                  /\ row.temperature = sent.temperature.n
                  /\ row.recordedAt = sent.timestamp.n
                  /\ \A place \in {<<sent.lat, row.lat>>, <<sent.lng, row.lng>>} :
                        IF IsSilent(place[1]) THEN IsSilent(place[2]) ELSE place[2] = Number(place[1].n)
                  /\ row.status = IF sent.status = "absent" THEN "UNKNOWN" ELSE sent.status
        /\ request.endpoint = "history" =>
              LET sent == request.body
              IN  /\ effect.offset.n = IF sent.offset.kind = "numeral" THEN sent.offset.n ELSE 0
                  /\ effect.limit.n = IF IsSilent(sent.limit) THEN 2000 ELSE sent.limit.n

\* The operator meant to write a number and did not.
IsTypo(setting) == setting.kind \in TextKinds \ {"numeral", "blank"}

\* A reading is judged by the settings: it breaches a limit if and only if it is
\* strictly beyond the number that the operator wrote, or beyond the default when
\* the operator wrote nothing.  A blank setting never switches an alert off, and a
\* limit that makes no sense never judges anything.  Of a setting that is a typo
\* nothing is said here.
VerdictsFollowTheSettings ==
    effect # Nothing /\ request.endpoint = "record" =>
        LET Limit(setting, default) == IF setting.kind = "numeral" THEN setting.n ELSE default
            minBattery == Limit(config.minBattery, 1500)
            maxTemperature == Limit(config.maxTemperature, 6000)
        IN  /\ ~IsTypo(config.minBattery) =>
                 /\ 0 <= minBattery /\ minBattery <= 10000
                 /\ ("LOW_BATTERY" \in effect.breached) <=> (request.body.battery.n < minBattery)
            /\ ~IsTypo(config.maxTemperature) =>
                 /\ -27315 <= maxTemperature /\ maxTemperature <= 100000
                 /\ ("HIGH_TEMPERATURE" \in effect.breached) <=> (request.body.temperature.n > maxTemperature)

\* A typo in a threshold setting fails loudly at the point of use: as long as it
\* is there, no reading is stored and judged by something else.
TyposAreLoud ==
    effect # Nothing /\ request.endpoint = "record" =>
        ~IsTypo(config.minBattery) /\ ~IsTypo(config.maxTemperature)

\* The statuses that the controllers document for what decided the answer; a
\* setting that makes no sense is reported as a conflict.
Documented ==
    [none |-> {200, 201}, token |-> {401}, body |-> {400}, device |-> {404}, limit |-> {429}, taken |-> {409},
     credentials |-> {401}, silence |-> {404}, settings |-> {409}, server |-> {500, 503}]

StatusTellsTheCause ==
    /\ answer.status \in Documented[cause]
    /\ cause = "none" => WellFormed
    /\ cause = "body" => ~WellFormed

\* The text of an exception that no module wrote for clients stays inside.
NothingInternalLeaks == cause = "server" => answer.message = "fixed"

\* A refusal that is worth a translation comes in the first language of the
\* client's that the service speaks, and in English if there is none.
SpeaksTheLanguage ==
    answer.message \in Locales =>
        \/ \E i \in DOMAIN request.languages :
              /\ answer.message = request.languages[i]
              /\ \A j \in 1..(i - 1) : request.languages[j] \notin Locales
        \/ answer.message = "en" /\ \A i \in DOMAIN request.languages : request.languages[i] \notin Locales

\* An answer tells the client truly whose fault it was: the status is the
\* documented one, 400 means that the request itself is malformed (and a
\* malformed request never succeeds), only failures of the service are 5xx and
\* those reveal nothing, and the message is in the client's language.
AnswersTellTheCause ==
    pc = "receive" => StatusTellsTheCause /\ NothingInternalLeaks /\ SpeaksTheLanguage

\* With a setting of the documented forms the cookie outlives its token by the
\* delay of the answer and no more.
CookieEndsWithToken ==
    jar # NoToken /\ config.jwt.kind \in {"milliseconds", "withUnit"} =>
        jar.expires + jar.token.issued = jar.token.expires + jar.received

\* Whoever is told to log in again had no live token to show, by cookie or header.
LiveTokensAreAdmitted ==
    pc = "receive" /\ cause = "token" =>
        \A token \in {request.cookie, request.bearer} \ {NoToken} : token.expires <= answer.at

\* A session has one end: browser and service agree on it, and no client that
\* still has a valid token is sent away, however logins, logouts, late answers
\* and both ways of sending a token are mixed.
SessionsEndTogether == CookieEndsWithToken /\ LiveTokensAreAdmitted
==============================================================================
