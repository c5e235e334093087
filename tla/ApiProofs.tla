------------------------------ MODULE ApiProofs ------------------------------
(***************************************************************************)
(* For every set of requests and configurations, and however long the      *)
(* clock runs: sessions end together; what is stored or asked for is what  *)
(* was sent; the settings judge a reading; an answer tells its cause.      *)
(*                                                                         *)
(* Sessions. All tokens of a configuration last equally long, so the       *)
(* youngest one expires last. The cookie of the browser is never older     *)
(* than a token that the client keeps beside it, since the answer that     *)
(* brings the one brings the other. The guard looks at the cookie first,   *)
(* so when it finds a dead token every other one is dead, too.             *)
(*                                                                         *)
(* Answers. A request is carried out if and only if it is well formed,     *)
(* which is shown field by field. So whatever a handler throws has its     *)
(* documented status, and what it stores are the numbers, instants and     *)
(* texts of the request.                                                   *)
(***************************************************************************)
EXTENDS Api, PayloadsProofs, TLAPS

\* A token that this configuration has issued up to now.
Issued(token) == /\ token.issued \in Int
                 /\ token.issued <= now
                 /\ token.expires = token.issued + config.jwt.n

ConfigInv == config.jwt.n \in Int /\ now \in Int

JarInv == jar # NoToken => /\ Issued(jar.token)
                           /\ jar.received \in Int
                           /\ jar.expires = jar.received + ParseDuration(config.jwt)

HeldInv == held # NoToken => Issued(held)

\* The cookie is the youngest token.
JarIsYoungest == jar # NoToken /\ held # NoToken => held.issued <= jar.token.issued

RequestInv ==
    pc # "idle" =>
        /\ request.cookie # NoToken => Issued(request.cookie)
        /\ request.bearer # NoToken => Issued(request.bearer)
        /\ request.cookie # NoToken /\ request.bearer # NoToken => request.bearer.issued <= request.cookie.issued

AnswerInv ==
    pc = "receive" /\ answer.cookie.kind = "set" =>
        /\ Issued(answer.cookie.token)
        /\ answer.cookie.maxAge = ParseDuration(config.jwt)
        /\ held # NoToken => held.issued <= answer.cookie.token.issued

ApiInv ==
    /\ ConfigInv
    /\ JarInv
    /\ HeldInv
    /\ JarIsYoungest
    /\ RequestInv
    /\ AnswerInv
    /\ LiveTokensAreAdmitted

\* What an exception does, whatever it is.
LEMMA ThrowAnswers ==
    ASSUME NEW error, NEW why, Throw(error, why)
    PROVE  pc' = "receive" /\ cause' = why /\ answer'.cookie.kind = "unchanged" /\ answer'.at = now
BY DEF Throw, AnswerWith, Unchanged

LEMMA SuccessAnswers ==
    ASSUME NEW status, NEW cookie, Succeed(status, cookie)
    PROVE  pc' = "receive" /\ cause' = "none" /\ answer'.cookie = cookie
BY DEF Succeed, AnswerWith

LEMMA FailureAnswers ==
    ASSUME DatabaseFails
    PROVE  pc' = "receive" /\ cause' # "token" /\ answer'.cookie.kind = "unchanged"
BY ThrowAnswers DEF DatabaseFails

\* An answer that sets a cookie carries a new token.
GrantsNewToken ==
    answer'.cookie.kind = "set" =>
        /\ answer'.cookie.token = Sign(now, config.jwt)
        /\ answer'.cookie.maxAge = ParseDuration(config.jwt)

\* What a handler does to a session.
HandlerStep ==
    /\ pc' = "receive"
    /\ cause' # "token"
    /\ GrantsNewToken
    /\ UNCHANGED <<config, now, jar, held, request>>

LEMMA GrantAnswers ==
    ASSUME NEW status, GrantToken(status)
    PROVE  pc' = "receive" /\ cause' # "token" /\ GrantsNewToken
<1>1. CASE /\ CanSign(config.jwt)
           /\ Succeed(status, SetTo(Sign(now, config.jwt), ParseDuration(config.jwt)))
  BY <1>1, SuccessAnswers DEF SetTo, GrantsNewToken
<1>2. CASE Throw("Error", "server")
  BY <1>2, ThrowAnswers DEF GrantsNewToken
<1> QED  BY <1>1, <1>2 DEF GrantToken

LEMMA RecordTelemetryStep == RecordTelemetry => HandlerStep
<1> SUFFICES ASSUME RecordTelemetry PROVE HandlerStep
  OBVIOUS
<1>1. \/ \E error : Throw(error, "body") \/ Throw(error, "device") \/ Throw(error, "limit") \/ Throw(error, "settings")
      \/ DatabaseFails
      \/ Succeed(201, Unchanged)
  BY DEF RecordTelemetry, Store
<1>2. UNCHANGED <<config, now, jar, held, request>>
  BY DEF RecordTelemetry
<1> QED  BY <1>1, <1>2, ThrowAnswers, SuccessAnswers, FailureAnswers DEF HandlerStep, GrantsNewToken, Unchanged

LEMMA RegisterDeviceStep == RegisterDevice => HandlerStep
<1> SUFFICES ASSUME RegisterDevice PROVE HandlerStep
  OBVIOUS
<1>1. \/ \E error : Throw(error, "body") \/ Throw(error, "taken")
      \/ DatabaseFails
      \/ Succeed(201, Unchanged)
  BY DEF RegisterDevice, Store
<1>2. UNCHANGED <<config, now, jar, held, request>>
  BY DEF RegisterDevice
<1> QED  BY <1>1, <1>2, ThrowAnswers, SuccessAnswers, FailureAnswers DEF HandlerStep, GrantsNewToken, Unchanged

LEMMA GetStep == GetDeviceHistory \/ GetLatestDeviceState \/ ListOwned => HandlerStep
<1> SUFFICES ASSUME GetDeviceHistory \/ GetLatestDeviceState \/ ListOwned PROVE HandlerStep
  OBVIOUS
<1>1. \/ \E error : Throw(error, "body") \/ Throw(error, "device") \/ Throw(error, "silence")
      \/ DatabaseFails
      \/ Succeed(200, Unchanged)
  BY DEF GetDeviceHistory, GetLatestDeviceState, ListOwned
<1>2. UNCHANGED <<config, now, jar, held, request>>
  BY DEF GetDeviceHistory, GetLatestDeviceState, ListOwned
<1> QED  BY <1>1, <1>2, ThrowAnswers, SuccessAnswers, FailureAnswers DEF HandlerStep, GrantsNewToken, Unchanged

LEMMA AccountStep == RegisterUser \/ Login \/ Logout => HandlerStep
<1> SUFFICES ASSUME RegisterUser \/ Login \/ Logout PROVE HandlerStep
  OBVIOUS
<1>1. \/ \E error : Throw(error, "body") \/ Throw(error, "taken") \/ Throw(error, "credentials")
      \/ DatabaseFails
      \/ GrantToken(201) \/ GrantToken(200)
      \/ Succeed(200, Cleared)
  BY DEF RegisterUser, Login, Logout, Store
<1>2. UNCHANGED <<config, now, jar, held, request>>
  BY DEF RegisterUser, Login, Logout
<1> QED  BY <1>1, <1>2, ThrowAnswers, SuccessAnswers, FailureAnswers, GrantAnswers
         DEF HandlerStep, GrantsNewToken, Cleared

LEMMA HandlerKeepsInv ==
    ASSUME ApiInv, HandlerStep, pc = "handler"
    PROVE  ApiInv'
<1> USE DEF HandlerStep
<1>1. ConfigInv' /\ JarInv' /\ HeldInv' /\ JarIsYoungest'
  BY DEF ApiInv, ConfigInv, JarInv, HeldInv, JarIsYoungest, Issued, ParseDuration
<1>2. RequestInv'
  BY DEF ApiInv, RequestInv, Issued
<1>3. AnswerInv'
  <2> SUFFICES ASSUME answer'.cookie.kind = "set"
               PROVE  /\ Issued(answer.cookie.token)'
                      /\ answer'.cookie.maxAge = ParseDuration(config.jwt)'
                      /\ held' # NoToken => held'.issued <= answer'.cookie.token.issued
    BY DEF AnswerInv
  <2>1. answer'.cookie.token = Sign(now, config.jwt) /\ answer'.cookie.maxAge = ParseDuration(config.jwt)
    BY DEF GrantsNewToken
  <2>2. Issued(answer.cookie.token)'
    BY <2>1 DEF Sign, Issued, ApiInv, ConfigInv
  <2>3. held' # NoToken => held'.issued <= answer'.cookie.token.issued
    BY <2>1 DEF Sign, ApiInv, HeldInv, Issued, ConfigInv
  <2> QED  BY <2>1, <2>2, <2>3 DEF ParseDuration
<1>4. LiveTokensAreAdmitted'
  BY DEF LiveTokensAreAdmitted
<1> QED  BY <1>1, <1>2, <1>3, <1>4 DEF ApiInv

LEMMA SendKeepsInv == ApiInv /\ Send => ApiInv'
<1> SUFFICES ASSUME ApiInv, Send PROVE ApiInv'
  OBVIOUS
<1> USE DEF ApiInv
<1>1. UNCHANGED <<config, now, jar, held, effect, answer, cause>> /\ pc' \in {"guard", "pipe"}
  BY DEF Send, Proceed
<1>2. ConfigInv' /\ JarInv' /\ HeldInv' /\ JarIsYoungest'
  BY <1>1 DEF ConfigInv, JarInv, HeldInv, JarIsYoungest, Issued, ParseDuration
<1>3. RequestInv'
  <2>1. PICK r \in Requests, bearer \in {NoToken, held} :
          request' = [endpoint |-> r.endpoint, body |-> r.body, languages |-> r.languages, bearer |-> bearer,
                      cookie |-> IF jar # NoToken /\ now < jar.expires THEN jar.token ELSE NoToken]
    BY DEF Send
  <2>2. request'.bearer \in {NoToken, held} /\ request'.cookie \in {NoToken, jar.token}
    BY <2>1
  <2>3. request'.cookie # NoToken => request'.cookie = jar.token /\ jar # NoToken
    BY <2>1
  <2> QED  BY <1>1, <2>2, <2>3 DEF RequestInv, JarInv, HeldInv, JarIsYoungest, Issued
<1>4. AnswerInv' /\ LiveTokensAreAdmitted'
  BY <1>1 DEF AnswerInv, LiveTokensAreAdmitted
<1> QED  BY <1>2, <1>3, <1>4

LEMMA GuardKeepsInv == ApiInv /\ Guard => ApiInv'
<1> SUFFICES ASSUME ApiInv, Guard PROVE ApiInv'
  OBVIOUS
<1> USE DEF ApiInv
<1>1. UNCHANGED <<config, now, jar, held, request>> /\ pc = "guard"
  BY DEF Guard
<1>2. ConfigInv' /\ JarInv' /\ HeldInv' /\ JarIsYoungest' /\ RequestInv'
  BY <1>1 DEF ConfigInv, JarInv, HeldInv, JarIsYoungest, Issued, ParseDuration, RequestInv
<1>3. CASE Proceed("pipe")
  BY <1>2, <1>3 DEF Proceed, AnswerInv, LiveTokensAreAdmitted
<1>4. CASE ExtractToken = NoToken /\ Throw("no_token", "token")
  <2>1. AnswerInv'
    BY <1>4, ThrowAnswers DEF AnswerInv
  <2>2. request.cookie = NoToken /\ request.bearer = NoToken
    BY <1>4 DEF ExtractToken
  <2> QED  BY <1>1, <1>2, <2>1, <2>2 DEF LiveTokensAreAdmitted
<1>5. CASE ExtractToken # NoToken /\ ~Verify(ExtractToken) /\ Throw("invalid_token", "token")
  <2>1. AnswerInv'
    BY <1>5, ThrowAnswers DEF AnswerInv
  <2>2. answer'.at = now
    BY <1>5, ThrowAnswers
  <2>3. ASSUME NEW token \in {request.cookie, request.bearer} \ {NoToken}
        PROVE  token.expires <= now
    BY <1>1, <1>5, <2>3 DEF ExtractToken, Verify, RequestInv, Issued, ConfigInv
  <2> QED  BY <1>1, <1>2, <2>1, <2>2, <2>3 DEF LiveTokensAreAdmitted
<1> QED  BY <1>3, <1>4, <1>5 DEF Guard

LEMMA PipeKeepsInv == ApiInv /\ Pipe => ApiInv'
<1> SUFFICES ASSUME ApiInv, Pipe PROVE ApiInv'
  OBVIOUS
<1> USE DEF ApiInv
<1>1. UNCHANGED <<config, now, jar, held, request>> /\ pc = "pipe"
  BY DEF Pipe
<1>2. ConfigInv' /\ JarInv' /\ HeldInv' /\ JarIsYoungest' /\ RequestInv'
  BY <1>1 DEF ConfigInv, JarInv, HeldInv, JarIsYoungest, Issued, ParseDuration, RequestInv
<1>3. CASE Proceed("handler")
  BY <1>2, <1>3 DEF Proceed, AnswerInv, LiveTokensAreAdmitted
<1>4. CASE Throw("BadRequestException", "body")
  BY <1>2, <1>4, ThrowAnswers DEF AnswerInv, LiveTokensAreAdmitted
<1> QED  BY <1>3, <1>4 DEF Pipe

LEMMA ReceiveKeepsInv == ApiInv /\ (Receive \/ LoseAnswer) => ApiInv'
<1> SUFFICES ASSUME ApiInv, Receive \/ LoseAnswer PROVE ApiInv'
  OBVIOUS
<1> USE DEF ApiInv
<1>1. UNCHANGED <<config, now>> /\ pc = "receive" /\ pc' = "idle"
  BY DEF Receive, LoseAnswer, Done
<1>2. ConfigInv' /\ RequestInv' /\ AnswerInv' /\ LiveTokensAreAdmitted'
  BY <1>1 DEF ConfigInv, RequestInv, AnswerInv, LiveTokensAreAdmitted
<1>3. CASE UNCHANGED <<jar, held>>
  BY <1>1, <1>2, <1>3 DEF JarInv, HeldInv, JarIsYoungest, Issued, ParseDuration
<1>4. CASE jar' = NoToken /\ UNCHANGED held
  BY <1>1, <1>2, <1>4 DEF JarInv, HeldInv, JarIsYoungest, Issued
<1>5. CASE /\ answer.cookie.kind = "set"
           /\ jar' = [token |-> answer.cookie.token, received |-> now, expires |-> now + answer.cookie.maxAge]
           /\ held' \in {held, answer.cookie.token}
  <2>1. jar'.token = answer.cookie.token /\ jar'.received = now /\ jar'.expires = now + answer.cookie.maxAge
    BY <1>5
  <2>2. JarInv'
    BY <1>1, <1>5, <2>1 DEF JarInv, AnswerInv, Issued, ConfigInv, ParseDuration
  <2>3. HeldInv' /\ JarIsYoungest'
    BY <1>1, <1>5, <2>1 DEF HeldInv, JarIsYoungest, AnswerInv, Issued
  <2> QED  BY <1>2, <2>2, <2>3
<1> QED  BY <1>3, <1>4, <1>5 DEF Receive, LoseAnswer

LEMMA TickKeepsInv == ApiInv /\ Tick => ApiInv'
<1> SUFFICES ASSUME ApiInv, Tick PROVE ApiInv'
  OBVIOUS
<1> USE DEF ApiInv
<1>1. now' \in Int /\ now <= now'
  BY ClockAssumption DEF Tick, ConfigInv
<1>2. UNCHANGED <<config, jar, held, pc, request, effect, answer, cause>>
  BY DEF Tick
<1>3. ASSUME NEW token, Issued(token)
      PROVE  token.issued \in Int /\ token.issued <= now' /\ token.expires = token.issued + config.jwt.n
  BY <1>1, <1>3 DEF Issued, ConfigInv
<1>4. ConfigInv' /\ JarInv' /\ HeldInv' /\ JarIsYoungest'
  BY <1>1, <1>2, <1>3 DEF ConfigInv, JarInv, HeldInv, JarIsYoungest, Issued, ParseDuration
<1>5. RequestInv' /\ AnswerInv'
  BY <1>1, <1>2, <1>3 DEF RequestInv, AnswerInv, Issued, ParseDuration
<1>6. LiveTokensAreAdmitted'
  BY <1>2 DEF LiveTokensAreAdmitted
<1> QED  BY <1>4, <1>5, <1>6

\* The invariant holds in every reachable state.
THEOREM ApiInvariance == Spec => []ApiInv
<1>1. Init => ApiInv
  BY ConfigurationsAssumption
  DEF Init, ApiInv, ConfigInv, JarInv, HeldInv, JarIsYoungest, RequestInv, AnswerInv, LiveTokensAreAdmitted
<1>2. ApiInv /\ [Next]_vars => ApiInv'
  <2> SUFFICES ASSUME ApiInv, [Next]_vars PROVE ApiInv'
    OBVIOUS
  <2>1. CASE Send  BY <2>1, SendKeepsInv
  <2>2. CASE Guard  BY <2>2, GuardKeepsInv
  <2>3. CASE Pipe  BY <2>3, PipeKeepsInv
  <2>4. CASE Receive \/ LoseAnswer  BY <2>4, ReceiveKeepsInv
  <2>5. CASE Tick  BY <2>5, TickKeepsInv
  <2>6. CASE \/ RecordTelemetry \/ RegisterDevice \/ GetDeviceHistory \/ GetLatestDeviceState \/ ListOwned
             \/ RegisterUser \/ Login \/ Logout
    <3>1. HandlerStep
      BY <2>6, RecordTelemetryStep, RegisterDeviceStep, GetStep, AccountStep
    <3>2. pc = "handler"
      BY <2>6 DEF RecordTelemetry, RegisterDevice, GetDeviceHistory, GetLatestDeviceState, ListOwned,
                  RegisterUser, Login, Logout, Handling
    <3> QED  BY <3>1, <3>2, HandlerKeepsInv
  <2>7. CASE UNCHANGED vars
    BY <2>7 DEF vars, ApiInv, ConfigInv, JarInv, HeldInv, JarIsYoungest, RequestInv, AnswerInv,
                LiveTokensAreAdmitted, Issued, ParseDuration
  <2> QED  BY <2>1, <2>2, <2>3, <2>4, <2>5, <2>6, <2>7 DEF Next
<1> QED  BY <1>1, <1>2, PTL DEF Spec

LEMMA SumsAgree == \A a, b, n \in Int : (b + n) + a = (a + n) + b
  OBVIOUS

\* Browser and service agree on the end of a session, and a client that has a
\* live token is never told to log in again.
THEOREM SessionsAgree == Spec => []SessionsEndTogether
<1>1. ApiInv => SessionsEndTogether
  <2> SUFFICES ASSUME ApiInv PROVE SessionsEndTogether
    OBVIOUS
  <2>1. CookieEndsWithToken
    <3> SUFFICES ASSUME jar # NoToken, config.jwt.kind \in {"milliseconds", "withUnit"}
                 PROVE  jar.expires + jar.token.issued = jar.token.expires + jar.received
      BY DEF CookieEndsWithToken
    <3>1. ParseDuration(config.jwt) = config.jwt.n
      BY DEF ParseDuration
    <3>2. /\ jar.token.issued \in Int /\ jar.token.expires = jar.token.issued + config.jwt.n
          /\ jar.received \in Int /\ jar.expires = jar.received + config.jwt.n
      BY <3>1 DEF ApiInv, JarInv, Issued
    <3>3. config.jwt.n \in Int
      BY DEF ApiInv, ConfigInv
    <3>4. jar.expires + jar.token.issued = (jar.received + config.jwt.n) + jar.token.issued
      BY <3>2
    <3>5. jar.token.expires + jar.received = (jar.token.issued + config.jwt.n) + jar.received
      BY <3>2
    <3> QED  BY <3>2, <3>3, <3>4, <3>5, SumsAgree, Zenon
  <2> QED  BY <2>1 DEF ApiInv, SessionsEndTogether
<1> QED  BY <1>1, ApiInvariance, PTL

------------------------------------------------------------------------------
(* A request is carried out if and only if it is well formed: field by     *)
(* field, what the DTO and the value object leave is what a client may     *)
(* mean.                                                                   *)

\* What a DTO leaves of a number.
LEMMA NumbersAreCoerced ==
    ASSUME NEW v \in Values
    PROVE  /\ v.kind \in {"number", "numeral"} => CoerceNumericString(v) = Number(v.n)
           /\ v.kind \notin {"number", "numeral"} => CoerceNumericString(v) = v
           /\ IsNumber(CoerceNumericString(v)) <=> v.kind \in {"number", "numeral"}
<1>1. v = [kind |-> v.kind, n |-> v.n]
  BY DEF Values
<1>2. v.kind = "number" => Number(v.n) = v
  BY <1>1 DEF Number, Value
<1>3. Number(v.n).kind = "number"
  BY DEF Number, Value
<1> QED BY <1>2, <1>3 DEF CoerceNumericString, IsNumber

\* The range rule of a body, as bounds.
LEMMA StatesARange ==
    ASSUME NEW v, v.n \in Int, NEW min \in Int, NEW max \in Int
    PROVE  States(v, min, max) <=> v.kind \in {"number", "numeral"} /\ min <= v.n /\ v.n <= max
BY DEF States

\* A measurement.
LEMMA MeasurementsAreStated ==
    ASSUME NEW v \in Values
    PROVE  LET coerced == CoerceNumericString(v)
           IN  /\ IsNumber(coerced) => coerced = Number(v.n)
               /\ States(v, 0, 10000) <=> IsNumber(coerced) /\ BatteryLevel(coerced) = Fine
               /\ States(v, -27315, 100000) <=> IsNumber(coerced) /\ Temperature(coerced) = Fine
<1>1. \A n \in Int : /\ BatteryLevel(Number(n)) = Fine <=> 0 <= n /\ n <= 10000
                     /\ Temperature(Number(n)) = Fine <=> -27315 <= n /\ n <= 100000
  BY DEF BatteryLevel, Temperature, IsFiniteNumber, IsNumberInRange, Number, Value, Fine
<1>2. v.n \in Int
  BY DEF Values
<1>3. /\ States(v, 0, 10000) <=> v.kind \in {"number", "numeral"} /\ 0 <= v.n /\ v.n <= 10000
      /\ States(v, -27315, 100000) <=> v.kind \in {"number", "numeral"} /\ -27315 <= v.n /\ v.n <= 100000
  BY <1>2, StatesARange
<1> QED BY <1>1, <1>2, <1>3, NumbersAreCoerced

\* A place.
Shaped(v) == IsOptional(v) \/ IsNumber(CoerceNumericString(v))
Place(v) == OrNull(CoerceNumericString(v))

\* A coordinate that is absent stays absent, and a present one is the number it was.
LEMMA PlaceIsKept ==
    ASSUME NEW v \in Values
    PROVE  /\ IsSilent(v) => Shaped(v) /\ Place(v) = Null
           /\ ~IsSilent(v) => /\ Shaped(v) <=> v.kind \in {"number", "numeral"}
                              /\ Shaped(v) => Place(v) = Number(v.n)
<1>1. IsSilent(v) <=> IsOptional(v)
  BY DEF IsSilent, IsOptional
<1>2. IsSilent(v) => CoerceNumericString(v) = v
  BY NumbersAreCoerced DEF IsSilent
<1>3. ~IsOptional(Number(v.n))
  BY DEF IsOptional, Number, Value
<1> QED BY <1>1, <1>2, <1>3, NumbersAreCoerced DEF Shaped, Place, OrNull

\* A position is taken when both coordinates are absent, or both in their ranges.
LEMMA PlacesAreStated ==
    ASSUME NEW lat \in Values, NEW lng \in Values
    PROVE  \/ IsSilent(lat) /\ IsSilent(lng)
           \/ States(lat, -9000, 9000) /\ States(lng, -18000, 18000)
           <=> Shaped(lat) /\ Shaped(lng) /\ LocationFrom(Place(lat), Place(lng)) = Fine
<1>1. IsOptional(Null) /\ \A n : ~IsOptional(Number(n))
  BY DEF IsOptional, Null, Number, Value
<1>2. \A m \in Int, n \in Int :
        LocationFrom(Number(m), Number(n)) = Fine <=>
            -9000 <= m /\ m <= 9000 /\ -18000 <= n /\ n <= 18000
  <2> TAKE m \in Int, n \in Int
  <2>1. /\ IsLatitude(Number(m)) <=> -9000 <= m /\ m <= 9000
        /\ IsLongitude(Number(n)) <=> -18000 <= n /\ n <= 18000
    BY DEF IsLatitude, IsLongitude, IsFiniteNumber, IsNumberInRange, Number, Value
  <2>2. LocationFrom(Number(m), Number(n)) = GeoCoordinates(Number(m), Number(n))
    BY DEF LocationFrom, IsOptional, Number, Value
  <2> QED BY <2>1, <2>2 DEF GeoCoordinates, Fine
<1>3. /\ LocationFrom(Null, Null) = Fine
      /\ \A n : LocationFrom(Null, Number(n)) # Fine /\ LocationFrom(Number(n), Null) # Fine
  BY <1>1 DEF LocationFrom, Fine
<1>4. lat.n \in Int /\ lng.n \in Int
  BY DEF Values
<1>5. \A v \in {lat, lng} :
         /\ v.kind \in {"number", "numeral"} => ~IsSilent(v)
         /\ ~Shaped(v) => ~IsSilent(v) /\ v.kind \notin {"number", "numeral"}
         /\ IsSilent(v) => Place(v) = Null
         /\ Shaped(v) /\ ~IsSilent(v) => v.kind \in {"number", "numeral"} /\ Place(v) = Number(v.n)
  BY PlaceIsKept DEF IsSilent
<1>6. /\ States(lat, -9000, 9000) <=> lat.kind \in {"number", "numeral"} /\ -9000 <= lat.n /\ lat.n <= 9000
      /\ States(lng, -18000, 18000) <=> lng.kind \in {"number", "numeral"} /\ -18000 <= lng.n /\ lng.n <= 18000
  BY <1>4, StatesARange
<1>7. CASE ~Shaped(lat) \/ ~Shaped(lng)
  BY <1>5, <1>7, <1>6
<1>8. CASE Shaped(lat) /\ Shaped(lng) /\ IsSilent(lat) /\ IsSilent(lng)
  BY <1>3, <1>5, <1>8
<1>9. CASE Shaped(lat) /\ Shaped(lng) /\ IsSilent(lat) /\ ~IsSilent(lng)
  BY <1>3, <1>5, <1>9, <1>6
<1>10. CASE Shaped(lat) /\ Shaped(lng) /\ ~IsSilent(lat) /\ IsSilent(lng)
  BY <1>3, <1>5, <1>10, <1>6
<1>11. CASE Shaped(lat) /\ Shaped(lng) /\ ~IsSilent(lat) /\ ~IsSilent(lng)
  BY <1>2, <1>4, <1>5, <1>11, <1>6
<1> QED BY <1>7, <1>8, <1>9, <1>10, <1>11

\* An instant.
LEMMA InstantsAreNamed ==
    ASSUME NEW v \in Values
    PROVE  /\ IsValidDate(ToDate(v)) => ToDate(v).n = v.n
           /\ NamesInstant(v) /\ v.n <= 300 <=> IsValidDate(ToDate(v)) /\ TelemetryTimestamp(ToDate(v)) = Fine
<1>1. v.kind \in Kinds /\ v.n \in Int /\ v = [kind |-> v.kind, n |-> v.n]
  BY DEF Values
<1>2. /\ v.kind = "date" => ToDate(v) = v
      /\ v.kind \in {"number", "bool"} => ToDate(v) = Value("date", v.n)
      /\ v.kind \notin {"date", "number", "bool"} => ToDate(v).kind # "date"
  BY <1>1 DEF ToDate, Value
<1>3. /\ NamesInstant(v) <=> IsValidDate(ToDate(v))
      /\ NamesInstant(v) => ToDate(v).n = v.n
  BY <1>2 DEF NamesInstant, IsValidDate, Value
<1> QED BY <1>1, <1>3 DEF TelemetryTimestamp, Fine

\* An id and a name.
LEMMA TextsAreNames ==
    ASSUME NEW v \in TextValues
    PROVE  /\ TextOf(v, IdKinds, 3, 100) <=> DeviceId(v) = Fine
           /\ TextOf(v, TextKinds \ {"blank"}, 2, 100) <=> IsString(v) /\ DeviceName(v) = Fine
           /\ TextOf(v, {"word", "phrase", "blank"}, 2, 50) <=> NamePart(v) = Fine
           /\ IsString(v) => (v.n \in Nat /\ (IsNotEmpty(v) <=> v.n > 0))
<1>1. v.kind \in Kinds /\ v.n \in Int
  BY DEF TextValues, Values
<1>2. v.kind \in TextKinds => v.n >= 0 /\ (v.kind # "blank" => v.n > 0)
  BY <1>1 DEF TextValues
<1>3. TextOf(v, IdKinds, 3, 100) <=> DeviceId(v) = Fine
  BY <1>1 DEF TextOf, IdKinds, DeviceId, IsEmpty, IsValidDeviceId, Fine
<1>4. TextOf(v, TextKinds \ {"blank"}, 2, 100) <=> IsString(v) /\ DeviceName(v) = Fine
  BY <1>1 DEF TextOf, DeviceName, IsEmpty, IsString, TextKinds, Fine
<1>5. IsString(v) => (v.n \in Nat /\ (IsNotEmpty(v) <=> v.n > 0))
  BY <1>1, <1>2 DEF IsString, IsNotEmpty, IsOptional, TextKinds
<1>6. TextOf(v, {"word", "phrase", "blank"}, 2, 50) <=> NamePart(v) = Fine
  BY <1>1 DEF TextOf, NamePart, IsNotEmpty, IsOptional, TextKinds, Fine
<1> QED BY <1>3, <1>4, <1>5, <1>6

\* A reading that is carried out is well formed and stored as it was sent.
LEMMA ReadingsAreCarriedOut ==
    ASSUME NEW body \in Bodies("record")
    PROVE  LET command == RecordTelemetryCommand(body)
           IN  /\ WellFormedReading(body) <=> AcceptsRecordTelemetry(body) /\ RecordError(command) = Fine
               /\ DeviceId(command.id) # Fine => ~WellFormedReading(body)
<1> DEFINE command == RecordTelemetryCommand(body)
<1>1. /\ body.id \in TextValues /\ body.battery \in Values /\ body.temperature \in Values
      /\ body.lat \in Values /\ body.lng \in Values /\ body.timestamp \in Values
  BY DEF Bodies
<1>2. /\ command.id = body.id
      /\ command.battery = CoerceNumericString(body.battery)
      /\ command.temperature = CoerceNumericString(body.temperature)
      /\ command.lat = Place(body.lat) /\ command.lng = Place(body.lng)
      /\ command.status = body.status
      /\ command.recordedAt = ToDate(body.timestamp)
  BY DEF RecordTelemetryCommand, Place
<1> HIDE DEF command
<1>3. TextOf(body.id, IdKinds, 3, 100) <=> DeviceId(command.id) = Fine
  BY <1>1, <1>2, TextsAreNames
<1>4. States(body.battery, 0, 10000) <=> IsNumber(CoerceNumericString(body.battery)) /\ BatteryLevel(command.battery) = Fine
  BY <1>1, <1>2, MeasurementsAreStated
<1>5. States(body.temperature, -27315, 100000) <=>
        IsNumber(CoerceNumericString(body.temperature)) /\ Temperature(command.temperature) = Fine
  BY <1>1, <1>2, MeasurementsAreStated
<1>6. \/ IsSilent(body.lat) /\ IsSilent(body.lng)
      \/ States(body.lat, -9000, 9000) /\ States(body.lng, -18000, 18000)
      <=> Shaped(body.lat) /\ Shaped(body.lng) /\ LocationFrom(command.lat, command.lng) = Fine
  BY <1>1, <1>2, PlacesAreStated
<1>7. /\ body.status \in {"absent", "OK", "FAULT", "UNKNOWN"} <=> body.status \in DeviceStatusValue \cup {"absent"}
      /\ body.status \in DeviceStatusValue \cup {"absent"} => DeviceStatus(StatusOrUnknown(command.status)) = Fine
  BY <1>2 DEF DeviceStatusValue, DeviceStatus, StatusOrUnknown, Fine
<1>8. NamesInstant(body.timestamp) /\ body.timestamp.n <= 300 <=>
        IsValidDate(ToDate(body.timestamp)) /\ TelemetryTimestamp(command.recordedAt) = Fine
  BY <1>1, <1>2, InstantsAreNamed
<1>9. AcceptsRecordTelemetry(body) <=>
        /\ ~body.unknownField
        /\ IsNumber(CoerceNumericString(body.battery)) /\ IsNumber(CoerceNumericString(body.temperature))
        /\ Shaped(body.lat) /\ Shaped(body.lng)
        /\ body.status \in DeviceStatusValue \cup {"absent"}
        /\ IsValidDate(ToDate(body.timestamp))
  BY DEF AcceptsRecordTelemetry, Shaped, IsNumber, IsOptional, IsValidDate
<1>10. RecordError(command) = Fine <=>
         /\ DeviceId(command.id) = Fine
         /\ BatteryLevel(command.battery) = Fine
         /\ Temperature(command.temperature) = Fine
         /\ LocationFrom(command.lat, command.lng) = Fine
         /\ DeviceStatus(StatusOrUnknown(command.status)) = Fine
         /\ TelemetryTimestamp(command.recordedAt) = Fine
  BY RecordErrors
<1>11. WellFormedReading(body) <=> AcceptsRecordTelemetry(body) /\ RecordError(command) = Fine
  BY <1>3, <1>4, <1>5, <1>6, <1>7, <1>8, <1>9, <1>10 DEF WellFormedReading
<1> QED BY <1>10, <1>11 DEF command

\* The row holds the numbers, the instant and the status that were sent.
LEMMA ReadingsAreKept ==
    ASSUME NEW body \in Bodies("record"), AcceptsRecordTelemetry(body)
    PROVE  LET row == TelemetryReading(RecordTelemetryCommand(body))
           IN  /\ row.battery = body.battery.n
               /\ row.temperature = body.temperature.n
               /\ row.recordedAt = body.timestamp.n
               /\ \A place \in {<<body.lat, row.lat>>, <<body.lng, row.lng>>} :
                     IF IsSilent(place[1]) THEN IsSilent(place[2]) ELSE place[2] = Number(place[1].n)
               /\ row.status = IF body.status = "absent" THEN "UNKNOWN" ELSE body.status
<1> DEFINE row == TelemetryReading(RecordTelemetryCommand(body))
<1>1. /\ body.battery \in Values /\ body.temperature \in Values
      /\ body.lat \in Values /\ body.lng \in Values /\ body.timestamp \in Values
  BY DEF Bodies
<1>2. /\ row.battery = CoerceNumericString(body.battery).n
      /\ row.temperature = CoerceNumericString(body.temperature).n
      /\ row.lat = Place(body.lat) /\ row.lng = Place(body.lng)
      /\ row.status = StatusOrUnknown(body.status)
      /\ row.recordedAt = ToDate(body.timestamp).n
  BY DEF TelemetryReading, RecordTelemetryCommand, Place
<1> HIDE DEF row
<1>3. /\ IsNumber(CoerceNumericString(body.battery)) /\ IsNumber(CoerceNumericString(body.temperature))
      /\ Shaped(body.lat) /\ Shaped(body.lng)
      /\ IsValidDate(ToDate(body.timestamp))
  BY DEF AcceptsRecordTelemetry, Shaped
<1>4. \A n : Number(n).n = n
  BY DEF Number, Value
<1>5. row.battery = body.battery.n /\ row.temperature = body.temperature.n
  BY <1>1, <1>2, <1>3, <1>4, MeasurementsAreStated
<1>6. row.recordedAt = body.timestamp.n
  BY <1>1, <1>2, <1>3, InstantsAreNamed
<1>7. IsSilent(Null)
  BY DEF IsSilent, Null, Value
<1>8. \A place \in {<<body.lat, row.lat>>, <<body.lng, row.lng>>} :
         IF IsSilent(place[1]) THEN IsSilent(place[2]) ELSE place[2] = Number(place[1].n)
  BY <1>1, <1>2, <1>3, <1>7, PlaceIsKept
<1> QED BY <1>2, <1>5, <1>6, <1>8 DEF row, StatusOrUnknown

\* The length rules of the DTOs, as bounds.
LEMMA LengthsInARange ==
    ASSUME NEW v, v.n \in Int, NEW min \in Int, NEW max \in Int
    PROVE  HasLength(v, min, max) <=> v.kind \in TextKinds /\ min <= v.n /\ v.n <= max
BY DEF HasLength, IsString

\* What a client may mean by a text, as bounds.
LEMMA TextsInARange ==
    ASSUME NEW v, v.n \in Int, NEW kinds, NEW min \in Int, NEW max \in Int
    PROVE  TextOf(v, kinds, min, max) <=> v.kind \in kinds /\ min <= v.n /\ v.n <= max
BY DEF TextOf

\* A device that is registered is well formed.
LEMMA DevicesAreCarriedOut ==
    ASSUME NEW body \in Bodies("registerDevice")
    PROVE  /\ WellFormedDevice(body) <=>
                 /\ AcceptsRegisterDevice(body)
                 /\ RegisterDeviceError(body.id, body.name, GeneratedId) = Fine
           /\ DeviceId(body.id) # Fine => ~WellFormedDevice(body)
<1>1. body.id \in TextValues /\ body.name \in TextValues
  BY DEF Bodies
<1>2. RegisterDeviceError(body.id, body.name, GeneratedId) = Fine <=> DeviceId(body.id) = Fine /\ DeviceName(body.name) = Fine
  BY RegisterDeviceErrors
<1>3. \A v \in {body.id, body.name} :
         IsString(v) /\ IsNotEmpty(v) /\ HasLength(v, 0, 100) <=> v.kind \in TextKinds /\ 0 < v.n /\ v.n <= 100
  <2> TAKE v \in {body.id, body.name}
  <2>1. v.n \in Int /\ (IsString(v) => (IsNotEmpty(v) <=> v.n > 0))
    BY <1>1, TextsAreNames DEF TextValues, Values
  <2>2. HasLength(v, 0, 100) <=> v.kind \in TextKinds /\ 0 <= v.n /\ v.n <= 100
    BY <2>1, LengthsInARange
  <2> QED BY <2>1, <2>2 DEF IsString, IsNotEmpty, IsOptional
<1>4. TextOf(body.id, IdKinds, 3, 100) <=> DeviceId(body.id) = Fine
  BY <1>1, TextsAreNames
<1>5. body.id.n \in Int /\ body.name.n \in Int
  BY <1>1 DEF TextValues, Values
<1>6. TextOf(body.id, IdKinds, 3, 100) => body.id.kind \in TextKinds /\ 0 < body.id.n /\ body.id.n <= 100
  BY <1>5, TextsInARange DEF TextKinds, IdKinds
<1>7. TextOf(body.name, TextKinds \ {"blank"}, 2, 100) <=> body.name.kind \in TextKinds /\ DeviceName(body.name) = Fine
  BY <1>1, TextsAreNames DEF IsString
<1>8. TextOf(body.name, TextKinds \ {"blank"}, 2, 100) => 0 < body.name.n /\ body.name.n <= 100
  <2>1. \A kinds : TextOf(body.name, kinds, 2, 100) => 2 <= body.name.n /\ body.name.n <= 100
    BY <1>5, TextsInARange
  <2> QED BY <1>5, <2>1
<1>9. AcceptsRegisterDevice(body) <=>
        /\ ~body.unknownField
        /\ body.id.kind \in TextKinds /\ 0 < body.id.n /\ body.id.n <= 100
        /\ body.name.kind \in TextKinds /\ 0 < body.name.n /\ body.name.n <= 100
  BY <1>3 DEF AcceptsRegisterDevice
<1> QED BY <1>2, <1>4, <1>6, <1>7, <1>8, <1>9 DEF WellFormedDevice

\* So is a user,
LEMMA UsersAreCarriedOut ==
    ASSUME NEW body \in Bodies("register")
    PROVE  WellFormedUser(body) <=> AcceptsRegister(body) /\ CreateUserError(body) = Fine
<1>1. /\ body.email \in TextValues /\ body.password \in TextValues
      /\ body.firstName \in TextValues /\ body.lastName \in TextValues
  BY DEF Bodies
<1>2. CreateUserError(body) = Fine <=>
        /\ Email(body.email) = Fine
        /\ Password(body.password) = Fine
        /\ NamePart(body.firstName) = Fine
        /\ NamePart(body.lastName) = Fine
  BY CreateUserErrors
<1>3. /\ Email(body.email) = Fine <=> body.email.kind = "email"
      /\ Password(body.password) = Fine <=> body.password.n >= 5
  BY DEF Email, Password, Fine
<1>4. \A v \in {body.firstName, body.lastName} :
         /\ TextOf(v, {"word", "phrase", "blank"}, 2, 50) <=> NamePart(v) = Fine
         /\ TextOf(v, {"word", "phrase", "blank"}, 2, 50) => IsString(v) /\ IsNotEmpty(v)
  <2> TAKE v \in {body.firstName, body.lastName}
  <2>1. TextOf(v, {"word", "phrase", "blank"}, 2, 50) => IsString(v) /\ v.n > 0
    BY DEF TextOf, IsString, TextKinds
  <2> QED BY <1>1, <2>1, TextsAreNames
<1> QED BY <1>2, <1>3, <1>4 DEF WellFormedUser, AcceptsRegister, IsString

\* and a login.
LEMMA LoginsAreCarriedOut ==
    ASSUME NEW body \in Bodies("login")
    PROVE  WellFormedLogin(body) <=> AcceptsLogin(body) /\ Email(body.email) = Fine
<1>1. body.email \in TextValues /\ body.password \in TextValues
  BY DEF Bodies
<1>2. Email(body.email) = Fine <=> body.email.kind = "email"
  BY DEF Email, Fine
<1>3. body.email.kind = "email" => IsString(body.email) /\ IsNotEmpty(body.email)
  BY DEF IsString, IsNotEmpty, IsOptional, TextKinds
<1>4. IsString(body.password) /\ IsNotEmpty(body.password) <=> body.password.kind \in TextKinds /\ body.password.n > 0
  BY <1>1, TextsAreNames DEF IsString, IsNotEmpty, IsOptional
<1> QED BY <1>2, <1>3, <1>4 DEF WellFormedLogin, AcceptsLogin

\* A whole number, in hundredths and by itself.
LEMMA WholeHundreds ==
    /\ \A n \in Int : n % 100 = 0 => /\ n \div 100 \in Nat <=> 0 <= n
                                     /\ n \div 100 \in 1..100 <=> 100 <= n /\ n <= 10000
    /\ 0 \notin 1..100
<1>1. ASSUME NEW n \in Int, NEW whole \in Int, n = 100 * whole
      PROVE  /\ whole \in Nat <=> 0 <= n
             /\ 1 <= whole /\ whole <= 100 <=> 100 <= n /\ n <= 10000
  BY <1>1
<1>2. ASSUME NEW n \in Int, n % 100 = 0
      PROVE  n \div 100 \in Int /\ n = 100 * (n \div 100)
  BY <1>2
<1>3. \A whole \in Int : whole \in 1..100 <=> 1 <= whole /\ whole <= 100
  OBVIOUS
<1> QED BY <1>1, <1>2, <1>3

\* A page is the one that was asked for, and its filter is well formed.
LEMMA FiltersAreCarriedOut ==
    ASSUME NEW filter \in Bodies("history")
    PROVE  LET query == GetDeviceHistoryQuery(filter)
           IN  /\ WellFormedFilter(filter) <=> AcceptsDeviceHistory(filter) /\ ~IsInverted(query)
               /\ WellFormedFilter(filter) =>
                     /\ query.offset.n = IF filter.offset.kind = "numeral" THEN filter.offset.n ELSE 0
                     /\ query.limit.n = IF IsSilent(filter.limit) THEN 2000 ELSE filter.limit.n
<1> DEFINE query == GetDeviceHistoryQuery(filter)
<1>1. /\ filter.from \in Settings /\ filter.to \in Settings
      /\ filter.offset \in Settings /\ filter.limit \in Settings
  BY DEF Bodies
<1>2. /\ query.offset = IF IsOptional(filter.offset) THEN Number(0) ELSE ToNumber(filter.offset)
      /\ query.limit = IF IsOptional(filter.limit) THEN Number(2000) ELSE ToNumber(filter.limit)
      /\ query.from = ToDate(filter.from)
      /\ query.to = ToDate(filter.to)
  BY DEF GetDeviceHistoryQuery
<1> HIDE DEF query
<1>3. ASSUME NEW v \in Settings
      PROVE  /\ v.n \in Int
             /\ IsSilent(v) <=> IsOptional(v)
             /\ IsOptional(v) \/ IsValidDate(ToDate(v)) <=> IsSilent(v) \/ v.kind = "date"
             /\ ToDate(v).kind = "date" <=> v.kind = "date"
             /\ v.kind = "date" => ToDate(v).n = v.n
  BY DEF Settings, TextKinds, IsSilent, IsOptional, IsValidDate, ToDate, Value
<1>4. ASSUME NEW v \in Settings
      PROVE  /\ v.kind = "numeral" => ToNumber(v) = Number(v.n)
             /\ v.kind = "blank" => ToNumber(v) = Number(0)
             /\ v.kind \notin {"numeral", "blank"} => ToNumber(v).kind # "number"
             /\ v.kind \in {"numeral", "blank"} => ~IsOptional(v)
  BY DEF Settings, TextKinds, ToNumber, IsOptional, Value
<1>5. \A n \in Int : /\ IsInt(Number(n)) <=> n % 100 = 0
                     /\ Number(n).n = n /\ Number(n).kind = "number"
  BY DEF IsInt, Number, Value
<1> DEFINE pages == 1..100
<1>6. /\ \A n \in Int : n % 100 = 0 => /\ n \div 100 \in Nat <=> 0 <= n
                                       /\ n \div 100 \in pages <=> 100 <= n /\ n <= 10000
      /\ 0 \notin pages
  BY WholeHundreds
<1> HIDE DEF pages
<1>7. IsInt(ToNumber(filter.offset)) /\ ToNumber(filter.offset).n >= 0 <=> IsCount(filter.offset, Nat)
  <2>1. CASE filter.offset.kind = "numeral"
    BY <1>1, <1>3, <1>4, <1>5, <1>6, <2>1 DEF IsCount
  <2>2. CASE filter.offset.kind = "blank"
    BY <1>1, <1>4, <1>5, <2>2 DEF IsCount
  <2>3. CASE filter.offset.kind \notin {"numeral", "blank"}
    BY <1>1, <1>4, <2>3 DEF IsCount, IsInt
  <2> QED BY <2>1, <2>2, <2>3
<1>8. IsInt(ToNumber(filter.limit)) /\ IsNumberInRange(ToNumber(filter.limit), 100, 10000) <=> IsCount(filter.limit, pages)
  <2>1. CASE filter.limit.kind = "numeral"
    BY <1>1, <1>3, <1>4, <1>5, <1>6, <2>1 DEF IsCount, IsNumberInRange
  <2>2. CASE filter.limit.kind = "blank"
    BY <1>1, <1>4, <1>5, <1>6, <2>2 DEF IsCount, IsNumberInRange
  <2>3. CASE filter.limit.kind \notin {"numeral", "blank"}
    BY <1>1, <1>4, <2>3 DEF IsCount, IsInt
  <2> QED BY <2>1, <2>2, <2>3
<1>9. AcceptsDeviceHistory(filter) <=>
        /\ ~filter.unknownField
        /\ \A v \in {filter.from, filter.to} : IsSilent(v) \/ v.kind = "date"
        /\ IsSilent(filter.offset) \/ IsCount(filter.offset, Nat)
        /\ IsSilent(filter.limit) \/ IsCount(filter.limit, pages)
  BY <1>1, <1>3, <1>7, <1>8 DEF AcceptsDeviceHistory
<1>10. ~IsInverted(query) <=>
         (filter.from.kind = "date" /\ filter.to.kind = "date" => filter.from.n <= filter.to.n)
  BY <1>1, <1>2, <1>3 DEF IsInverted
<1>11. WellFormedFilter(filter) <=> AcceptsDeviceHistory(filter) /\ ~IsInverted(query)
  BY <1>9, <1>10 DEF WellFormedFilter, pages
<1>12. ASSUME WellFormedFilter(filter)
       PROVE  /\ query.offset.n = IF filter.offset.kind = "numeral" THEN filter.offset.n ELSE 0
              /\ query.limit.n = IF IsSilent(filter.limit) THEN 2000 ELSE filter.limit.n
  <2>1. IsSilent(filter.offset) \/ filter.offset.kind \in {"numeral", "blank"}
    BY <1>12 DEF WellFormedFilter, IsCount
  <2>2. IsSilent(filter.limit) \/ filter.limit.kind = "numeral"
    BY <1>12 DEF WellFormedFilter, IsCount
  <2>3. query.offset.n = IF filter.offset.kind = "numeral" THEN filter.offset.n ELSE 0
    BY <1>1, <1>2, <1>3, <1>4, <1>5, <2>1 DEF IsSilent
  <2>4. query.limit.n = IF IsSilent(filter.limit) THEN 2000 ELSE filter.limit.n
    BY <1>1, <1>2, <1>3, <1>4, <1>5, <2>2
  <2> QED BY <2>3, <2>4
<1> QED BY <1>11, <1>12 DEF query

\* The limits are the operator's numbers, or the defaults.
Limit(setting, default) == IF setting.kind = "numeral" THEN setting.n ELSE default

\* The thresholds are the operator's numbers, else the defaults, and verdicts are
\* strict comparisons with them.
LEMMA ThresholdsFollowTheSettings ==
    ASSUME config.minBattery \in Settings, config.maxTemperature \in Settings
    PROVE  LET thresholds == CurrentThresholds(config)
               minBattery == Limit(config.minBattery, 1500)
               maxTemperature == Limit(config.maxTemperature, 6000)
           IN  /\ TelemetryThresholds(thresholds) \in TelemetryThresholdsErrors \cup {Fine}
               /\ TelemetryThresholds(thresholds) = Fine =>
                     0 <= minBattery /\ minBattery <= 10000 /\ -27315 <= maxTemperature /\ maxTemperature <= 100000
               /\ \A reading :
                     /\ ("LOW_BATTERY" \in Breached(reading, thresholds)) <=> (reading.battery < minBattery)
                     /\ ("HIGH_TEMPERATURE" \in Breached(reading, thresholds)) <=> (reading.temperature > maxTemperature)
<1> DEFINE thresholds == CurrentThresholds(config)
<1>1. ASSUME NEW raw \in Settings, NEW fallback
      PROVE  NumberOrDefault(raw, fallback) = Limit(raw, fallback)
  <2>1. raw.kind \in {"absent", "numeral", "date", "blank", "word", "phrase", "email", "uuid"}
    BY DEF Settings, TextKinds
  <2>2. CASE raw.kind = "numeral"
    BY <2>2 DEF NumberOrDefault, Limit, IsEmpty, ToNumber, Number, Value
  <2>3. CASE raw.kind \in {"absent", "blank"}
    BY <2>3 DEF NumberOrDefault, Limit, IsEmpty
  <2>4. CASE raw.kind \in {"date", "word", "phrase", "email", "uuid"}
    BY <2>4 DEF NumberOrDefault, Limit, IsEmpty, ToNumber, Value
  <2> QED BY <2>1, <2>2, <2>3, <2>4
<1>2. /\ thresholds.minBattery = Limit(config.minBattery, 1500)
      /\ thresholds.maxTemperature = Limit(config.maxTemperature, 6000)
  BY <1>1 DEF CurrentThresholds
<1> HIDE DEF thresholds
<1>3. /\ TelemetryThresholds(thresholds) \in TelemetryThresholdsErrors \cup {Fine}
      /\ TelemetryThresholds(thresholds) = Fine =>
            /\ 0 <= thresholds.minBattery /\ thresholds.minBattery <= 10000
            /\ -27315 <= thresholds.maxTemperature /\ thresholds.maxTemperature <= 100000
  <2>1. \A n, min, max : IsNumberInRange(Number(n), min, max) <=> n >= min /\ n <= max
    BY DEF IsNumberInRange, Number, Value
  <2>2. thresholds.minBattery \in Int /\ thresholds.maxTemperature \in Int
    BY <1>2 DEF Limit, Settings
  <2> QED BY <2>1, <2>2 DEF TelemetryThresholds, TelemetryThresholdsErrors, Fine
<1>4. \A reading :
         /\ ("LOW_BATTERY" \in Breached(reading, thresholds)) <=> (reading.battery < thresholds.minBattery)
         /\ ("HIGH_TEMPERATURE" \in Breached(reading, thresholds)) <=> (reading.temperature > thresholds.maxTemperature)
  BY DEF Breached, IsBelow, IsAbove
<1> QED BY <1>2, <1>3, <1>4 DEF thresholds

------------------------------------------------------------------------------
(* The answers.  The invariant: every part of a request is of its type,    *)
(* only accepted requests reach a handler, and what the interface promises *)
(* of effects and answers.                                                 *)

RequestTyped ==
    /\ request.endpoint \in Endpoints /\ request.body \in Bodies(request.endpoint)
    /\ request.languages \in Seq(STRING)
    /\ {request.cookie, request.bearer} \subseteq Tokens \cup {NoToken}

AnswerTyped ==
    /\ answer.status \in Statuses /\ answer.at \in 0..LastMinute
    /\ answer.cookie.kind \in {"unchanged", "cleared", "set"}
    /\ answer.cookie.kind = "set" => answer.cookie.token \in Tokens /\ answer.cookie.maxAge \in Int

Told == StatusTellsTheCause /\ NothingInternalLeaks /\ SpeaksTheLanguage
EffectsTold == RecordedAsSent /\ VerdictsFollowTheSettings

ServedInv ==
    /\ ApiTypeOK
    /\ pc = "handler" => Accepts
    /\ EffectsTold
    /\ AnswersTellTheCause

Answered == pc' = "receive" /\ AnswerTyped' /\ Told' /\ cause' \in Causes

\* What a request may still ask of a handler.
Serving == RequestTyped /\ config \in Configurations /\ now \in 0..LastMinute /\ UNCHANGED <<config, now, jar, held, request>>

\* Whether a request is well formed is up to the request alone.
LEMMA WellFormedStays ==
    ASSUME UNCHANGED request
    PROVE  WellFormed' = WellFormed
BY DEF WellFormed

\* Every refusal has the status that is documented for its cause.
LEMMA RefusalsAreDocumented ==
    /\ \A error \in ValidationDomainError \cup BadRequestError \cup HttpException : StatusOf(error) \in Documented["body"]
    /\ \A error \in TokenErrors : StatusOf(error) \in Documented["token"]
    /\ \A error \in DeviceNotFoundError : StatusOf(error) \in Documented["device"]
    /\ \A error \in TelemetryRateLimitExceededError : StatusOf(error) \in Documented["limit"]
    /\ \A error \in DeviceErrors \cup UserErrors \cup {"P2002"} : StatusOf(error) \in Documented["taken"]
    /\ \A error \in AuthenticationErrors : StatusOf(error) \in Documented["credentials"]
    /\ \A error \in LatestStateUnavailableError : StatusOf(error) \in Documented["silence"]
    /\ \A error \in TelemetryThresholdsErrors : StatusOf(error) \in Documented["settings"]
    /\ \A error \in DatabaseFailures \cup {"Error"} :
          StatusOf(error) \in Documented["server"] /\ error \in PrismaErrors \cup {"Error"}
<1>1. /\ TokenErrors \cup AuthenticationErrors \subseteq UnauthorizedError
      /\ DeviceNotFoundError \cup LatestStateUnavailableError \subseteq NotFoundError
      /\ TelemetryRateLimitExceededError \subseteq TooManyRequestsError
  BY DEF UnauthorizedError, NotFoundError, TooManyRequestsError
<1>2. /\ \A error \in DatabaseFailures \ {"Error"} : error \in PrismaErrors /\ PrismaStatus(error) \in {500, 503}
      /\ "P2002" \in PrismaErrors /\ PrismaStatus("P2002") = 409
  BY FailuresAssumption DEF PrismaErrors, PrismaCodes, PrismaStatus
<1>3. /\ Documented["body"] = {400} /\ Documented["token"] = {401} /\ Documented["device"] = {404}
      /\ Documented["limit"] = {429} /\ Documented["taken"] = {409} /\ Documented["credentials"] = {401}
      /\ Documented["silence"] = {404} /\ Documented["settings"] = {409} /\ Documented["server"] = {500, 503}
  BY DEF Documented
<1> QED BY <1>1, <1>2, <1>3, DomainStatuses, ApplicationStatuses, ForeignStatuses

\* An exception is answered with the status of its cause and in the right language.
LEMMA ThrowTells ==
    ASSUME Serving, NEW error, NEW why \in Causes \ {"none"}, Throw(error, why),
           StatusOf(error) \in Documented[why],
           why = "body" => ~WellFormed,
           why = "server" => error \in PrismaErrors \cup {"Error"}
    PROVE  Answered /\ cause' = why
<1> DEFINE locale == ResolveLocale(request.languages)
<1>1. /\ pc' = "receive" /\ cause' = why
      /\ answer' = [status |-> StatusOf(error), message |-> Message(error, locale), cookie |-> Unchanged, at |-> now]
  BY DEF Throw, AnswerWith
<1>2. AnswerTyped'
  BY <1>1, EveryExceptionHasAStatus DEF Serving, AnswerTyped, Statuses, Unchanged
<1>3. /\ \/ \E i \in DOMAIN request.languages :
              /\ locale = request.languages[i]
              /\ locale \in Locales
              /\ \A j \in 1..(i - 1) : request.languages[j] \notin Locales
         \/ locale = "en" /\ \A i \in DOMAIN request.languages : request.languages[i] \notin Locales
      /\ locale \in Locales
  <2>1. request.languages \in Seq(STRING)
    BY DEF Serving, RequestTyped
  <2>2. \/ \E i \in DOMAIN request.languages :
              /\ locale = request.languages[i]
              /\ request.languages[i] \in Locales
              /\ \A j \in 1..(i - 1) : request.languages[j] \notin Locales
        \/ locale = "en" /\ \A i \in DOMAIN request.languages : request.languages[i] \notin Locales
    BY <2>1, FirstSupportedLanguage
  <2>3. "en" \in Locales
    BY DEF Locales
  <2> HIDE DEF locale
  <2> QED BY <2>2, <2>3
<1> HIDE DEF locale
<1>4. UNCHANGED request /\ WellFormed' = WellFormed
  BY WellFormedStays DEF Serving
<1>5. /\ Message(error, locale) \in {"fixed", "own", locale}
      /\ error \in PrismaErrors \cup {"Error"} => Message(error, locale) = "fixed"
  BY <1>3, Messages
<1>6. StatusTellsTheCause' /\ NothingInternalLeaks'
  BY <1>1, <1>4, <1>5 DEF StatusTellsTheCause, NothingInternalLeaks, Documented
<1>7. SpeaksTheLanguage'
  <2>1. Message(error, locale) \in Locales => Message(error, locale) = locale
    BY <1>5 DEF Locales
  <2>2. answer'.message = Message(error, locale) /\ request' = request
    BY <1>1, <1>4
  <2> QED BY <1>3, <2>1, <2>2 DEF SpeaksTheLanguage
<1> QED BY <1>1, <1>2, <1>6, <1>7 DEF Answered, Told

\* So is a database that fails.
LEMMA FailureTells ==
    ASSUME Serving, DatabaseFails
    PROVE  Answered
<1>1. PICK error \in DatabaseFailures : Throw(error, "server")
  BY DEF DatabaseFails
<1>2. StatusOf(error) \in Documented["server"] /\ error \in PrismaErrors \cup {"Error"}
  BY RefusalsAreDocumented
<1> QED BY <1>1, <1>2, ThrowTells DEF Causes

\* What is carried out was well formed and is told so.
LEMMA SuccessTells ==
    ASSUME Serving, WellFormed, NEW status \in {200, 201}, NEW cookie, Succeed(status, cookie),
           cookie.kind \in {"unchanged", "cleared", "set"},
           cookie.kind = "set" => cookie.token \in Tokens /\ cookie.maxAge \in Int
    PROVE  Answered
<1>1. /\ pc' = "receive" /\ cause' = "none"
      /\ answer' = [status |-> status, message |-> "result", cookie |-> cookie, at |-> now]
  BY DEF Succeed, AnswerWith
<1>2. WellFormed' = WellFormed
  BY WellFormedStays DEF Serving
<1>3. AnswerTyped'
  BY <1>1 DEF Serving, AnswerTyped, Statuses
<1>4. Told'
  BY <1>1, <1>2 DEF Told, StatusTellsTheCause, NothingInternalLeaks, SpeaksTheLanguage, Documented, Locales
<1> QED BY <1>1, <1>3, <1>4 DEF Answered, Causes

\* A login that cannot be signed is answered like any error, else as a success.
LEMMA GrantTells ==
    ASSUME Serving, WellFormed, NEW status \in {200, 201}, GrantToken(status)
    PROVE  Answered
<1>1. config.jwt.n \in Int /\ now \in Int
  BY ConfigurationsAssumption DEF Serving
<1>2. CASE Succeed(status, SetTo(Sign(now, config.jwt), ParseDuration(config.jwt)))
  <2> DEFINE cookie == SetTo(Sign(now, config.jwt), ParseDuration(config.jwt))
  <2>1. cookie.kind = "set" /\ cookie.token = Sign(now, config.jwt) /\ cookie.maxAge = ParseDuration(config.jwt)
    BY DEF SetTo
  <2>2. Sign(now, config.jwt) \in Tokens /\ ParseDuration(config.jwt) \in Int
    BY <1>1 DEF Sign, Tokens, ParseDuration, Serving
  <2> HIDE DEF cookie
  <2>3. Succeed(status, cookie)
    BY <1>2 DEF cookie
  <2> QED BY <2>1, <2>2, <2>3, SuccessTells
<1>3. CASE Throw("Error", "server")
  BY <1>3, ThrowTells, RefusalsAreDocumented DEF Causes
<1> QED BY <1>2, <1>3 DEF GrantToken

------------------------------------------------------------------------------
(* The handlers.                                                           *)

\* What a handler finds.
Handler(endpoint) ==
    /\ Handling(endpoint)
    /\ Serving
    /\ Accepts
    /\ effect = Nothing

Served == Answered /\ EffectsTold' /\ UNCHANGED <<config, now, jar, held, request>>

\* Where nothing is stored and nothing asked, nothing is stored wrongly.
LEMMA NoEffect ==
    ASSUME effect' = Nothing
    PROVE  EffectsTold'
BY DEF EffectsTold, RecordedAsSent, VerdictsFollowTheSettings

\* A reading: refused for its id, its device, the limit, the settings or its values,
\* in that order; what is stored is what was sent.
LEMMA RecordTelemetryServes ==
    ASSUME Handler("record"), RecordTelemetry
    PROVE  Served
<1> DEFINE body == request.body
<1> DEFINE command == RecordTelemetryCommand(body)
<1> DEFINE thresholds == CurrentThresholds(config)
<1> DEFINE row == [reading |-> TelemetryReading(command), breached |-> Breached(TelemetryReading(command), thresholds)]
<1>1. /\ Serving /\ effect = Nothing
      /\ request.endpoint = "record" /\ body \in Bodies("record") /\ AcceptsRecordTelemetry(body)
  BY DEF Handler, Handling, Serving, RequestTyped, Accepts
<1>2. WellFormed <=> WellFormedReading(body)
  BY <1>1 DEF WellFormed, WellFormedReading
<1>3. WellFormedReading(body) <=> RecordError(command) = Fine
  BY <1>1, ReadingsAreCarriedOut
<1>4. DeviceId(command.id) # Fine => ~WellFormedReading(body)
  BY <1>1, ReadingsAreCarriedOut
<1>5. /\ DeviceId(command.id) # Fine => DeviceId(command.id) \in ValidationDomainError
      /\ RecordError(command) # Fine => RecordError(command) \in ValidationDomainError
  BY ValueErrors, RecordErrors DEF ValidationDomainError
<1>6. config.minBattery \in Settings /\ config.maxTemperature \in Settings
  BY <1>1, ConfigurationsAssumption DEF Serving
<1>7. TelemetryThresholds(thresholds) # Fine => TelemetryThresholds(thresholds) \in TelemetryThresholdsErrors
  BY <1>6, ThresholdsFollowTheSettings
<1>8. \/ DeviceId(command.id) # Fine /\ Throw(DeviceId(command.id), "body") /\ UNCHANGED effect
      \/ DatabaseFails /\ UNCHANGED effect
      \/ Throw("DeviceNotFoundError", "device") /\ UNCHANGED effect
      \/ Throw("TelemetryRateLimitExceededError", "limit") /\ UNCHANGED effect
      \/ /\ TelemetryThresholds(thresholds) # Fine
         /\ Throw(TelemetryThresholds(thresholds), "settings")
         /\ UNCHANGED effect
      \/ RecordError(command) # Fine /\ Throw(RecordError(command), "body") /\ UNCHANGED effect
      \/ /\ TelemetryThresholds(thresholds) = Fine
         /\ RecordError(command) = Fine
         /\ Succeed(201, Unchanged) \/ DatabaseFails
         /\ effect' \in {Nothing, row}
  BY DEF RecordTelemetry, Store
<1>9. Answered
  <2> HIDE DEF command, thresholds, row
  <2>1. CASE DeviceId(command.id) # Fine /\ Throw(DeviceId(command.id), "body")
    BY <1>1, <1>2, <1>4, <1>5, <2>1, ThrowTells, RefusalsAreDocumented DEF Causes
  <2>2. CASE DatabaseFails
    BY <1>1, <2>2, FailureTells
  <2>3. CASE Throw("DeviceNotFoundError", "device")
    BY <1>1, <2>3, ThrowTells, RefusalsAreDocumented DEF Causes, DeviceNotFoundError
  <2>4. CASE Throw("TelemetryRateLimitExceededError", "limit")
    BY <1>1, <2>4, ThrowTells, RefusalsAreDocumented DEF Causes, TelemetryRateLimitExceededError
  <2>5. CASE TelemetryThresholds(thresholds) # Fine /\ Throw(TelemetryThresholds(thresholds), "settings")
    BY <1>1, <1>7, <2>5, ThrowTells, RefusalsAreDocumented DEF Causes
  <2>6. CASE RecordError(command) # Fine /\ Throw(RecordError(command), "body")
    BY <1>1, <1>2, <1>3, <1>5, <2>6, ThrowTells, RefusalsAreDocumented DEF Causes
  <2>7. CASE RecordError(command) = Fine /\ Succeed(201, Unchanged)
    BY <1>1, <1>2, <1>3, <2>7, SuccessTells DEF Unchanged
  <2> QED BY <1>8, <2>1, <2>2, <2>3, <2>4, <2>5, <2>6, <2>7
<1>10. UNCHANGED <<config, now, jar, held, request>>
  BY DEF RecordTelemetry
<1>11. EffectsTold'
  <2>1. CASE effect' = Nothing
    BY <2>1, NoEffect
  <2>2. CASE TelemetryThresholds(thresholds) = Fine /\ RecordError(command) = Fine /\ effect' = row
    <3>1. WellFormed'
      BY <1>2, <1>3, <1>10, <2>2, WellFormedStays
    <3>2. request' = request /\ config' = config /\ request.endpoint = "record"
      BY <1>1, <1>10
    <3>3. /\ effect'.reading = TelemetryReading(command)
          /\ effect'.breached = Breached(TelemetryReading(command), thresholds)
      BY <2>2
    <3>4. RecordedAsSent'
      BY <1>1, <3>1, <3>2, <3>3, ReadingsAreKept DEF RecordedAsSent
    <3>5. VerdictsFollowTheSettings'
      <4> DEFINE reading == TelemetryReading(command)
      <4>1. reading.battery = body.battery.n /\ reading.temperature = body.temperature.n
        BY <1>1, ReadingsAreKept
      <4> HIDE DEF command, reading, thresholds, row
      <4>2. /\ 0 <= Limit(config.minBattery, 1500) /\ Limit(config.minBattery, 1500) <= 10000
            /\ -27315 <= Limit(config.maxTemperature, 6000) /\ Limit(config.maxTemperature, 6000) <= 100000
            /\ ("LOW_BATTERY" \in Breached(reading, thresholds))
                  <=> (reading.battery < Limit(config.minBattery, 1500))
            /\ ("HIGH_TEMPERATURE" \in Breached(reading, thresholds))
                  <=> (reading.temperature > Limit(config.maxTemperature, 6000))
        BY <1>6, <2>2, ThresholdsFollowTheSettings DEF thresholds
      <4>3. effect'.breached = Breached(reading, thresholds)
        BY <3>3 DEF reading
      <4> QED BY <3>2, <4>1, <4>2, <4>3 DEF VerdictsFollowTheSettings, Limit
    <3> QED BY <3>4, <3>5 DEF EffectsTold
  <2> QED BY <1>1, <1>8, <2>1, <2>2
<1> QED BY <1>9, <1>10, <1>11 DEF Served

\* A registration of a device.
LEMMA RegisterDeviceServes ==
    ASSUME Handler("registerDevice"), RegisterDevice
    PROVE  Served
<1> DEFINE device == request.body
<1> DEFINE invalid == RegisterDeviceError(device.id, device.name, GeneratedId)
<1>1. /\ Serving /\ effect = Nothing
      /\ request.endpoint = "registerDevice" /\ device \in Bodies("registerDevice") /\ AcceptsRegisterDevice(device)
  BY DEF Handler, Handling, Serving, RequestTyped, Accepts
<1>2. WellFormed <=> WellFormedDevice(device)
  BY <1>1 DEF WellFormed, WellFormedDevice
<1>3. WellFormedDevice(device) <=> invalid = Fine
  BY <1>1, DevicesAreCarriedOut
<1>4. DeviceId(device.id) # Fine => ~WellFormedDevice(device)
  BY <1>1, DevicesAreCarriedOut
<1>5. /\ DeviceId(device.id) # Fine => DeviceId(device.id) \in ValidationDomainError
      /\ invalid # Fine => invalid \in ValidationDomainError
  BY ValueErrors, RegisterDeviceErrors DEF ValidationDomainError
<1>6. \/ DeviceId(device.id) # Fine /\ Throw(DeviceId(device.id), "body") /\ UNCHANGED effect
      \/ DatabaseFails /\ UNCHANGED effect
      \/ Throw("DeviceAlreadyExistsError", "taken") /\ UNCHANGED effect
      \/ invalid # Fine /\ Throw(invalid, "body") /\ UNCHANGED effect
      \/ invalid = Fine /\ (Succeed(201, Unchanged) \/ DatabaseFails)
  BY DEF RegisterDevice, Store
<1>7. Answered
  <2> HIDE DEF invalid
  <2>1. CASE DeviceId(device.id) # Fine /\ Throw(DeviceId(device.id), "body")
    BY <1>1, <1>2, <1>4, <1>5, <2>1, ThrowTells, RefusalsAreDocumented DEF Causes
  <2>2. CASE DatabaseFails
    BY <1>1, <2>2, FailureTells
  <2>3. CASE Throw("DeviceAlreadyExistsError", "taken")
    BY <1>1, <2>3, ThrowTells, RefusalsAreDocumented DEF Causes, DeviceErrors
  <2>4. CASE invalid # Fine /\ Throw(invalid, "body")
    BY <1>1, <1>2, <1>3, <1>5, <2>4, ThrowTells, RefusalsAreDocumented DEF Causes
  <2>5. CASE invalid = Fine /\ Succeed(201, Unchanged)
    BY <1>1, <1>2, <1>3, <2>5, SuccessTells DEF Unchanged
  <2> QED BY <1>6, <2>1, <2>2, <2>3, <2>4, <2>5
<1>8. UNCHANGED <<config, now, jar, held, request>>
  BY DEF RegisterDevice
<1>9. UNCHANGED effect \/ invalid = Fine
  BY <1>6
<1>10. EffectsTold'
  <2>1. CASE effect' = Nothing
    BY <2>1, NoEffect
  <2>2. CASE invalid = Fine
    <3>1. WellFormed'
      BY <1>2, <1>3, <1>8, <2>2, WellFormedStays
    <3> QED BY <1>1, <1>8, <3>1 DEF EffectsTold, RecordedAsSent, VerdictsFollowTheSettings
  <2> QED BY <1>1, <1>9, <2>1, <2>2
<1> QED BY <1>7, <1>8, <1>10 DEF Served

\* A page of the history: the query is the one that was asked for.
LEMMA GetDeviceHistoryServes ==
    ASSUME Handler("history"), GetDeviceHistory
    PROVE  Served
<1> DEFINE filter == request.body
<1> DEFINE query == GetDeviceHistoryQuery(filter)
<1>1. /\ Serving /\ effect = Nothing
      /\ request.endpoint = "history" /\ filter \in Bodies("history") /\ AcceptsDeviceHistory(filter)
  BY DEF Handler, Handling, Serving, RequestTyped, Accepts
<1>2. WellFormed <=> WellFormedFilter(filter)
  BY <1>1 DEF WellFormed, WellFormedFilter
<1>3. WellFormedFilter(filter) <=> ~IsInverted(query)
  BY <1>1, FiltersAreCarriedOut
<1>4. WellFormedFilter(filter) =>
        /\ query.offset.n = IF filter.offset.kind = "numeral" THEN filter.offset.n ELSE 0
        /\ query.limit.n = IF IsSilent(filter.limit) THEN 2000 ELSE filter.limit.n
  BY <1>1, FiltersAreCarriedOut
<1>5. \/ IsInverted(query) /\ Throw("InvalidHistoryRangeError", "body") /\ UNCHANGED effect
      \/ Throw("DeviceNotFoundError", "device") /\ UNCHANGED effect
      \/ DatabaseFails /\ UNCHANGED effect
      \/ ~IsInverted(query) /\ Succeed(200, Unchanged) /\ effect' = query
  BY DEF GetDeviceHistory
<1> HIDE DEF query
<1>6. Answered
  <2>1. CASE IsInverted(query) /\ Throw("InvalidHistoryRangeError", "body")
    BY <1>1, <1>2, <1>3, <2>1, ThrowTells, RefusalsAreDocumented DEF Causes, BadRequestError, InvalidHistoryRangeError
  <2>2. CASE DatabaseFails
    BY <1>1, <2>2, FailureTells
  <2>3. CASE Throw("DeviceNotFoundError", "device")
    BY <1>1, <2>3, ThrowTells, RefusalsAreDocumented DEF Causes, DeviceNotFoundError
  <2>4. CASE ~IsInverted(query) /\ Succeed(200, Unchanged)
    BY <1>1, <1>2, <1>3, <2>4, SuccessTells DEF Unchanged
  <2> QED BY <1>5, <2>1, <2>2, <2>3, <2>4
<1>7. UNCHANGED <<config, now, jar, held, request>>
  BY DEF GetDeviceHistory
<1>8. EffectsTold'
  <2>1. CASE effect' = Nothing
    BY <2>1, NoEffect
  <2>2. CASE ~IsInverted(query) /\ effect' = query
    <3>1. WellFormed'
      BY <1>2, <1>3, <1>7, <2>2, WellFormedStays
    <3> QED BY <1>1, <1>3, <1>4, <1>7, <2>2, <3>1 DEF EffectsTold, RecordedAsSent, VerdictsFollowTheSettings
  <2> QED BY <1>1, <1>5, <2>1, <2>2
<1> QED BY <1>6, <1>7, <1>8 DEF Served

\* The latest state, and the lists.
LEMMA ReadsServe ==
    ASSUME \E endpoint \in {"state", "devices", "alerts"} : Handler(endpoint),
           GetLatestDeviceState \/ ListOwned
    PROVE  Served
<1>1. Serving /\ effect = Nothing /\ WellFormed
  BY DEF Handler, Handling, WellFormed
<1>2. \/ DatabaseFails
      \/ Throw("DeviceNotFoundError", "device")
      \/ Throw("LatestStateUnavailableError", "silence")
      \/ Succeed(200, Unchanged)
  BY DEF GetLatestDeviceState, ListOwned
<1>3. Answered
  <2>1. CASE DatabaseFails
    BY <1>1, <2>1, FailureTells
  <2>2. CASE Throw("DeviceNotFoundError", "device")
    BY <1>1, <2>2, ThrowTells, RefusalsAreDocumented DEF Causes, DeviceNotFoundError
  <2>3. CASE Throw("LatestStateUnavailableError", "silence")
    BY <1>1, <2>3, ThrowTells, RefusalsAreDocumented DEF Causes, LatestStateUnavailableError
  <2>4. CASE Succeed(200, Unchanged)
    BY <1>1, <2>4, SuccessTells DEF Unchanged
  <2> QED BY <1>2, <2>1, <2>2, <2>3, <2>4
<1>4. UNCHANGED <<config, now, jar, held, request, effect>>
  BY DEF GetLatestDeviceState, ListOwned
<1> QED BY <1>1, <1>3, <1>4, NoEffect DEF Served

\* A sign-up.
LEMMA RegisterUserServes ==
    ASSUME Handler("register"), RegisterUser
    PROVE  Served
<1> DEFINE user == request.body
<1> DEFINE invalid == CreateUserError(user)
<1>1. /\ Serving /\ effect = Nothing
      /\ request.endpoint = "register" /\ user \in Bodies("register") /\ AcceptsRegister(user)
  BY DEF Handler, Handling, Serving, RequestTyped, Accepts
<1>2. WellFormed <=> WellFormedUser(user)
  BY <1>1 DEF WellFormed, WellFormedUser
<1>3. WellFormedUser(user) <=> invalid = Fine
  BY <1>1, UsersAreCarriedOut
<1>4. invalid # Fine => invalid \in ValidationDomainError
  BY CreateUserErrors
<1>5. \/ DatabaseFails /\ UNCHANGED effect
      \/ Throw("UserAlreadyExistsError", "taken") /\ UNCHANGED effect
      \/ invalid # Fine /\ Throw(invalid, "body") /\ UNCHANGED effect
      \/ invalid = Fine /\ Throw("P2002", "taken") /\ UNCHANGED effect
      \/ invalid = Fine /\ (GrantToken(201) \/ DatabaseFails)
  BY DEF RegisterUser, Store
<1> HIDE DEF invalid
<1>6. Answered
  <2>1. CASE DatabaseFails
    BY <1>1, <2>1, FailureTells
  <2>2. CASE Throw("UserAlreadyExistsError", "taken")
    BY <1>1, <2>2, ThrowTells, RefusalsAreDocumented DEF Causes, UserErrors
  <2>3. CASE invalid # Fine /\ Throw(invalid, "body")
    BY <1>1, <1>2, <1>3, <1>4, <2>3, ThrowTells, RefusalsAreDocumented DEF Causes
  <2>4. CASE Throw("P2002", "taken")
    BY <1>1, <2>4, ThrowTells, RefusalsAreDocumented DEF Causes
  <2>5. CASE invalid = Fine /\ GrantToken(201)
    BY <1>1, <1>2, <1>3, <2>5, GrantTells
  <2> QED BY <1>5, <2>1, <2>2, <2>3, <2>4, <2>5
<1>7. UNCHANGED <<config, now, jar, held, request>>
  BY DEF RegisterUser
<1>8. EffectsTold'
  <2>1. CASE effect' = Nothing
    BY <2>1, NoEffect
  <2>2. CASE invalid = Fine
    <3>1. WellFormed'
      BY <1>2, <1>3, <1>7, <2>2, WellFormedStays
    <3> QED BY <1>1, <1>7, <3>1 DEF EffectsTold, RecordedAsSent, VerdictsFollowTheSettings
  <2> QED BY <1>1, <1>5, <2>1, <2>2
<1> QED BY <1>6, <1>7, <1>8 DEF Served

\* A login.
LEMMA LoginServes ==
    ASSUME Handler("login"), Login
    PROVE  Served
<1> DEFINE body == request.body
<1>1. /\ Serving /\ effect = Nothing
      /\ request.endpoint = "login" /\ body \in Bodies("login") /\ AcceptsLogin(body)
  BY DEF Handler, Handling, Serving, RequestTyped, Accepts
<1>2. WellFormed <=> Email(body.email) = Fine
  BY <1>1, LoginsAreCarriedOut DEF WellFormed, WellFormedLogin
<1>3. Email(body.email) # Fine => Email(body.email) \in ValidationDomainError
  BY ValueErrors DEF ValidationDomainError
<1>4. \/ Email(body.email) # Fine /\ Throw(Email(body.email), "body")
      \/ DatabaseFails
      \/ Throw("InvalidCredentialError", "credentials")
      \/ Throw("UserIsInactiveError", "credentials")
      \/ Email(body.email) = Fine /\ GrantToken(200)
  BY DEF Login
<1>5. Answered
  <2>1. CASE Email(body.email) # Fine /\ Throw(Email(body.email), "body")
    BY <1>1, <1>2, <1>3, <2>1, ThrowTells, RefusalsAreDocumented DEF Causes
  <2>2. CASE DatabaseFails
    BY <1>1, <2>2, FailureTells
  <2>3. CASE Throw("InvalidCredentialError", "credentials")
    BY <1>1, <2>3, ThrowTells, RefusalsAreDocumented DEF Causes, AuthenticationErrors
  <2>4. CASE Throw("UserIsInactiveError", "credentials")
    BY <1>1, <2>4, ThrowTells, RefusalsAreDocumented DEF Causes, AuthenticationErrors
  <2>5. CASE Email(body.email) = Fine /\ GrantToken(200)
    BY <1>1, <1>2, <2>5, GrantTells
  <2> QED BY <1>4, <2>1, <2>2, <2>3, <2>4, <2>5
<1>6. UNCHANGED <<config, now, jar, held, request, effect>>
  BY DEF Login
<1> QED BY <1>1, <1>5, <1>6, NoEffect DEF Served

\* A logout.
LEMMA LogoutServes ==
    ASSUME Handler("logout"), Logout
    PROVE  Served
<1>1. Serving /\ effect = Nothing /\ WellFormed
  BY DEF Handler, Handling, WellFormed
<1>2. Answered
  BY <1>1, SuccessTells DEF Logout, Cleared
<1>3. UNCHANGED <<config, now, jar, held, request, effect>>
  BY DEF Logout
<1> QED BY <1>1, <1>2, <1>3, NoEffect DEF Served

------------------------------------------------------------------------------
(* Every step keeps the invariant.                                         *)

\* What of the type invariant does not depend on the stage of the request.
StateTyped ==
    /\ config \in Configurations
    /\ now \in 0..LastMinute
    /\ jar = NoToken \/ (jar.token \in Tokens /\ jar.received \in 0..LastMinute /\ jar.expires \in Int)
    /\ held \in Tokens \cup {NoToken}
    /\ cause \in Causes

\* The type invariant, stage by stage of a request.
LEMMA TypesByStage ==
    ApiTypeOK <=>
        /\ StateTyped
        /\ pc \in {"idle", "guard", "pipe", "handler", "receive"}
        /\ IF pc = "idle" THEN request = Nothing ELSE RequestTyped
        /\ IF pc # "receive" THEN effect = Nothing /\ answer = Nothing ELSE AnswerTyped
BY DEF ApiTypeOK, StateTyped, RequestTyped, AnswerTyped

\* Before the answer, types and the acceptance of the DTO are all there is to show.
LEMMA QuietStage ==
    ASSUME StateTyped', pc' \in {"idle", "guard", "pipe", "handler"}, effect' = Nothing, answer' = Nothing,
           pc' = "idle" => request' = Nothing,
           pc' # "idle" => RequestTyped',
           pc' = "handler" => Accepts'
    PROVE  ServedInv'
<1>1. ApiTypeOK'
  BY DEF ApiTypeOK, StateTyped, RequestTyped
<1>2. AnswersTellTheCause'
  BY DEF AnswersTellTheCause
<1> QED BY <1>1, <1>2, NoEffect DEF ServedInv

\* An answer that tells its cause keeps the invariant.
LEMMA AnsweredKeepsInv ==
    ASSUME ServedInv, pc \in {"guard", "pipe", "handler"}, Served
    PROVE  ServedInv'
<1>1. StateTyped /\ RequestTyped
  BY TypesByStage DEF ServedInv
<1>2. UNCHANGED <<config, now, jar, held, request>> /\ pc' = "receive" /\ cause' \in Causes
  BY DEF Served, Answered
<1>3. StateTyped' /\ RequestTyped'
  BY <1>1, <1>2 DEF StateTyped, RequestTyped
<1>4. ApiTypeOK'
  BY <1>2, <1>3 DEF ApiTypeOK, StateTyped, RequestTyped, AnswerTyped, Served, Answered
<1>5. AnswersTellTheCause' /\ EffectsTold'
  BY DEF AnswersTellTheCause, Served, Answered, Told
<1> QED BY <1>2, <1>4, <1>5 DEF ServedInv

\* The steps of a request.
LEMMA SendKeepsServed == ServedInv /\ Send => ServedInv'
<1> SUFFICES ASSUME ServedInv, Send PROVE ServedInv'
  OBVIOUS
<1>1. StateTyped /\ effect = Nothing /\ answer = Nothing
  BY TypesByStage DEF ServedInv, Send
<1>2. UNCHANGED <<config, now, jar, held, effect, answer, cause>> /\ pc' \in {"guard", "pipe"}
  BY DEF Send, Proceed
<1>3. StateTyped'
  BY <1>1, <1>2 DEF StateTyped
<1>4. PICK r \in Requests, bearer \in {NoToken, held} :
        request' = [endpoint |-> r.endpoint, body |-> r.body, languages |-> r.languages, bearer |-> bearer,
                    cookie |-> IF jar # NoToken /\ now < jar.expires THEN jar.token ELSE NoToken]
  BY DEF Send
<1>5. /\ request'.endpoint = r.endpoint /\ request'.body = r.body /\ request'.languages = r.languages
      /\ request'.bearer = bearer
      /\ request'.cookie = IF jar # NoToken /\ now < jar.expires THEN jar.token ELSE NoToken
  BY <1>4
<1>6. request'.bearer \in Tokens \cup {NoToken} /\ request'.cookie \in Tokens \cup {NoToken}
  BY <1>1, <1>5 DEF StateTyped
<1>7. RequestTyped'
  BY <1>5, <1>6, RequestsAssumption DEF RequestTyped
<1> QED BY <1>1, <1>2, <1>3, <1>7, QuietStage

\* A request in progress may be answered at once, or go on.
LEMMA StagesServe ==
    ASSUME ServedInv, Guard \/ Pipe
    PROVE  ServedInv'
<1>1. /\ StateTyped /\ RequestTyped /\ effect = Nothing /\ answer = Nothing
      /\ pc \in {"guard", "pipe"}
  BY TypesByStage DEF ServedInv, Guard, Pipe
<1>2. UNCHANGED <<config, now, jar, held, request, effect>>
  BY DEF Guard, Pipe
<1>3. Serving
  BY <1>1, <1>2 DEF Serving, StateTyped
<1>4. /\ UNCHANGED Accepts
      /\ ~Accepts => ~WellFormed
  <2>1. UNCHANGED Accepts
    BY <1>2 DEF Accepts
  <2>2. ASSUME WellFormed PROVE Accepts
    <3>1. /\ request.endpoint = "record" => WellFormedReading(request.body) /\ request.body \in Bodies("record")
          /\ request.endpoint = "registerDevice" => WellFormedDevice(request.body) /\ request.body \in Bodies("registerDevice")
          /\ request.endpoint = "history" => WellFormedFilter(request.body) /\ request.body \in Bodies("history")
          /\ request.endpoint = "register" => WellFormedUser(request.body) /\ request.body \in Bodies("register")
          /\ request.endpoint = "login" => WellFormedLogin(request.body) /\ request.body \in Bodies("login")
          /\ request.endpoint \in {"record", "registerDevice", "history", "register", "login", "logout", "state",
                                   "devices", "alerts"}
      BY <1>1, <2>2 DEF WellFormed, RequestTyped, Endpoints, Protected
    <3>2. /\ request.endpoint = "record" => AcceptsRecordTelemetry(request.body)
          /\ request.endpoint = "registerDevice" => AcceptsRegisterDevice(request.body)
          /\ request.endpoint = "history" => AcceptsDeviceHistory(request.body)
          /\ request.endpoint = "register" => AcceptsRegister(request.body)
          /\ request.endpoint = "login" => AcceptsLogin(request.body)
      BY <3>1, ReadingsAreCarriedOut, DevicesAreCarriedOut, FiltersAreCarriedOut, UsersAreCarriedOut, LoginsAreCarriedOut
    <3> QED BY <3>1, <3>2 DEF Accepts
  <2> QED BY <2>1, <2>2
<1>5. \/ Throw("no_token", "token") \/ Throw("invalid_token", "token")
      \/ ~Accepts /\ Throw("BadRequestException", "body")
      \/ Proceed("pipe")
      \/ Accepts /\ Proceed("handler")
  BY DEF Guard, Pipe
<1>6. CASE Throw("no_token", "token") \/ Throw("invalid_token", "token")
  <2>1. Answered
    BY <1>3, <1>6, ThrowTells, RefusalsAreDocumented DEF Causes, TokenErrors
  <2> QED BY <1>1, <1>2, <2>1, NoEffect, AnsweredKeepsInv DEF Served
<1>7. CASE ~Accepts /\ Throw("BadRequestException", "body")
  <2>1. Answered
    BY <1>3, <1>4, <1>7, ThrowTells, RefusalsAreDocumented DEF Causes, HttpException
  <2> QED BY <1>1, <1>2, <2>1, NoEffect, AnsweredKeepsInv DEF Served
<1>8. CASE Proceed("pipe") \/ (Accepts /\ Proceed("handler"))
  <2>1. pc' \in {"pipe", "handler"} /\ (pc' = "handler" => Accepts') /\ UNCHANGED <<answer, cause>>
    BY <1>4, <1>8 DEF Proceed
  <2>2. StateTyped' /\ RequestTyped'
    BY <1>1, <1>2, <2>1 DEF StateTyped, RequestTyped
  <2> QED BY <1>1, <1>2, <2>1, <2>2, QuietStage
<1> QED BY <1>5, <1>6, <1>7, <1>8

LEMMA ReceiveKeepsServed == ServedInv /\ (Receive \/ LoseAnswer) => ServedInv'
<1> SUFFICES ASSUME ServedInv, Receive \/ LoseAnswer PROVE ServedInv'
  OBVIOUS
<1>1. StateTyped /\ AnswerTyped
  BY TypesByStage DEF ServedInv, Receive, LoseAnswer
<1>2. UNCHANGED <<config, now>> /\ Done
  BY DEF Receive, LoseAnswer
<1>3. StateTyped'
  <2>1. CASE UNCHANGED <<jar, held>>
    BY <1>1, <1>2, <2>1 DEF StateTyped, Done, Causes
  <2>2. CASE jar' = NoToken /\ UNCHANGED held
    BY <1>1, <1>2, <2>2 DEF StateTyped, Done, Causes
  <2>3. CASE /\ answer.cookie.kind = "set"
             /\ jar' = [token |-> answer.cookie.token, received |-> now, expires |-> now + answer.cookie.maxAge]
             /\ held' \in {held, answer.cookie.token}
    <3>1. answer.cookie.token \in Tokens /\ now + answer.cookie.maxAge \in Int
      BY <1>1, <2>3 DEF StateTyped, AnswerTyped
    <3>2. jar'.token = answer.cookie.token /\ jar'.received = now /\ jar'.expires = now + answer.cookie.maxAge
      BY <2>3
    <3> QED BY <1>1, <1>2, <2>3, <3>1, <3>2 DEF StateTyped, Done, Causes
  <2> QED BY <2>1, <2>2, <2>3 DEF Receive, LoseAnswer
<1> QED BY <1>2, <1>3, QuietStage DEF Done

LEMMA TickKeepsServed == ServedInv /\ Tick => ServedInv'
<1> SUFFICES ASSUME ServedInv, Tick PROVE ServedInv'
  OBVIOUS
<1>1. StateTyped
  BY TypesByStage DEF ServedInv
<1>2. now' \in 0..LastMinute /\ UNCHANGED <<config, jar, held, pc, request, effect, answer, cause>>
  BY <1>1, ClockAssumption DEF Tick, StateTyped
<1>3. UNCHANGED <<WellFormed, Accepts>>
  BY <1>2, WellFormedStays DEF Accepts
<1>4. StateTyped'
  BY <1>1, <1>2 DEF StateTyped
<1>5. ApiTypeOK'
  BY <1>2, <1>4 DEF ServedInv, ApiTypeOK, StateTyped
<1>6. EffectsTold'
  BY <1>2, <1>3 DEF ServedInv, EffectsTold, RecordedAsSent, VerdictsFollowTheSettings
<1>7. AnswersTellTheCause'
  BY <1>2, <1>3
  DEF ServedInv, AnswersTellTheCause, StatusTellsTheCause, NothingInternalLeaks, SpeaksTheLanguage
<1> QED BY <1>2, <1>3, <1>5, <1>6, <1>7 DEF ServedInv

\* Every handler serves.
LEMMA HandlersServe ==
    ASSUME ServedInv,
           \/ RecordTelemetry \/ RegisterDevice \/ GetDeviceHistory \/ GetLatestDeviceState \/ ListOwned
           \/ RegisterUser \/ Login \/ Logout
    PROVE  ServedInv'
<1>1. /\ pc = "handler"
      /\ UNCHANGED <<config, now, jar, held, request>>
  BY DEF RecordTelemetry, RegisterDevice, GetDeviceHistory, GetLatestDeviceState, ListOwned,
         RegisterUser, Login, Logout, Handling
<1>2. StateTyped /\ RequestTyped /\ effect = Nothing /\ Accepts
  BY <1>1, TypesByStage DEF ServedInv
<1>3. \A endpoint : Handling(endpoint) => Handler(endpoint)
  BY <1>1, <1>2 DEF Handler, Serving, StateTyped
<1>4. Served
  <2>1. CASE RecordTelemetry  BY <1>3, <2>1, RecordTelemetryServes DEF RecordTelemetry
  <2>2. CASE RegisterDevice  BY <1>3, <2>2, RegisterDeviceServes DEF RegisterDevice
  <2>3. CASE GetDeviceHistory  BY <1>3, <2>3, GetDeviceHistoryServes DEF GetDeviceHistory
  <2>4. CASE GetLatestDeviceState \/ ListOwned
    <3>1. \E endpoint \in {"state", "devices", "alerts"} : Handler(endpoint)
      BY <1>3, <2>4 DEF GetLatestDeviceState, ListOwned
    <3> QED BY <2>4, <3>1, ReadsServe
  <2>5. CASE RegisterUser  BY <1>3, <2>5, RegisterUserServes DEF RegisterUser
  <2>6. CASE Login  BY <1>3, <2>6, LoginServes DEF Login
  <2>7. CASE Logout  BY <1>3, <2>7, LogoutServes DEF Logout
  <2> QED BY <2>1, <2>2, <2>3, <2>4, <2>5, <2>6, <2>7
<1> QED BY <1>1, <1>4, AnsweredKeepsInv

\* The invariant holds in every reachable state.
THEOREM ServedInvariance == Spec => []ServedInv
<1>1. Init => ServedInv
  BY ClockAssumption
  DEF Init, ServedInv, ApiTypeOK, Causes, EffectsTold, RecordedAsSent, VerdictsFollowTheSettings, AnswersTellTheCause
<1>2. ServedInv /\ [Next]_vars => ServedInv'
  <2> SUFFICES ASSUME ServedInv, [Next]_vars PROVE ServedInv'
    OBVIOUS
  <2>1. CASE Send  BY <2>1, SendKeepsServed
  <2>2. CASE Guard \/ Pipe  BY <2>2, StagesServe
  <2>3. CASE Receive \/ LoseAnswer  BY <2>3, ReceiveKeepsServed
  <2>4. CASE Tick  BY <2>4, TickKeepsServed
  <2>5. CASE \/ RecordTelemetry \/ RegisterDevice \/ GetDeviceHistory \/ GetLatestDeviceState \/ ListOwned
             \/ RegisterUser \/ Login \/ Logout
    BY <2>5, HandlersServe
  <2>6. CASE UNCHANGED vars
    <3>1. UNCHANGED <<config, now, jar, held, pc, request, effect, answer, cause>>
      BY <2>6 DEF vars
    <3>2. UNCHANGED <<WellFormed, Accepts>>
      BY <3>1, WellFormedStays DEF Accepts
    <3>3. ApiTypeOK'
      BY <3>1 DEF ServedInv, ApiTypeOK
    <3>4. EffectsTold'
      BY <3>1, <3>2 DEF ServedInv, EffectsTold, RecordedAsSent, VerdictsFollowTheSettings
    <3>5. AnswersTellTheCause'
      BY <3>1, <3>2
      DEF ServedInv, AnswersTellTheCause, StatusTellsTheCause, NothingInternalLeaks, SpeaksTheLanguage
    <3> QED BY <3>1, <3>2, <3>3, <3>4, <3>5 DEF ServedInv
  <2> QED BY <2>1, <2>2, <2>3, <2>4, <2>5, <2>6 DEF Next
<1> QED BY <1>1, <1>2, PTL DEF Spec

\* Type correctness.
THEOREM ApiIsTyped == Spec => []ApiTypeOK
<1>1. ServedInv => ApiTypeOK
  BY DEF ServedInv
<1> QED BY <1>1, ServedInvariance, PTL

\* What reaches a table or a query is what the client meant.
THEOREM EffectsAreAsSent == Spec => []RecordedAsSent
<1>1. ServedInv => RecordedAsSent
  BY DEF ServedInv, EffectsTold
<1> QED BY <1>1, ServedInvariance, PTL

\* The operator's settings, or the defaults where there is none, judge a reading.
THEOREM SettingsJudge == Spec => []VerdictsFollowTheSettings
<1>1. ServedInv => VerdictsFollowTheSettings
  BY DEF ServedInv, EffectsTold
<1> QED BY <1>1, ServedInvariance, PTL

\* An answer tells truly whose fault it was, in the language of the client.
THEOREM AnswersAreTrue == Spec => []AnswersTellTheCause
<1>1. ServedInv => AnswersTellTheCause
  BY DEF ServedInv
<1> QED BY <1>1, ServedInvariance, PTL
=============================================================================
