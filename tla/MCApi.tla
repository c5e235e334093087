-------------------------------- MODULE MCApi --------------------------------
EXTENDS Api

Text(kind, n) == Value(kind, n)

\* A sound reading, and the readings that differ from it in one field or two.
Sound ==
    [id |-> Text("word", 8), battery |-> Number(8000), temperature |-> Number(2150),
     lat |-> Absent, lng |-> Absent, status |-> "absent", timestamp |-> Text("date", 0), unknownField |-> FALSE]

Measurements ==
    {Absent, Null, Value("bool", 100), Value("infinite", 0), Text("blank", 0), Text("word", 3),
     Text("numeral", 1400), Number(-1), Number(0), Number(1499), Number(1500), Number(6000), Number(6001),
     Number(10000), Number(10001), Number(-27316), Number(-27315), Number(100000), Number(100001)}
Coordinates == {Absent, Null, Value("bool", 100), Text("blank", 0), Text("numeral", 9000), Number(9001), Number(-18001)}

Readings ==
    {[Sound EXCEPT !.battery = v] : v \in Measurements}
        \cup {[Sound EXCEPT !.temperature = v] : v \in Measurements}
        \cup {[Sound EXCEPT !.lat = v, !.lng = w] : v, w \in Coordinates}
        \cup {[Sound EXCEPT !.status = s] : s \in {"OK", "blank", "BROKEN"}}
        \cup {[Sound EXCEPT !.timestamp = v] :
                  v \in {Absent, Null, Value("bool", -999), Number(-5), Text("word", 5), Text("date", 300), Text("date", 301)}}
        \cup {[Sound EXCEPT !.id = v] : v \in {Text("word", 2), Text("word", 101), Text("phrase", 8), Text("blank", 3),
                                           Text("numeral", 5), Text("date", 10)}}
        \cup {[Sound EXCEPT !.unknownField = TRUE],
              [Sound EXCEPT !.battery = Number(0), !.temperature = Number(9999)],
              [Sound EXCEPT !.battery = Number(-1), !.status = "BROKEN"]}

Fleet ==
    {[id |-> v, name |-> w, unknownField |-> u] :
        v \in {Text("word", 8), Text("word", 2), Text("phrase", 8)},
        w \in {Null, Text("blank", 3), Text("word", 1), Text("phrase", 100), Text("phrase", 101)}, u \in BOOLEAN}

Filters ==
    {[from |-> f, to |-> t, offset |-> Absent, limit |-> Absent, unknownField |-> FALSE] :
        f, t \in {Absent, Text("blank", 0), Text("date", -60), Text("date", 0)}}
        \cup {[from |-> Absent, to |-> Absent, offset |-> Absent, limit |-> Absent, unknownField |-> TRUE]}
        \cup {[from |-> Absent, to |-> Absent, offset |-> o, limit |-> l, unknownField |-> FALSE] :
              o \in {Absent, Text("blank", 2), Text("numeral", -100), Text("numeral", 300)},
              l \in {Absent, Text("blank", 0), Text("word", 3), Text("numeral", 0), Text("numeral", 100),
                     Text("numeral", 150), Text("numeral", 10000), Text("numeral", 10100)}}

Users ==
    {[email |-> e, password |-> p, firstName |-> f, lastName |-> Text("word", 4), unknownField |-> FALSE] :
        e \in {Text("email", 9), Text("word", 9)}, p \in {Text("word", 4), Text("word", 5)},
        f \in {Null, Text("blank", 0), Text("blank", 2), Text("word", 1), Text("word", 51), Text("numeral", 2)}}
        \cup {[email |-> Text("email", 9), password |-> Text("word", 5), firstName |-> Text("word", 4),
               lastName |-> l, unknownField |-> FALSE] : l \in {Text("word", 4), Text("word", 1)}}

Passes == {[email |-> e, password |-> p, unknownField |-> FALSE] :
               e \in {Text("email", 9), Text("word", 9)}, p \in {Null, Text("blank", 0), Text("word", 5)}}

Ask(endpoint, bodies, languages) ==
    {[endpoint |-> endpoint, body |-> body, languages |-> l] : body \in bodies, l \in languages}

Plain == {<<>>}
MCRequests ==
    Ask("record", Readings, Plain) \cup Ask("registerDevice", Fleet, Plain) \cup Ask("history", Filters, Plain)
        \cup Ask("register", Users, Plain) \cup Ask("login", Passes, Plain) \cup UNION {Ask(endpoint, {Nothing}, Plain) : endpoint \in {"logout", "state", "devices", "alerts"}}
        \cup Ask("record", {Sound, [Sound EXCEPT !.battery = Number(10001)]}, {<<"ar">>, <<"fr", "ar", "en">>, <<"fr">>})
        \cup Ask("login", {[email |-> Text("email", 9), password |-> Text("word", 5), unknownField |-> FALSE]}, {<<"ar">>})

Setting(kind, n) == [kind |-> kind, n |-> n]
Day == Setting("withUnit", 1440)

MCConfigurations ==
    {[jwt |-> Day, minBattery |-> b, maxTemperature |-> t] :
        b \in {Absent, Text("blank", 0), Text("word", 3), Text("numeral", 1499), Text("numeral", 10001)},
        t \in {Absent, Text("numeral", 6001)}}
        \cup {[jwt |-> Day, minBattery |-> Absent, maxTemperature |-> Text("word", 3)]}
        \cup {[jwt |-> j, minBattery |-> Absent, maxTemperature |-> Absent] :
              j \in {Setting("milliseconds", 30), Setting("withUnit", 60), Setting("inWords", 30), Setting("inWords", 120),
                     Setting("spaces", 0), Setting("unset", 0), Setting("unreadable", 0)}}
==============================================================================
