------------------------------ MODULE ConnParams ----------------------------
(***************************************************************************)
(* A connection URI and the credentials given beside it                    *)
(* (src/src/connection/params.rs).  A text is a sequence of characters and *)
(* words; "%@" stands for the percent-encoded "@", and likewise for the    *)
(* other characters that have a meaning in the URI.                        *)
(***************************************************************************)
EXTENDS Integers, SequencesExt, FiniteSetsExt

CONSTANT MaxTimeout   \* 300: longest connection timeout in seconds

Encoded == [c \in {"%:", "%@", "%/", "%?"} |->
              CASE c = "%:" -> ":" [] c = "%@" -> "@" [] c = "%/" -> "/" [] c = "%?" -> "?"]

Decode(text) == [i \in DOMAIN text |-> IF text[i] \in DOMAIN Encoded THEN Encoded[text[i]] ELSE text[i]]

At(text, c) == {i \in DOMAIN text : text[i] = c}

Cut(text, i) == <<SubSeq(text, 1, i - 1), SubSeq(text, i + 1, Len(text))>>

\* split_once and rsplit_once; a text without the character comes back alone.
SplitOnce(text, c) == IF At(text, c) = {} THEN <<text>> ELSE Cut(text, Min(At(text, c)))
SplitLast(text, c) == IF At(text, c) = {} THEN <<text>> ELSE Cut(text, Max(At(text, c)))

Pieces(text, c) ==
  FoldLeft(LAMBDA acc, x : IF x = c THEN Append(acc, <<>>) ELSE Append(Front(acc), Append(Last(acc), x)), <<<<>>>>, text)

Absent == <<"absent">>   \* an Option that is None

FirstOf(options) ==
  LET given == SelectSeq(options, LAMBDA o : o # Absent) IN IF given = <<>> THEN Absent ELSE given[1]

-----------------------------------------------------------------------------
(* Parts of the URI                                                        *)

\* parse_query_params: the pairs, decoded; the last of several with one key counts.
QueryPairs(query) == SelectSeq(Pieces(query, "&"), LAMBDA pair : pair # <<>>)

QueryOk(query) == \A i \in DOMAIN QueryPairs(query) : Len(SplitOnce(QueryPairs(query)[i], "=")) = 2

ParseQueryParams(query) ==
  LET split == [i \in DOMAIN QueryPairs(query) |-> SplitOnce(QueryPairs(query)[i], "=")]
      keys  == {Decode(split[i][1]) : i \in DOMAIN split} IN
  [k \in keys |-> Decode(split[Max({i \in DOMAIN split : Decode(split[i][1]) = k})][2])]

\* params.remove.
Take(params, key) == IF <<key>> \in DOMAIN params THEN params[<<key>>] ELSE Absent

\* parse_auth: the first colon ends the user name.
ParseAuth(auth) ==
  LET parts == SplitOnce(auth, ":") IN <<Decode(parts[1]), IF Len(parts) = 2 THEN Decode(parts[2]) ELSE Absent>>

DefaultPort == "8563"
Ports       == {DefaultPort, "1", "0"}

\* parse_host_port: the last colon starts the port; the one of an address in
\* brackets is behind the bracket.
ParseHostPort(text) ==
  LET closing == At(text, "]")
      end     == Min(closing)
      rest    == SubSeq(text, end + 1, Len(text))
      parts   == SplitLast(text, ":") IN
  IF text # <<>> /\ text[1] = "[" /\ closing # {}
    THEN <<SubSeq(text, 2, end - 1), IF rest # <<>> /\ rest[1] = ":" THEN Tail(rest) ELSE <<DefaultPort>>>>
    ELSE <<parts[1], IF Len(parts) = 2 THEN parts[2] ELSE <<DefaultPort>>>>

CredentialKeys == {"user", "username", "password", "pass"}

\* apply_query_params: the setting a key stands for, "" for a key it does not know.
Setting(key) ==
  CASE key \in {"timeout", "connection_timeout"} -> "connection_timeout"
    [] key = "query_timeout"                     -> "query_timeout"
    [] key = "idle_timeout"                      -> "ignored"
    [] key \in {"tls", "use_tls", "ssl"}         -> "use_tls"
    [] key \in {"validate_certificate", "verify_certificate", "validateservercertificate"} -> "validate"
    [] key \in {"client_name", "client_version", "transport"} -> key
    [] key \in {"certificate_fingerprint", "certificatefingerprint"} -> "fingerprint"
    [] OTHER                                     -> ""

\* parse_timeout, parse_bool and the list of transports.
Seconds == [t \in {"0", "30", "300", "301"} |-> CASE t = "0" -> 0 [] t = "30" -> 30 [] t = "300" -> 300 [] t = "301" -> 301]
Booleans == [t \in {"true", "1", "yes", "on", "false", "0", "no", "off"} |-> t \in {"true", "1", "yes", "on"}]

ValueOk(setting, value) ==
  CASE setting \in {"connection_timeout", "query_timeout", "ignored"} -> Len(value) = 1 /\ value[1] \in DOMAIN Seconds
    [] setting \in {"use_tls", "validate"}        -> Len(value) = 1 /\ value[1] \in DOMAIN Booleans
    [] setting = "transport"                      -> value \in {<<"native">>, <<"websocket">>}
    [] OTHER                                      -> setting # ""

\* Settings with an unset option's default; two keys of one setting are applied in
\* the order of a hash map, so either may win.
SettingsOf(params) ==
  LET given(s) == {params[k] : k \in {x \in DOMAIN params : Setting(x[1]) = s}} IN
  [s \in {"connection_timeout", "query_timeout", "use_tls", "validate", "fingerprint", "client_name", "client_version", "transport"} |->
     IF given(s) # {} THEN given(s)
     ELSE CASE s = "connection_timeout" -> {<<"30">>} [] s \in {"use_tls", "validate"} -> {<<"true">>}
            [] s = "client_name" -> {<<"driver">>} [] s = "client_version" -> {<<"version">>} [] OTHER -> {Absent}]

Failed(why) == [error |-> why, host |-> <<>>, port |-> <<>>, username |-> <<>>, password |-> <<>>, schema |-> <<>>, settings |-> <<>>]

-----------------------------------------------------------------------------
\* Mutant: the first "@" ends the credentials.
UserInfo_FirstAt(main) == SplitOnce(main, "@")

\* The last "@" ends the credentials, so that a password may hold one.
UserInfo(main) == SplitLast(main, "@")

\* ConnectionBuilder::build.
BuildParams(host, port, username, password, schema, params) ==
  CASE host = <<>>      -> Failed("host")
    [] username = <<>>  -> Failed("username")
    [] port = <<"0">>   -> Failed("port")
    [] \E v \in SettingsOf(params)["connection_timeout"] : Seconds[v[1]] > MaxTimeout -> Failed("timeout")
    [] OTHER            -> [error |-> "none", host |-> host, port |-> port, username |-> username,
                            password |-> IF password = Absent THEN <<>> ELSE password,
                            schema |-> schema, settings |-> SettingsOf(params)]

\* The host and its port, and the settings of the query.
CheckedParams(hostAt, name, secret, schema, settings) ==
  CASE name = Absent                                  -> Failed("username")
    [] name # Absent /\ (Len(hostAt[2]) # 1 \/ hostAt[2][1] \notin Ports) -> Failed("port")
    [] OTHER -> IF \E k \in DOMAIN settings : Len(k) # 1 \/ ~ValueOk(Setting(k[1]), settings[k]) THEN Failed("setting")
                ELSE BuildParams(hostAt[1], hostAt[2], name, secret, schema, settings)

\* What is given beside the URI wins, as it is; then the userinfo, then the query.
WithCredentials(username, password, auth, target, params) ==
  CheckedParams(ParseHostPort(target[1]),
    FirstOf(<<username, auth[1], Take(params, "user"), Take(params, "username")>>),
    FirstOf(<<password, auth[2], Take(params, "password"), Take(params, "pass")>>),
    IF Len(target) = 2 /\ target[2] # <<>> THEN target[2] ELSE Absent,
    [k \in {x \in DOMAIN params : Len(x) # 1 \/ x[1] \notin CredentialKeys} |-> params[k]])

\* parse_with_credentials: the query behind the first "?", the userinfo before the last
\* "@", the schema behind the first "/".
ParseWithCredentials(uri, username, password) ==
  LET halves == SplitOnce(uri, "?")
      query  == IF Len(halves) = 2 THEN halves[2] ELSE <<>>
      split  == UserInfo(halves[1]) IN
  IF ~QueryOk(query) THEN Failed("query")
  ELSE WithCredentials(username, password, IF Len(split) = 2 THEN ParseAuth(split[1]) ELSE <<Absent, Absent>>,
                       SplitOnce(Last(split), "/"), ParseQueryParams(query))
=============================================================================
