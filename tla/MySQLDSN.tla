------------------------------- MODULE MySQLDSN -------------------------------
(***************************************************************************)
(* The MySQL driver's data source names (dsn.go): how a configuration is   *)
(* written as a text and read back, and how it is completed.               *)
(*                                                                         *)
(* A text is a sequence of characters and words; the characters that mean  *)
(* something are one each.  An option's value is a text; those of a fixed  *)
(* syntax (numbers, durations, locations) are one word, "bad" for one that *)
(* the library refuses.                                                    *)
(***************************************************************************)
EXTENDS Integers, Sequences, SequencesExt

CONSTANTS
    TLSConfigs,       \* names of registered TLS configurations
    ServerPubKeys,    \* names of registered keys
    UnsafeCollations  \* unsafeCollations

Option(name, kind, default) == [name |-> name, kind |-> kind, default |-> default]

No == <<"false">>

(* The options in the order of FormatDSN, with the defaults of NewConfig.  *)
Options ==
    <<Option("allowAllFiles", "bool", No), Option("allowCleartextPasswords", "bool", No),
      Option("allowNativePasswords", "bool", <<"true">>), Option("allowOldPasswords", "bool", No),
      Option("clientFoundRows", "bool", No), Option("collation", "raw", <<"utf8mb4_general_ci">>),
      Option("columnsWithAlias", "bool", No), Option("interpolateParams", "bool", No),
      Option("loc", "escaped", <<"UTC">>), Option("multiStatements", "bool", No), Option("parseTime", "bool", No),
      Option("readTimeout", "duration", <<"0s">>), Option("rejectReadOnly", "bool", No),
      Option("serverPubKey", "escaped", <<>>), Option("timeout", "duration", <<"0s">>), Option("tls", "tls", <<>>),
      Option("writeTimeout", "duration", <<"0s">>), Option("maxAllowedPacket", "number", <<"4194304">>)>>

Names == {Options[i].name : i \in DOMAIN Options}

OptionOf(name) == Options[CHOOSE i \in DOMAIN Options : Options[i].name = name]

NewConfig ==
    [user |-> <<>>, passwd |-> <<>>, net |-> <<>>, addr |-> <<>>, db |-> <<>>,
     options |-> [n \in Names |-> OptionOf(n).default], params |-> <<>>, tls |-> "none", serverName |-> <<>>]

(* The first and the last place of a character, after and before the text  *)
(* if it has none.                                                         *)
First(s, c, from, to) ==
    IF \E i \in from..to : s[i] = c THEN CHOOSE i \in from..to : s[i] = c /\ \A j \in from..i - 1 : s[j] # c ELSE to + 1

LastAt(s, c, to) ==
    IF \E i \in 1..to : s[i] = c THEN CHOOSE i \in 1..to : s[i] = c /\ \A j \in i + 1..to : s[j] # c ELSE 0

(* url.QueryEscape and QueryUnescape. *)
Percent == ("/" :> "%2F") @@ ("?" :> "%3F") @@ ("&" :> "%26") @@ ("=" :> "%3D") @@ ("@" :> "%40") @@ (":" :> "%3A")
           @@ ("(" :> "%28") @@ (")" :> "%29") @@ ("%" :> "%25")

QueryEscape(v) == [i \in DOMAIN v |-> IF v[i] \in DOMAIN Percent THEN Percent[v[i]] ELSE v[i]]

Plain(c) == IF \E d \in DOMAIN Percent : Percent[d] = c THEN CHOOSE d \in DOMAIN Percent : Percent[d] = c ELSE c

QueryUnescape(v) ==
    IF "%" \in ToSet(v) THEN [ok |-> FALSE, v |-> <<>>] ELSE [ok |-> TRUE, v |-> [i \in DOMAIN v |-> Plain(v[i])]]

-----------------------------------------------------------------------------
(* FormatDSN *)

RawTLSBug(o, v) == <<o.name, "=">> \o v

(* A parameter, with its value escaped where the code does so. *)
Parameter(o, v) == <<o.name, "=">> \o IF o.kind \in {"escaped", "tls"} THEN QueryEscape(v) ELSE v

(* time.ParseDuration and strconv.Atoi know these. *)
Negative == <<"-1s">>

Durations == {<<"0s">>, <<"1s">>, Negative}

Numbers == {<<"1">>, <<"4194304">>}

(* A value that is empty is not written, nor is a negative duration. *)
Written(cfg) ==
    SelectSeq(Options, LAMBDA o : cfg.options[o.name] \notin {o.default, <<>>}
                                  /\ (o.kind = "duration" => cfg.options[o.name] # Negative))

Parameters(cfg) ==
    LET w == Written(cfg)
    IN  [i \in DOMAIN w |-> Parameter(w[i], cfg.options[w[i].name])]
        \o [i \in DOMAIN cfg.params |-> <<cfg.params[i].name, "=">> \o QueryEscape(cfg.params[i].value)]

FormatDSN(cfg) ==
    LET login == IF cfg.user = <<>> THEN <<>>
                 ELSE cfg.user \o (IF cfg.passwd = <<>> THEN <<>> ELSE <<":">> \o cfg.passwd) \o <<"@">>
        addr == IF cfg.addr = <<>> THEN <<>> ELSE <<"(">> \o cfg.addr \o <<")">>
        ps == Parameters(cfg)
    IN  login \o cfg.net \o (IF cfg.net = <<>> THEN <<>> ELSE addr) \o <<"/">> \o cfg.db
        \o FlattenSeq([i \in DOMAIN ps |-> <<IF i = 1 THEN "?" ELSE "&">> \o ps[i]])

-----------------------------------------------------------------------------
(* normalize *)

Refused(why) == [err |-> why]

(* net.SplitHostPort: a host in brackets ends before the port's colon;     *)
(* another has no colon; no bracket is anywhere else.                      *)
SplitHostPort(addr) ==
    LET colon == LastAt(addr, ":", Len(addr))
        bracketed == addr[1] = "["
        end == First(addr, "]", 1, Len(addr))
        host == IF bracketed THEN SubSeq(addr, 2, end - 1) ELSE SubSeq(addr, 1, colon - 1)
        rest(from) == ToSet(SubSeq(addr, from, Len(addr)))
    IN  [ok |-> /\ colon > 0
                /\ IF bracketed THEN colon = end + 1 ELSE ":" \notin ToSet(host)
                /\ "[" \notin rest(IF bracketed THEN 2 ELSE 1)
                /\ "]" \notin rest(IF bracketed THEN end + 1 ELSE 1),
         host |-> host]

(* net.JoinHostPort *)
JoinHostPort(host, port) ==
    (IF ":" \in ToSet(host) THEN <<"[">> \o host \o <<"]">> ELSE host) \o <<":", port>>

(* ensureHavePort: what is not a host with a port is taken for a host. *)
EnsureHavePort(addr) == IF SplitHostPort(addr).ok THEN addr ELSE JoinHostPort(addr, "3306")

WithAddr(cfg) ==
    LET net == IF cfg.net = <<>> THEN <<"tcp">> ELSE cfg.net
    IN  [cfg EXCEPT !.net = net,
                    !.addr = CASE cfg.addr = <<>> /\ net = <<"tcp">> -> <<"127.0.0.1", ":", "3306">>
                               [] cfg.addr = <<>> /\ net = <<"unix">> -> <<"/", "tmp", "/", "mysql.sock">>
                               [] cfg.addr # <<>> /\ net = <<"tcp">> -> EnsureHavePort(cfg.addr)
                               [] OTHER -> cfg.addr]

(* The TLS configuration; the server's name is the host's, unless it need  *)
(* not be verified.                                                        *)
WithTLS(cfg) ==
    LET name == cfg.options["tls"]
        tls == CASE name \in {<<>>, <<"false">>} -> "none"
                 [] name = <<"true">> -> "verify"
                 [] name \in {<<"skip-verify">>, <<"preferred">>} -> "skip"
                 [] OTHER -> "custom"
        named == tls \in {"verify", "custom"} /\ cfg.addr # <<>> /\ SplitHostPort(cfg.addr).ok
    IN  [cfg EXCEPT !.tls = tls, !.serverName = IF named THEN SplitHostPort(cfg.addr).host ELSE <<>>]

Normalize(cfg) ==
    LET c == WithTLS(WithAddr(cfg))
        key == cfg.options["serverPubKey"]
    IN  CASE cfg.options["interpolateParams"] = <<"true">> /\ cfg.options["collation"] \in UnsafeCollations ->
                Refused("unsafe collation")
          [] c.addr = <<>> -> Refused("default addr")
          [] c.tls = "custom" /\ c.options["tls"] \notin TLSConfigs -> Refused("tls config")
          [] key # <<>> /\ key \notin ServerPubKeys -> Refused("server pub key")
          [] OTHER -> [err |-> "", cfg |-> c]

-----------------------------------------------------------------------------
(* ParseDSN *)

(* readBool *)
ReadBool(v) ==
    CASE v \in {<<"1">>, <<"true">>, <<"TRUE">>, <<"True">>} -> <<"true">>
      [] v \in {<<"0">>, <<"false">>, <<"FALSE">>, <<"False">>} -> No
      [] OTHER -> <<"bad">>

(* The value of an option that parseDSNParams stores. *)
Stored(o, v) ==
    LET u == QueryUnescape(v)
        unescaped == IF u.ok THEN u.v ELSE <<"bad">>
    IN  CASE o.kind = "bool" -> ReadBool(v)
          [] o.kind = "raw" -> v
          [] o.kind = "duration" -> IF v \in Durations THEN v ELSE <<"bad">>
          [] o.kind = "number" -> IF v \in Numbers THEN v ELSE <<"bad">>
          [] o.kind = "escaped" -> IF o.name = "loc" /\ v = <<>> THEN <<"UTC">> ELSE unescaped
          [] o.kind = "tls" ->
                CASE ReadBool(v) # <<"bad">> -> ReadBool(v)
                  [] ReadBool(v) = <<"bad">> /\ v \in {<<"SKIP-VERIFY">>, <<"skip-verify">>} -> <<"skip-verify">>
                  [] OTHER -> unescaped

(* A parameter of the driver's, or of the server's. *)
ParseParam(r, p) ==
    LET eq == First(p, "=", 1, Len(p))
        name == SubSeq(p, 1, eq - 1)
        value == SubSeq(p, eq + 1, Len(p))
        known == Len(name) = 1 /\ name[1] \in Names
        u == QueryUnescape(value)
        others == SelectSeq(r.cfg.params, LAMBDA q : q.name # name[1])
    IN  CASE r.err # "" \/ eq > Len(p) -> r
          [] r.err = "" /\ eq <= Len(p) /\ name = <<"compress">> -> Refused("compression")
          [] r.err = "" /\ eq <= Len(p) /\ name = <<"strict">> -> Refused("panic")
          [] r.err = "" /\ eq <= Len(p) /\ known ->
                LET v == Stored(OptionOf(name[1]), value)
                IN  IF v = <<"bad">> THEN Refused("value") ELSE [r EXCEPT !.cfg.options[name[1]] = v]
          [] OTHER ->
                IF ~u.ok THEN Refused("value")
                ELSE [r EXCEPT !.cfg.params = Append(others, [name |-> name[1], value |-> u.v])]

RECURSIVE ParseParams(_, _)
ParseParams(r, s) ==
    LET amp == First(s, "&", 1, Len(s))
        first == SubSeq(s, 1, amp - 1)
        one == IF first = <<>> THEN r ELSE ParseParam(r, first)
    IN  IF amp > Len(s) THEN one ELSE ParseParams(one, SubSeq(s, amp + 1, Len(s)))

(* The slash before the name of the database: the last one. *)
Slash(s) == LastAt(s, "/", Len(s))

(* What comes before the slash: login, network and address. *)
ParseLeft(cfg, s, slash) ==
    LET at == LastAt(s, "@", slash - 1)
        colon == First(s, ":", 1, at - 1)
        open == First(s, "(", at + 1, slash - 1)
        login == IF at = 0 THEN cfg
                 ELSE [cfg EXCEPT !.user = SubSeq(s, 1, colon - 1), !.passwd = SubSeq(s, colon + 1, at - 1)]
    IN  CASE slash = 1 -> [err |-> "", cfg |-> cfg]
          [] slash > 1 /\ open < slash /\ s[slash - 1] # ")" -> Refused("address")
          [] OTHER -> [err |-> "",
                       cfg |-> [login EXCEPT !.net = SubSeq(s, at + 1, open - 1),
                                             !.addr = SubSeq(s, open + 1, slash - 2)]]

ParseDSN(s) ==
    LET slash == Slash(s)
        left == ParseLeft(NewConfig, s, slash)
        q == First(s, "?", slash + 1, Len(s))
        all == IF q > Len(s) THEN left ELSE ParseParams(left, SubSeq(s, q + 1, Len(s)))
    IN  CASE slash = 0 /\ s # <<>> -> Refused("no slash")
          [] slash = 0 /\ s = <<>> -> Normalize(NewConfig)
          [] slash > 0 /\ left.err # "" -> left
          [] OTHER -> IF all.err # "" THEN all ELSE Normalize([all.cfg EXCEPT !.db = SubSeq(s, slash + 1, q - 1)])
-----------------------------------------------------------------------------
(* What the format has a place for: a password needs a user, an address    *)
(* has no "@", a collation is not empty, a duration not negative.  And a   *)
(* TCP address has a port once it has been completed, which is not so of   *)
(* one that has brackets where net.SplitHostPort does not expect them:     *)
(* that one would be completed again.                                      *)
Writable(cfg) ==
    /\ cfg.user # <<>> \/ cfg.passwd = <<>>
    /\ "@" \notin ToSet(cfg.addr)
    /\ cfg.net = <<"tcp">> => SplitHostPort(cfg.addr).ok
    /\ cfg.options["collation"] # <<>>
    /\ \A n \in Names : OptionOf(n).kind = "duration" => cfg.options[n] # Negative

(* A configuration that was read, and that is Writable, is written as a    *)
(* text that reads the same, whatever other characters its user, password, *)
(* address and parameters have (dsn.go:151, 337).                          *)
ConfigIsRead(s) ==
    LET r == ParseDSN(s) IN r.err = "" /\ Writable(r.cfg) => ParseDSN(FormatDSN(r.cfg)) = r

(* A host and no port: no colon, or a literal IPv6 address in brackets.    *)
HostOnly(addr) ==
    \/ addr # <<>> /\ ToSet(addr) \cap {":", "[", "]"} = {}
    \/ /\ addr # <<>> /\ addr[1] = "[" /\ Last(addr) = "]"
       /\ Len(SelectSeq(addr, LAMBDA c : c = ":")) >= 2
       /\ ToSet(SubSeq(addr, 2, Len(addr) - 1)) \cap {"[", "]"} = {}

(* README.md:105-107: "addresses have the form `host[:port]`.  If `port`   *)
(* is omitted, the default port will be used.  If `host` is a literal IPv6 *)
(* address, it must be enclosed in square brackets."                       *)
DefaultPortIsAdded(s) ==
    LET r == ParseDSN(s)
        left == ParseLeft(NewConfig, s, Slash(s))
    IN  Slash(s) > 0 /\ r.err = "" /\ r.cfg.net = <<"tcp">> /\ HostOnly(left.cfg.addr)
            => r.cfg.addr = left.cfg.addr \o <<":", "3306">>
=============================================================================
