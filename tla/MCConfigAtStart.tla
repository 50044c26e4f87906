--------------------------- MODULE MCConfigAtStart ---------------------------
(* Subscriptions of every shape the parser knows, and packets of each kind. *)
EXTENDS ConfigAtStart

Vless(transport, security, host, name) ==
    [scheme |-> "vless", user |-> "u", host |-> host, port |-> 0,
     name |-> name, transport |-> transport, security |-> security]
Link(scheme, host, name) ==
    [scheme |-> scheme, user |-> "u", host |-> host, port |-> 8443,
     name |-> name]
Keyed(scheme, name) == Link(scheme, "room", name) @@ [key |-> scheme]
Outline == Link("ss", "192.0.2.1", "Outline") @@ [prefix |-> TRUE, key |-> "o"]
DynamicKey(host) == [scheme |-> "ssconf", host |-> host]
Ini == [host |-> "h.com", user |-> "k", name |-> "wg"]
Wg == Link("wg", "h.com", "wg") @@ [privateKey |-> "k", peerKey |-> "k"]

Lines(links) == [form |-> "lines", lines |-> links]

XrayOut(protocol, network, tag) ==
    [protocol |-> protocol, user |-> "u", host |-> "h.com", port |-> 443,
     network |-> network, security |-> "reality", tag |-> tag]
XrayJson ==
    [form |-> "xray", dns |-> [https |-> "dns.example"],
     outbounds |->
       <<XrayOut("vless", "grpc", "a"), XrayOut("vmess", "xhttp", "b"),
         XrayOut("vless", "xhttp", "c") @@ [safe |-> FALSE],
         XrayOut("trojan", "http", "d"), XrayOut("vless", "tcp", "a"),
         [protocol |-> "shadowsocks", user |-> "u", host |-> "h.com",
          port |-> 443],
         [protocol |-> "freedom"]>>]

Foreign ==
    [dns |-> [servers |-> <<[tag |-> "mine", type |-> "udp"],
                            [tag |-> "dns-direct", type |-> "udp",
                             server |-> "192.0.2.9"]>>,
              rules |-> <<>>, strategy |-> ""],
     address |-> {"v6"},
     outbounds |-> <<[type |-> "vless", tag |-> "mine", server |-> "h.ru"]>>,
     route |-> [rules |-> <<[action |-> "sniff"]>>, final |-> "mine",
                resolver |-> "dns-direct", rule_set |-> {}],
     store_fakeip |-> FALSE,
     bridges |-> {}]

(* A profile the app generated once, pasted back with rules of the user's. *)
Pasted(rules) ==
    LET profile == generateConfig(
                     parseSubscription(Lines(<<Vless("ws", "tls", "h.ru", "v")>>)),
                     [fakeDns |-> TRUE, lanBypass |-> TRUE,
                      perApp |-> [mode |-> "off", apps |-> {}]],
                     defaultDns, "uuid")
    IN  [profile EXCEPT !.dns.rules = rules \o @]

MCContents ==
    { Lines(<<Vless("tcp", "reality", "h.com", "NL"),
              Vless("xhttp", "tls", "h.ru", "NL"),
              Vless("raw", "none", "192.0.2.1", "NL_2"),
              Vless("splithttp", "reality", "h.ru", "NL"),
              [scheme |-> "vless", host |-> "h.ru"]>>),
      Lines(<<Keyed("olcrtc", "call"), Keyed("tt", "tt"), Keyed("tt", "call"),
              [scheme |-> "tt"], [scheme |-> "http"]>>),
      Lines(<<Link("naive", "h.com", "n"), Keyed("tt", "tt"),
              Link("naive", "h.com", "q") @@ [quic |-> TRUE],
              Link("naive", "h.com", "x") @@ [pair |-> FALSE]>>),
      Lines(<<Outline, DynamicKey("keys.net"), Link("ss", "192.0.2.1", "ss")>>),
      Lines(<<DynamicKey("keys.net"), Vless("xhttp", "tls", "h.com", "v"),
              Outline, DynamicKey("keys.org")>>),
      Lines(<<Wg, Link("wg", "h.com", "wg"), Keyed("tt", "wg"), Outline,
              Keyed("olcrtc", "wg_2")>>),
      Lines(<<Link("hysteria2", "h.ru", "h") @@ [ports |-> <<<<443>>, <<9, 5>>>>],
              Link("hysteria2", "h.ru", "h")
                @@ [ports |-> <<<<8443>>, <<20000, 40000>>>>],
              Link("hysteria2", "h.ru", "h") @@ [ports |-> <<<<8443>>>>]>>),
      Lines(<<Link("trojan", "h.ru", "direct"), Wg,
              Link("vmess", "h.com", "m") @@ [transport |-> "h2",
                                              security |-> "tls"],
              Link("trojan", "h.com", "t") @@ [transport |-> "xhttp"],
              Vless("quic", "tls", "h.com", "lost")>>),
      [form |-> "base64", lines |-> <<Vless("grpc", "tls", "h.ru", "b")>>],
      [form |-> "vpn4tv", payload |-> XrayJson],
      [form |-> "amnezia", description |-> "Amnezia",
       containers |-> <<[xray |-> XrayJson], [ini |-> Ini]>>],
      [form |-> "amnezia", description |-> "Amnezia",
       containers |-> <<[other |-> Ini], [xray |-> XrayJson]>>],
      [form |-> "amnezia", description |-> "Amnezia", containers |-> <<>>],
      [form |-> "ini", name |-> "wg"],
      Lines(<<>>),
      [form |-> "text"],
      [form |-> "singbox", config |-> Foreign],
      [form |-> "singbox", config |-> Pasted(<<>>)],
      [form |-> "singbox",
       config |-> Pasted(<<[strategy |-> "prefer_ipv4", server |-> "dns-remote"]>>)] }

Chosen(mode, app) == [mode |-> mode, apps |-> {app}]
MCSettings ==
    [fakeDns : BOOLEAN, lanBypass : BOOLEAN,
     perApp : {Chosen("off", "chosen"), Chosen("exclude", "chosen"),
               Chosen("include", "chosen"), Chosen("include", "")}]

MCHostNames == {"h.com", "h.ru"}
MCKeyServers == {"s1"}
MCLeftDns == {[remote |-> "left.example", direct |-> "192.0.2.3"]}
MCNetworks == {{"9.9.9.9", "8.8.8.8"}, {"dns.adguard-dns.com", "1.1.1.1"}, {}}

(* Kinds of names: under a Russian suffix, in the geosite set alone, kept  *)
(* on the VPN by the built-in list or by the server, and a host's own.     *)
MCSuffixes == {"site.ru", "blocked.ru", "kept.ru", "h.ru"}
MCGeosite == {"site.ru", "gosite.com"}
MCExceptions == {"blocked.ru"}
MCBlocks ==
    {[off |-> TRUE, sets |-> TRUE, fallback |-> FALSE, extra |-> {}],
     [off |-> FALSE, sets |-> TRUE, fallback |-> FALSE, extra |-> {"kept.ru"}],
     [off |-> FALSE, sets |-> FALSE, fallback |-> TRUE, extra |-> {}]}

Flow(network, port, protocol) ==
    [network |-> network, port |-> port, protocol |-> protocol]
Flows == {Flow("tcp", 443, "tls"), Flow("udp", 443, "quic"),
          Flow("udp", 123, "ntp"), Flow("udp", 53, "dns"),
          Flow("tcp", 6881, "bittorrent")}
Ends == {[name |-> "", addr |-> "private"], [name |-> "", addr |-> "ru4"],
         [name |-> "", addr |-> "ru6"], [name |-> "site.ru", addr |-> "abroad4"],
         [name |-> "gosite.com", addr |-> "abroad6"],
         [name |-> "blocked.ru", addr |-> "ru4"],
         [name |-> "kept.ru", addr |-> "abroad4"],
         [name |-> "", addr |-> "abroad4"]}
MCPackets == {flow @@ end @@ [app |-> app] :
                flow \in Flows, end \in Ends, app \in {"chosen", "other"}}
MCQueries == [name : {"h.ru", "h.com", "site.ru", "gosite.com", "blocked.ru",
                      "kept.ru", "abroad.com"},
              type : {"A", "AAAA", "HTTPS", "SVCB", "TXT"}]
=============================================================================
