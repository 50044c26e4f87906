---------------------------- MODULE ConfigAtStart ----------------------------
(***************************************************************************)
(* A profile from its subscription to the daemon.  An import or a refresh  *)
(* writes the profile of what the provider serves; every start rewrites    *)
(* that file in memory, one transform after another, for the network and   *)
(* the machine it starts on (src/src/main/profiles.ts startServiceNow;     *)
(* src/src/main/vpn4tv: outlineDynamic.ts, dns.ts, ipv6.ts, bridgeAuth.ts, *)
(* russiaDirect.ts).  Only the keys a start resolved go back to the file.  *)
(***************************************************************************)
EXTENDS RussiaDirectRules

CONSTANTS
    Contents,      \* what a provider may serve
    Settings,      \* the user's settings: [fakeDns, lanBypass, perApp]
    HostNames,     \* the servers written by name
    KeyServers,    \* the servers a provider puts behind a dynamic key
    LeftDns,       \* the resolvers an earlier subscription left in the parser
    Networks,      \* sets of the DoH endpoints that answer
    Blocks         \* the options "Russia direct" is written with

VARIABLES
    content,       \* what the provider of the profile serves
    settings,
    lastDns,       \* the parser's variable, shared by all subscriptions
    file,          \* the profile on disk, or None
    stage,         \* of the start: "idle", then what has been done to config
    config,        \* the profile in the hands of the start, or None
    run,           \* what this start found: [network, pinned, fakeOff, ipv6, block]
    known          \* the servers of this profile's keys, ever resolved to the file

vars == <<content, settings, lastDns, file, stage, config, run, known>>

(* Every link names its scheme, every Xray outbound its protocol, and a    *)
(* WireGuard file is neither.                                              *)
LinksShape(links) ==
    /\ Len(links) \in Nat
    /\ \A i \in 1 .. Len(links) : Has(links[i], {"scheme"})

OutboundsShape(outbounds) ==
    /\ Len(outbounds) \in Nat
    /\ \A i \in 1 .. Len(outbounds) : /\ Has(outbounds[i], {"protocol"})
                                     /\ ~Has(outbounds[i], {"scheme"})

IniShape(ini) == {"scheme", "protocol"} \cap DOMAIN ini = {}

ContainersShape(containers) ==
    /\ Len(containers) \in Nat
    /\ \A i \in 1 .. Len(containers) :
          /\ Has(containers[i], {"ini"}) => IniShape(containers[i].ini)
          /\ Has(containers[i], {"xray"})
                => OutboundsShape(containers[i].xray.outbounds)

ContentShape(source) ==
    /\ source.form \in {"lines", "base64"} => LinksShape(source.lines)
    /\ source.form = "xray" => OutboundsShape(source.outbounds)
    /\ source.form = "ini" => IniShape(source)
    /\ source.form = "amnezia" => ContainersShape(source.containers)

ASSUME ContentsAssumption ==
    \A served \in Contents : ContentShape(decodeVpn4tvLink(served))

NoRun == [network |-> {}, pinned |-> {}, fakeOff |-> FALSE, ipv6 |-> TRUE,
          block |-> None]

----------------------------------------------------------------------------
(* outlineDynamic.ts *)

DynamicKeys(profile) ==
    {endpoint \in profile.bridges : Has(endpoint, {"dynamicUrl"})}

(* "answers" maps the URLs of the keys that answer to their servers. *)
resolveDynamicOutlineKeys(profile, answers) ==
    [profile EXCEPT !.bridges =
        {IF /\ Has(endpoint, {"dynamicUrl"})
            /\ endpoint.dynamicUrl \in DOMAIN answers
         THEN Extended(endpoint, [url |-> answers[endpoint.dynamicUrl]])
         ELSE endpoint : endpoint \in @}]

----------------------------------------------------------------------------
(* dns.ts *)

(* The endpoints that are probed, in order, by host; some are addresses. *)
dohProbeCandidates ==
    <<"9.9.9.9", "149.112.112.112", "dns.adguard-dns.com", "8.8.8.8",
      "dns.google", "1.0.0.1", "1.1.1.1", "dns.yandex.net">>

ByAddress == {"9.9.9.9", "149.112.112.112", "8.8.8.8", "1.0.0.1", "1.1.1.1"}

ASSUME AddressesAssumption == None \notin ByAddress

(* The first that answers, and where none does an address for plain DNS. *)
probeDns(answering) ==
    LET works == {i \in 1 .. Len(dohProbeCandidates) :
                     dohProbeCandidates[i] \in answering}
    IN  IF works = {}
        THEN [doh |-> "8.8.8.8", udp |-> "9.9.9.9", works |-> FALSE]
        ELSE [doh |-> dohProbeCandidates[FirstOf(works)], udp |-> "9.9.9.9",
              works |-> TRUE]

(* An address that serves DoH under its own name, or None. *)
dohCapableIp(result) ==
    IF ~result.works THEN None
    ELSE IF result.doh \in ByAddress THEN result.doh ELSE result.udp

injectProbedDns(profile, result) ==
    LET ip == dohCapableIp(result)
        Rewritten(server) ==
            CASE server.tag = "dns-remote" ->
                    [server EXCEPT !.type = "https", !.server = result.doh]
              [] server.tag = "dns-direct" ->
                    IF ip = None
                    THEN [server EXCEPT !.type = "udp", !.server = result.udp]
                    ELSE [server EXCEPT !.type = "https", !.server = ip]
              [] OTHER -> server
    IN  [profile EXCEPT !.dns.servers =
            [i \in 1 .. Len(@) |-> Rewritten(@[i])]]

serverHosts(profile) ==
    {Get(profile.outbounds[i], "server", "") :
        i \in 1 .. Len(profile.outbounds)} \cap HostNames

(* "pinned" are the names an answer, or a stored answer, was found for. *)
injectResolvedHosts(profile, pinned) ==
    LET Pinned(outbound) ==
            IF /\ Get(outbound, "server", "") \in pinned
               /\ ~Has(outbound, {"resolver"})
            THEN Extended(outbound, [resolver |-> "dns-hosts"])
            ELSE outbound
    IN  IF pinned = {} THEN profile
        ELSE [profile EXCEPT
                !.dns.servers = Append(@, [tag |-> "dns-hosts", type |-> "hosts"]),
                !.dns.rules = <<[names |-> pinned, server |-> "dns-hosts"]>> \o @,
                !.outbounds = [i \in 1 .. Len(@) |-> Pinned(@[i])]]

RealServers(servers) ==
    EntriesAt(servers, {i \in 1 .. Len(servers) : servers[i].tag # "dns-fakeip"})

RealRules(rules) ==
    EntriesAt(rules, {i \in 1 .. Len(rules) : ~isFakeDnsRule(rules[i])})

\* Variant: without the rules that name the server.
stripFakeServer(profile) ==
    [profile EXCEPT !.dns.servers = RealServers(@), !.store_fakeip = FALSE]

stripFakeDns(profile) ==
    [profile EXCEPT
        !.dns.servers = RealServers(@),
        !.dns.rules = RealRules(@),
        !.store_fakeip = FALSE]

----------------------------------------------------------------------------
(* ipv6.ts *)

(* The last address is never taken away. *)
stripTunIPv6(profile) ==
    [profile EXCEPT
        !.address = IF @ \ {"v6"} = {} THEN @ ELSE @ \ {"v6"},
        !.dns.servers = [i \in 1 .. Len(@) |->
                           IF Has(@[i], {"v6"}) THEN [@[i] EXCEPT !.v6 = FALSE]
                           ELSE @[i]]]

applyIPv6Support(profile, systemHasIPv6) ==
    IF systemHasIPv6 THEN profile ELSE stripTunIPv6(profile)

----------------------------------------------------------------------------
(* bridgeAuth.ts: one pair of credentials, "pair", per run of the app. *)

applyBridgeAuth(profile) ==
    LET open  == {endpoint \in profile.bridges :
                     /\ endpoint.bridge # "xray"
                     /\ ~Has(endpoint, {"auth"})}
        ports == {endpoint.port : endpoint \in open}
        Armed(outbound) ==
            IF /\ outbound.type = "socks"
               /\ outbound.server = socksHost
               /\ outbound.port \in ports
               /\ ~Has(outbound, {"auth"})
            THEN Extended(outbound, [auth |-> "pair"])
            ELSE outbound
    IN  [profile EXCEPT
            !.bridges = {IF endpoint \in open
                         THEN Extended(endpoint, [auth |-> "pair"])
                         ELSE endpoint : endpoint \in @},
            !.outbounds = [i \in 1 .. Len(@) |-> Armed(@[i])]]

----------------------------------------------------------------------------
Init ==
    /\ content \in Contents
    /\ settings \in Settings
    /\ lastDns \in LeftDns
    /\ file = None
    /\ stage = "idle"
    /\ config = None
    /\ run = NoRun
    /\ known = {}

(* The subscription is fetched and its profile written over the file, at *)
(* any moment of a start.                                                *)
Refresh ==
    /\ LET profile == convertSubscription(content, settings, lastDns, "uuid")
       IN  file' = IF profile = None THEN file ELSE profile
    /\ lastDns' = DnsAfter(content, lastDns)
    /\ UNCHANGED <<content, settings, stage, config, run, known>>

StartRequested ==
    /\ stage = "idle"
    /\ file # None
    /\ config' = file
    /\ stage' = "read"
    /\ UNCHANGED <<content, settings, lastDns, file, run, known>>

(* Each key answers with a server, or does not and keeps what it had; what *)
(* is new goes back to the file, unless the file cannot be written.        *)
ResolveKeys ==
    /\ stage = "read"
    /\ \E answering \in SUBSET {key.dynamicUrl : key \in DynamicKeys(config)} :
       \E answers \in [answering -> KeyServers], written \in BOOLEAN :
          LET resolved == resolveDynamicOutlineKeys(config, answers) IN
          /\ written => resolved # config
          /\ config' = resolved
          /\ file' = IF written THEN resolved ELSE file
          /\ known' = IF written THEN known \cup answering ELSE known
    /\ stage' = "resolved"
    /\ UNCHANGED <<content, settings, lastDns, run>>

(* The resolvers that answer here, and the names that could be resolved. *)
FindDns ==
    /\ stage = "resolved"
    /\ \E network \in Networks, pinned \in SUBSET serverHosts(config) :
          /\ config' = injectResolvedHosts(
                          injectProbedDns(config, probeDns(network)), pinned)
          /\ run' = [run EXCEPT !.network = network, !.pinned = pinned]
    /\ stage' = "found"
    /\ UNCHANGED <<content, settings, lastDns, file, known>>

(* FakeDNS may be off for the session; the machine may have no IPv6. *)
FitMachine ==
    /\ stage = "found"
    /\ \E fakeOff, ipv6 \in BOOLEAN :
          /\ config' = applyBridgeAuth(applyIPv6Support(
                          IF fakeOff THEN stripFakeDns(config) ELSE config, ipv6))
          /\ run' = [run EXCEPT !.fakeOff = fakeOff, !.ipv6 = ipv6]
    /\ stage' = "fitted"
    /\ UNCHANGED <<content, settings, lastDns, file, known>>

Prepare ==
    /\ stage = "fitted"
    /\ \E block \in Blocks :
          /\ config' = applyRussiaDirect(config, block)
          /\ run' = [run EXCEPT !.block = block]
    /\ stage' = "ready"
    /\ UNCHANGED <<content, settings, lastDns, file, known>>

(* The daemon has it. *)
Started ==
    /\ stage = "ready"
    /\ stage' = "idle"
    /\ config' = None
    /\ run' = NoRun
    /\ UNCHANGED <<content, settings, lastDns, file, known>>

Next ==
    \/ Refresh
    \/ StartRequested
    \/ ResolveKeys
    \/ FindDns
    \/ FitMachine
    \/ Prepare
    \/ Started

Spec == Init /\ [][Next]_vars

----------------------------------------------------------------------------
(* What the core does with a profile: the first rule that matches decides. *)
(* A packet is [name, addr, network, port, protocol, app], a query is      *)
(* [name, type]; a name may be absent.                                     *)

MatchesPlain(rule, it) ==
    /\ \A field \in {"protocol", "network", "port"} \cap DOMAIN rule :
          Get(it, field, "") = rule[field]
    /\ Has(rule, {"query"}) => it.type \in rule.query
    /\ Has(rule, {"private"}) => it.addr = "private"
    /\ Has(rule, {"process"}) => it.app \in rule.process
    /\ Has(rule, {"addr"}) => it.addr \in rule.addr
    /\ Has(rule, {"ip_version"}) => it.addr \notin {"ru6", "abroad6"}
    /\ Has(rule, {"names"}) => (it.name \in rule.names) # Has(rule, {"invert"})

Matches(rule, it) ==
    IF Has(rule, {"all"}) THEN \A part \in rule.all : MatchesPlain(part, it)
    ELSE MatchesPlain(rule, it)

Decided(rules, it, otherwise) ==
    LET hits == {i \in 1 .. Len(rules) : /\ Get(rules[i], "action", "") # "sniff"
                                         /\ Matches(rules[i], it)}
        rule == rules[FirstOf(hits)]
    IN  IF hits = {} THEN otherwise
        ELSE Get(rule, "outbound", Get(rule, "server", Get(rule, "action", "")))

RouteOf(packet) == Decided(config.route.rules, packet, config.route.final)

AnswerTo(query) ==
    Decided(config.dns.rules, query, config.dns.servers[1].tag)

----------------------------------------------------------------------------
(* What was promised, read off the subscription and the settings.          *)

Source == decodeVpn4tvLink(content)

(* The links and outbounds of a content that name a server. *)
Usable(links) ==
    EntriesAt(links, {i \in 1 .. Len(links) : parseLine(links[i]) # None})

Dialled(outbounds) ==
    EntriesAt(outbounds, {i \in 1 .. Len(outbounds) :
                            parseXrayOutbound(outbounds[i]) # None})

Entries ==
    CASE Source.form \in {"lines", "base64"} -> Usable(Source.lines)
      [] Source.form = "xray" -> Dialled(Source.outbounds)
      [] Source.form = "amnezia" ->
            IF WithConfig(Source.containers, "ini") # {}
            THEN <<AmneziaIni(Source)>>
            ELSE Dialled(AmneziaXray(Source).outbounds)
      [] OTHER -> <<Source>>

(* The start has a profile of the app's own making. *)
Generated == stage = "ready" /\ Source.form # "singbox"

KindOf(entry) == Get(entry, "scheme", Get(entry, "protocol", "wireguard"))

Asked(entry) ==
    LET transport == Get(entry, "transport", Get(entry, "network", "tcp")) IN
    [server    |-> entry.host,
     user      |-> entry.user,
     port      |-> PortOf(entry),
     transport |-> Get([raw |-> "tcp", h2 |-> "http"], transport, transport),
     security  |-> Get(entry, "security",
                       IF KindOf(entry) \in {"trojan", "hysteria2", "naive"}
                       THEN "tls" ELSE "none")]

(* The transports that are lost on the way: the parser takes "quic",       *)
(* "websocket" and, in an Xray JSON, "http" for sing-box's own, and writes *)
(* none of them; it writes xhttp, which sing-box does not have, for vmess  *)
(* and trojan links.                                                       *)
Lost(entry) ==
    \/ Get(entry, "transport", Get(entry, "network", "tcp"))
         \in {"quic", "websocket"}
    \/ Get(entry, "network", "tcp") = "http"
    \/ /\ KindOf(entry) \in {"vmess", "trojan"}
       /\ Get(entry, "transport", "tcp") \in {"xhttp", "splithttp"}

Dials(outbound, entry) ==
    CASE KindOf(entry) = "hysteria2" ->
            /\ outbound.server = entry.host
            /\ outbound.user = entry.user
      [] KindOf(entry) = "naive" ->
            /\ outbound.server = entry.host
            /\ outbound.transport = IF Get(entry, "quic", FALSE)
                                    THEN "quic" ELSE "tcp"
      [] OTHER ->
            \/ Lost(entry)
            \/ /\ \A field \in DOMAIN Asked(entry) :
                     outbound[field] = Asked(entry)[field]
               /\ outbound.transport
                    \in {"tcp", "ws", "grpc", "http", "httpupgrade"}

(* The endpoint takes the outbound's traffic, and is given the entry. *)
Serves(endpoint, outbound, entry) ==
    /\ endpoint.port = outbound.port
    /\ endpoint.listen = outbound.server
    /\ IF endpoint.bridge = "xray"
       THEN outbound.type = "vless" /\ outbound.uuid = endpoint.uuid
       ELSE /\ outbound.type = "socks"
            /\ {outbound.auth} = {endpoint.auth}
            /\ (outbound.network = "both")
                  = (endpoint.bridge \in {"outline", "wireproxy"})
    /\ CASE endpoint.bridge = "xray" -> Asked(endpoint.outbound) = Asked(entry)
         [] Has(endpoint, {"dynamicUrl"}) -> endpoint.dynamicUrl = entry.host
         [] Has(endpoint, {"ini"}) -> /\ endpoint.ini.host = entry.host
                                      /\ endpoint.ini.user = entry.user
         [] OTHER -> endpoint.url.key = entry.key

(***************************************************************************)
(* Every server of the subscription can be reached through the profile the *)
(* daemon gets, in its own order: by an outbound that dials what the link  *)
(* says, or by one that leads to the one bridge endpoint, on the port the  *)
(* outbound names, that was given that link and takes the outbound's       *)
(* credentials; and no endpoint is left over.  The ports are counted in    *)
(* two places of generator.ts, the credentials added by bridgeAuth.ts.     *)
(***************************************************************************)
ServersAreReached ==
    Generated =>
      /\ Len(config.outbounds) = Len(Entries) + 3
      /\ \A i \in 1 .. Len(Entries) :
            LET outbound == config.outbounds[i + 2]
                at == {endpoint \in config.bridges :
                         endpoint.port = Get(outbound, "port", 0)}
            IN  IF outbound.server = socksHost
                THEN /\ Cardinality(at) = 1
                     /\ \A endpoint \in at :
                           Serves(endpoint, outbound, Entries[i])
                ELSE Dials(outbound, Entries[i])
      /\ Cardinality(config.bridges)
            = Cardinality({i \in 1 .. Len(Entries) :
                             config.outbounds[i + 2].server = socksHost})

(***************************************************************************)
(* Whatever a start adds or takes away, every name in the profile leads to *)
(* something that is in it: the members of the groups, the targets of the  *)
(* route rules, the servers and resolvers of the DNS, the rule sets; and   *)
(* no two outbounds share a tag, unless a server is called like one of the *)
(* three the generator adds.  The core refuses a profile that breaks this. *)
(***************************************************************************)
ReferencesResolve ==
    LET outbounds == TagsOf(config.outbounds)
        servers   == TagsOf(config.dns.servers)
        Rules     == config.route.rules
        Parts(rule) == Get(rule, "all", {rule})
        reserved  == {"auto", "select", "direct"}
        named     == {i \in 1 .. Len(Entries) :
                        Get(Entries[i], "name", "") \in reserved}
    IN  stage = "ready" =>
          /\ \A i \in 1 .. Len(config.outbounds) :
                LET outbound == config.outbounds[i]
                    members  == Get(outbound, "outbounds", <<>>)
                IN  /\ \A m \in 1 .. Len(members) : members[m] \in outbounds
                    /\ Get(outbound, "resolver", "dns-direct") \in servers
          /\ \A i \in 1 .. Len(Rules) :
                /\ Get(Rules[i], "outbound", config.route.final) \in outbounds
                /\ \A part \in Parts(Rules[i]) :
                      Get(part, "rule_set", {}) \subseteq config.route.rule_set
          /\ \A i \in 1 .. Len(config.dns.rules) :
                LET rule == config.dns.rules[i] IN
                /\ Has(rule, {"server"}) => rule.server \in servers
                /\ \A part \in Parts(rule) :
                      Get(part, "rule_set", {}) \subseteq config.route.rule_set
          /\ \A i \in 1 .. Len(config.dns.servers) :
                /\ Get(config.dns.servers[i], "detour", config.route.final)
                     \in outbounds
                /\ Get(config.dns.servers[i], "resolver", "dns-direct")
                     \in servers
          /\ Cardinality(servers) = Len(config.dns.servers)
          /\ named = {} => Cardinality(outbounds) = Len(config.outbounds)
          /\ config.store_fakeip = ("dns-fakeip" \in servers)
          /\ config.address # {}

----------------------------------------------------------------------------
CONSTANTS Packets, Queries

ASSUME PacketsAssumption ==
    \A packet \in Packets : Has(packet, {"protocol", "network", "port"})

RussiaOn == ~run.block.off

(* The Russian names and addresses that go direct. *)
Kept == RU_VPN_EXCEPTIONS \cup run.block.extra

RussianName(name) ==
    /\ name \notin Kept
    /\ name \in RU_SUFFIXES \cup (IF run.block.sets THEN GEOSITE ELSE {})

Russian(packet) ==
    \/ RussianName(packet.name)
    \/ packet.name \notin Kept /\ run.block.sets /\ packet.addr = "ru4"

(* None of the servers is of a kind that carries UDP. *)
NoUdp == \A i \in 1 .. Len(Entries) :
            Get(Entries[i], "scheme", "") \in {"olcrtc", "tt", "naive"}

Promised(packet) ==
    LET listed == packet.app \in Apps(settings.perApp)
        mode   == PerAppMode(settings.perApp)
    IN  IF packet.protocol = "dns" THEN "hijack-dns"
        ELSE IF \/ settings.lanBypass /\ packet.addr = "private"
                \/ packet.protocol = "bittorrent"
                \/ RussiaOn /\ Russian(packet)
                \/ mode = "exclude" /\ listed
        THEN "direct"
        ELSE IF mode = "include" /\ listed THEN "select"
        ELSE IF NoUdp /\ packet.network = "udp"
        THEN IF packet.port = 123 THEN "direct" ELSE "reject"
        ELSE IF mode = "include" THEN "direct" ELSE "select"

(***************************************************************************)
(* Every packet goes where the user was told: to the LAN directly when the *)
(* LAN is left out of the tunnel, BitTorrent always direct, Russian names  *)
(* and IPv4 addresses direct unless they are exceptions, the chosen        *)
(* applications as chosen, and everything else through the tunnel; UDP     *)
(* never goes direct for want of a server that carries it.  (In the mode   *)
(* for chosen applications only, such a profile refuses the UDP of the     *)
(* others too: they do not stay wholly direct.)  The rules come from       *)
(* generator.ts and, inserted among them at each start, russiaDirect.ts.   *)
(***************************************************************************)
TrafficGoesAsPromised ==
    Generated => \A packet \in Packets : RouteOf(packet) = Promised(packet)

(* A bridge of its own dials this server: not the core, and not Xray. *)
HasOwnBridge(entry) ==
    LET scheme == Get(entry, "scheme", "") IN
    \/ scheme \in {"olcrtc", "tt", "ssconf", "wg"}
    \/ scheme = "ss" /\ Get(entry, "prefix", FALSE)
    \/ ~Has(entry, {"scheme"}) /\ ~Has(entry, {"protocol"})  \* a WireGuard file

FakeOn ==
    /\ settings.fakeDns
    /\ ~run.fakeOff
    /\ \E i \in 1 .. Len(Entries) : ~HasOwnBridge(Entries[i])

PromisedTo(query) ==
    IF query.name \in run.pinned THEN "dns-hosts"
    ELSE IF RussiaOn /\ RussianName(query.name)
    THEN IF query.type \in {"AAAA", "HTTPS", "SVCB"} THEN "predefined"
         ELSE IF run.block.fallback THEN "dns-direct" ELSE "dns-ru"
    ELSE IF FakeOn /\ query.type \in {"HTTPS", "SVCB"} THEN "reject"
    ELSE IF FakeOn /\ query.type \in {"A", "AAAA"} THEN "dns-fakeip"
    ELSE "dns-remote"

(***************************************************************************)
(* Every name is resolved where it should be: the servers' own names by    *)
(* the answers found before the start, Russian names at dns-ru and as IPv4 *)
(* only, all others by FakeDNS or else at a resolver that answered just    *)
(* now, through the tunnel; and the resolver dialled around the tunnel is  *)
(* an address.  No resolver an earlier subscription left behind is asked,  *)
(* and no fake IPv6 is given out on a machine that has none.               *)
(***************************************************************************)
QueriesGoAsPromised ==
    Generated =>
      LET Server(tag) == CHOOSE server \in {config.dns.servers[i] :
                                  i \in 1 .. Len(config.dns.servers)} :
                            server.tag = tag
          probe == probeDns(run.network)
      IN  /\ \A query \in Queries : AnswerTo(query) = PromisedTo(query)
          /\ Server("dns-remote").server = probe.doh
          /\ Server("dns-remote").detour = "select"
          /\ Server("dns-direct").server \in ByAddress
          /\ (Server("dns-direct").type = "https") = probe.works
          /\ FakeOn => Server("dns-fakeip").v6 = run.ipv6
          /\ ("v6" \in config.address) = run.ipv6

(***************************************************************************)
(* "The resolved URL is written back into the profile, so a failed fetch   *)
(* falls back to the last key that worked instead of leaving the user with *)
(* nothing" (outlineDynamic.ts): a start has a server for every dynamic    *)
(* key that was ever resolved and written to the profile.                  *)
(***************************************************************************)
LastKeyIsKept ==
    stage # "idle" /\ stage # "read" =>
      \A key \in DynamicKeys(config) :
         key.dynamicUrl \in known => Has(key, {"url"})
=============================================================================
