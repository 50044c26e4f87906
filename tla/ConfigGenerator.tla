--------------------------- MODULE ConfigGenerator ---------------------------
(***************************************************************************)
(* The sing-box profile made of the servers in a subscription              *)
(* (src/src/main/vpn4tv/generator.ts).  A server only a bridge can reach   *)
(* becomes an outbound to a port on the loopback and an endpoint that      *)
(* listens there: the two lists are written apart, from the same servers.  *)
(***************************************************************************)
EXTENDS SubscriptionParser, FiniteSets

socksHost == "127.0.0.1"

(* Where the ports of each kind of bridge begin. *)
BRIDGE_PORTS ==
    [xray |-> 42890, outline |-> 42890 + 1000, wireproxy |-> 42890 + 2000,
     olcrtc |-> 42890 + 3000, trusttunnel |-> 42890 + 4000]

(* The bridge that serves a kind of server: a dynamic key is Outline's. *)
BridgeOf(kind) ==
    Get([xray |-> "xray", outline |-> "outline", dynamic |-> "outline",
         awg |-> "wireproxy", olcrtc |-> "olcrtc",
         trusttunnel |-> "trusttunnel"], kind, None)

reachesBridge(proxy) == proxy.bridge.kind # "none"

(* The bridges other than Xray's: what FakeDNS and IPv4-only look at. *)
allTcpBridged(proxies) ==
    \A i \in 1 .. Len(proxies) : proxies[i].bridge.kind \notin {"none", "xray"}

Served(proxies, bridge) ==
    EntriesAt(proxies, {i \in 1 .. Len(proxies) :
                          BridgeOf(proxies[i].bridge.kind) = bridge})

----------------------------------------------------------------------------
(* Outbounds. *)

\* Variant: one count for the bridges of every kind.
PortForAny(proxies, i) ==
    BRIDGE_PORTS[BridgeOf(proxies[i].bridge.kind)]
    + Cardinality({j \in 1 .. i - 1 : reachesBridge(proxies[j])})

(* The i-th server's port: that of its place among its bridge's servers. *)
PortFor(proxies, i) ==
    LET bridge == BridgeOf(proxies[i].bridge.kind)
    IN  BRIDGE_PORTS[bridge]
        + Cardinality({j \in 1 .. i - 1 :
                          BridgeOf(proxies[j].bridge.kind) = bridge})

socksLoopback(tag, port, udpOverTcp) ==
    [type |-> "socks", tag |-> tag, server |-> socksHost, port |-> port,
     network |-> IF udpOverTcp THEN "both" ELSE "tcp"]

xrayBridgeOutbound(tag, port, uuid) ==
    [type |-> "vless", tag |-> tag, server |-> socksHost, port |-> port,
     uuid |-> uuid]

ToBridge(proxies, i, uuid) ==
    LET proxy == proxies[i]
        port  == PortFor(proxies, i)
        kind  == proxy.bridge.kind
    IN  CASE kind = "xray" -> xrayBridgeOutbound(proxy.tag, port, uuid)
          [] kind \in {"outline", "dynamic", "awg"} ->
                socksLoopback(proxy.tag, port, TRUE)
          [] OTHER -> socksLoopback(proxy.tag, port, FALSE)

carriesUdp(outbound) ==
    /\ outbound.type \notin {"selector", "urltest", "direct", "block", "dns",
                             "http"}
    /\ IF outbound.type = "naive" THEN Get(outbound, "udpOverTcp", FALSE)
       ELSE Get(outbound, "network", "both") # "tcp"

Renamed(outbounds, tags) ==
    [i \in 1 .. Len(outbounds) |-> [outbounds[i] EXCEPT !.tag = tags[i]]]

(* A tag taken already gets the first number, from 2, that is free. *)
dedupeTags(outbounds) ==
    LET Numbering(tag, seen) ==
            LET free == {k \in 2 .. Cardinality(seen) + 2 :
                            tag \o "_" \o ToString(k) \notin seen}
            IN  tag \o "_" \o ToString(CHOOSE k \in free :
                                          \A other \in free : k <= other)
        tags[i \in 0 .. Len(outbounds)] ==
            IF i = 0 THEN <<>>
            ELSE LET seen == {tags[i - 1][j] : j \in 1 .. i - 1}
                     tag  == outbounds[i].tag
                 IN  Append(tags[i - 1], IF tag \in seen
                                         THEN Numbering(tag, seen) ELSE tag)
    IN  Renamed(outbounds, tags[Len(outbounds)])

Servers(proxies, uuid) ==
    dedupeTags([i \in 1 .. Len(proxies) |->
                  IF reachesBridge(proxies[i])
                  THEN ToBridge(proxies, i, uuid)
                  ELSE proxies[i].outbound])

buildOutbounds(servers) ==
    LET tags == [i \in 1 .. Len(servers) |-> servers[i].tag] IN
    <<[type |-> "urltest", tag |-> "auto", outbounds |-> tags],
      [type |-> "selector", tag |-> "select",
       outbounds |-> <<"auto">> \o tags]>>
    \o servers
    \o <<[type |-> "direct", tag |-> "direct"]>>

----------------------------------------------------------------------------
(* What the bridges are given: one endpoint for each of their servers. *)

Endpoint(bridge, entry, port) ==
    Extended(entry, [bridge |-> bridge, port |-> port, listen |-> socksHost])

buildXrayConfig(entries, uuid) ==
    {Endpoint("xray", [outbound |-> entries[i].bridge.entry, uuid |-> uuid],
              BRIDGE_PORTS.xray + i - 1) : i \in 1 .. Len(entries)}

buildEndpointConfig(bridge, entries) ==
    {Endpoint(bridge, entries[i].bridge.entry, BRIDGE_PORTS[bridge] + i - 1) :
        i \in 1 .. Len(entries)}

Bridges(proxies, uuid) ==
    buildXrayConfig(Served(proxies, "xray"), uuid)
    \cup UNION {buildEndpointConfig(bridge, Served(proxies, bridge)) :
                  bridge \in {"outline", "wireproxy", "olcrtc", "trusttunnel"}}

----------------------------------------------------------------------------
(* DNS. *)

tcpDnsType(type) ==
    Get([udp |-> "tcp", quic |-> "tls", h3 |-> "https"], type, type)

buildDns(proxies, fakeDns, lastDns) ==
    [servers |->
        <<[tag |-> "dns-remote", server |-> lastDns.remote,
           type |-> IF \E i \in 1 .. Len(proxies) : reachesBridge(proxies[i])
                    THEN tcpDnsType("https") ELSE "https",
           detour |-> "select", resolver |-> "dns-direct"],
          [tag |-> "dns-direct", server |-> lastDns.direct, type |-> "udp"]>>
        \o (IF fakeDns
            THEN <<[tag |-> "dns-fakeip", type |-> "fakeip", v6 |-> TRUE]>>
            ELSE <<>>),
     rules |->
        IF fakeDns
        THEN <<[query |-> {"HTTPS", "SVCB"}, action |-> "reject"],
               [query |-> {"A", "AAAA"}, server |-> "dns-fakeip"]>>
        ELSE <<>>,
     strategy |-> IF allTcpBridged(proxies) THEN "ipv4_only" ELSE ""]

----------------------------------------------------------------------------
(* Routes.  "perApp" is [mode, apps]. *)

Apps(perApp) == {app \in perApp.apps : app # ""}

PerAppMode(perApp) == IF Apps(perApp) = {} THEN "off" ELSE perApp.mode

ntpDirectRule == [network |-> "udp", port |-> 123, outbound |-> "direct"]

udpRejectRule == [network |-> "udp", action |-> "reject"]

buildRoute(servers, lanBypass, perApp) ==
    LET mode == PerAppMode(perApp)
        udp  == \E i \in 1 .. Len(servers) : carriesUdp(servers[i])
    IN  [rules |->
            <<[action |-> "sniff"],
              [protocol |-> "dns", action |-> "hijack-dns"]>>
            \o (IF lanBypass
                THEN <<[private |-> TRUE, outbound |-> "direct"]>> ELSE <<>>)
            \o (CASE mode = "exclude" ->
                       <<[process |-> Apps(perApp), outbound |-> "direct"]>>
                  [] mode = "include" ->
                       <<[process |-> Apps(perApp), outbound |-> "select"]>>
                  [] OTHER -> <<>>)
            \o (IF udp THEN <<>> ELSE <<ntpDirectRule, udpRejectRule>>),
         final    |-> IF mode = "include" THEN "direct" ELSE "select",
         resolver |-> "dns-direct",
         rule_set |-> {}]

----------------------------------------------------------------------------
(* The profile.  "settings" is [fakeDns, lanBypass, perApp]; "uuid" is the *)
(* one client id of the profile.                                           *)

IsPassthrough(proxies) ==
    /\ Len(proxies) = 1
    /\ proxies[1].type = "singbox"
    /\ proxies[1].tag = SINGBOX_PASSTHROUGH_TAG

generateConfig(proxies, settings, lastDns, uuid) ==
    LET servers == Servers(proxies, uuid)
        fakeDns == settings.fakeDns /\ ~allTcpBridged(proxies)
    IN  IF IsPassthrough(proxies) THEN proxies[1].outbound
        ELSE [dns          |-> buildDns(proxies, fakeDns, lastDns),
              address      |-> {"v4", "v6"},
              outbounds    |-> buildOutbounds(servers),
              route        |-> buildRoute(servers, settings.lanBypass,
                                          settings.perApp),
              store_fakeip |-> fakeDns,
              bridges      |-> Bridges(proxies, uuid)]

(* No servers: the profile is refused. *)
convertSubscription(content, settings, lastDns, uuid) ==
    LET proxies == parseSubscription(content) IN
    IF proxies = <<>> THEN None
    ELSE generateConfig(proxies, settings, DnsAfter(content, lastDns), uuid)
=============================================================================
