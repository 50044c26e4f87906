------------------------- MODULE SubscriptionParser -------------------------
(***************************************************************************)
(* What a subscription means (src/src/main/vpn4tv/parser.ts, support.ts):  *)
(* the content a provider serves, or a user pastes, to the servers in it.  *)
(*                                                                         *)
(* A content is a record with a "form": the text's own shape.  A link is a *)
(* record of what its URI says (scheme, user, host, port, name, transport, *)
(* security); a field the URI leaves out is absent.  A server comes out as *)
(* a record with the outbound sing-box dials, or with the bridge that      *)
(* dials for it and the entry that bridge is given.                        *)
(***************************************************************************)
EXTENDS Integers, Sequences, TLC

CONSTANT None

(* A field, or its default where it is absent. *)
Get(source, key, fallback) ==
    IF key \in DOMAIN source THEN source[key] ELSE fallback

Has(source, keys) == keys \subseteq DOMAIN source

(* The record with these fields, added to it or set anew. *)
Extended(record, fields) ==
    [key \in DOMAIN record \cup DOMAIN fields |->
       IF key \in DOMAIN fields THEN fields[key] ELSE record[key]]

(* The entries of a sequence that stand at these places, in its order. *)
EntriesAt(s, places) ==
    LET upTo[i \in 0 .. Len(s)] ==
            IF i = 0 THEN <<>>
            ELSE IF i \in places THEN Append(upTo[i - 1], s[i])
            ELSE upTo[i - 1]
    IN  upTo[Len(s)]

(* The transports the app takes for sing-box's own. *)
SINGBOX_TRANSPORTS ==
    {"tcp", "raw", "ws", "websocket", "grpc", "http", "h2", "httpupgrade",
     "quic"}

(* The transport written into an outbound: from a URI's parameters, and    *)
(* from an Xray outbound's stream settings; "tcp" is to write none.        *)
putTransport(type) ==
    Get([ws |-> "ws", grpc |-> "grpc", http |-> "http", h2 |-> "http",
         httpupgrade |-> "httpupgrade", xhttp |-> "xhttp",
         splithttp |-> "xhttp"], type, "tcp")

putXrayTransport(network, hasSettings) ==
    IF hasSettings
    THEN Get([ws |-> "ws", grpc |-> "grpc", xhttp |-> "xhttp",
              splithttp |-> "xhttp", h2 |-> "http",
              httpupgrade |-> "httpupgrade"], network, "tcp")
    ELSE "tcp"

putXrayTls(security) ==
    IF security \in {"tls", "reality"} THEN security ELSE "none"

----------------------------------------------------------------------------
(* Servers. *)

(* JSON (a vmess link, an Xray outbound) is taken at its word; a port of 0 *)
(* in any other link is none.                                              *)
PortOf(link) ==
    LET port == Get(link, "port", 443)
        json == Has(link, {"protocol"}) \/ Get(link, "scheme", "") = "vmess"
    IN  IF port > 0 \/ json THEN port ELSE 443

NameOf(link) == Get(link, "name", link.host)

NoBridge == [kind |-> "none"]

Outbound(type, tag, link, transport, security) ==
    [type |-> type, tag |-> tag, server |-> link.host, port |-> PortOf(link),
     user |-> link.user, transport |-> transport, security |-> security]

Native(outbound) ==
    [tag |-> outbound.tag, type |-> outbound.type, outbound |-> outbound,
     bridge |-> NoBridge]

Bridged(type, tag, kind, entry) ==
    [tag |-> tag, type |-> type, outbound |-> None,
     bridge |-> [kind |-> kind, entry |-> entry]]

(* The outbound written for Xray's own use: what the link says of it. *)
buildXrayVlessOutbound(link) ==
    [protocol |-> "vless", host |-> link.host, port |-> PortOf(link),
     user |-> link.user, network |-> link.transport,
     security |-> putXrayTls(Get(link, "security", ""))]

parseVless(link) ==
    LET transport == Get(link, "transport", "tcp") IN
    IF ~Has(link, {"user", "host"}) THEN None
    ELSE IF transport \notin SINGBOX_TRANSPORTS
    THEN Bridged("vless", NameOf(link), "xray", buildXrayVlessOutbound(link))
    ELSE Native(Outbound("vless", NameOf(link), link, putTransport(transport),
                         putXrayTls(Get(link, "security", ""))))

parseTrojan(link) ==
    IF Has(link, {"user", "host"})
    THEN Native(Outbound("trojan", NameOf(link), link,
                         putTransport(Get(link, "transport", "tcp")),
                         IF Get(link, "security", "tls") = "none"
                         THEN "none" ELSE "tls"))
    ELSE None

(* A vmess link is JSON in base64; what does not decode has no host. *)
parseVmess(link) ==
    IF Has(link, {"user", "host"})
    THEN Native(Outbound("vmess", NameOf(link), link,
                         putTransport(Get(link, "transport", "tcp")),
                         IF Get(link, "security", "") = "tls"
                         THEN "tls" ELSE "none"))
    ELSE None

(***************************************************************************)
(* The port part of a Hysteria2 link: a sequence of entries <<p>> or       *)
(* <<first, last>>.  One entry out of range and all of it is dropped; a    *)
(* list or a range is port hopping, every entry of it a "start:end".       *)
(***************************************************************************)
parseHysteria2Ports(entries) ==
    LET last(e) == e[Len(e)]
        valid   == /\ entries # <<>>
                   /\ \A i \in 1 .. Len(entries) :
                         /\ Len(entries[i]) \in {1, 2}
                         /\ entries[i][1] >= 1
                         /\ last(entries[i]) <= 65535
                         /\ entries[i][1] <= last(entries[i])
    IN  IF ~valid THEN [port |-> 443]
        ELSE IF Len(entries) = 1 /\ Len(entries[1]) = 1
        THEN [port |-> entries[1][1]]
        ELSE [port  |-> entries[1][1],
              ports |-> [i \in 1 .. Len(entries) |->
                           <<entries[i][1], last(entries[i])>>]]

parseHysteria2(link) ==
    IF Has(link, {"user", "host"})
    THEN Native(Extended(
            Outbound("hysteria2", NameOf(link), link, "tcp", "tls"),
            [port    |-> 0,
             dialled |-> parseHysteria2Ports(Get(link, "ports", <<>>))]))
    ELSE None

(* Naive needs a user and a password; "pair" says the link has both. *)
parseNaive(link) ==
    IF Has(link, {"user", "host"}) /\ Get(link, "pair", TRUE)
    THEN Native(Outbound("naive", NameOf(link), link,
                         IF Get(link, "quic", FALSE) THEN "quic" ELSE "tcp",
                         "tls"))
    ELSE None

(* A prefix in the parameters is Outline's: only its bridge speaks it. *)
parseShadowsocks(link) ==
    IF ~Has(link, {"user", "host"}) THEN None
    ELSE IF Get(link, "prefix", FALSE)
    THEN Bridged("shadowsocks", NameOf(link), "outline", [url |-> link])
    ELSE Native(Outbound("shadowsocks", NameOf(link), link, "tcp", "none"))

(* A dynamic key: only where the key is fetched from, at every start. *)
parseOutlineDynamicKey(link) ==
    IF Has(link, {"host"})
    THEN Bridged("shadowsocks", NameOf(link), "dynamic",
                 [dynamicUrl |-> link.host])
    ELSE None

parseWgIni(ini) ==
    IF Has(ini, {"host"})
    THEN Bridged("wireguard", NameOf(ini), "awg", [ini |-> ini])
    ELSE None

(* A wg:// link is rewritten as the INI its bridge takes. *)
parseWgUri(link) ==
    IF Has(link, {"host", "privateKey", "peerKey"})
    THEN parseWgIni(link)
    ELSE None

(* The links other programs read whole; "key" is the part that must parse. *)
parseOlcrtc(link) ==
    IF Has(link, {"host", "key"})
    THEN Bridged("olcrtc", Get(link, "name", "olcRTC"), "olcrtc",
                 [url |-> link])
    ELSE None

parseTrustTunnel(link) ==
    IF Has(link, {"key"})
    THEN Bridged("trusttunnel", Get(link, "name", "TrustTunnel"),
                 "trusttunnel", [url |-> [scheme |-> "tt", key |-> link.key]])
    ELSE None

parseLine(link) ==
    CASE link.scheme = "vless"       -> parseVless(link)
      [] link.scheme = "vmess"       -> parseVmess(link)
      [] link.scheme = "hysteria2"   -> parseHysteria2(link)
      [] link.scheme = "trojan"      -> parseTrojan(link)
      [] link.scheme = "ss"          -> parseShadowsocks(link)
      [] link.scheme = "ssconf"      -> parseOutlineDynamicKey(link)
      [] link.scheme = "naive"       -> parseNaive(link)
      [] link.scheme = "wg"          -> parseWgUri(link)
      [] link.scheme = "olcrtc"      -> parseOlcrtc(link)
      [] link.scheme = "tt"          -> parseTrustTunnel(link)
      [] OTHER                       -> None

(* The entries that could be read. *)
Parsed(proxies) ==
    EntriesAt(proxies, {i \in 1 .. Len(proxies) : proxies[i] # None})

----------------------------------------------------------------------------
(* Xray JSON. *)

extractXrayServer(outbound) == Get(outbound, "host", "")

(* A server whose path would not survive in a URL is left out. *)
isXrayUrlSafe(outbound) == Get(outbound, "safe", TRUE)

parseXrayOutbound(outbound) ==
    LET network == Get(outbound, "network", "tcp")
        tag     == Get(outbound, "tag", outbound.protocol)
        tls     == putXrayTls(Get(outbound, "security", ""))
        wire    == putXrayTransport(network, Get(outbound, "tuned", TRUE))
    IN  IF network \notin SINGBOX_TRANSPORTS
        THEN IF extractXrayServer(outbound) # "" /\ isXrayUrlSafe(outbound)
             THEN Bridged(outbound.protocol, tag, "xray", outbound)
             ELSE None
        ELSE IF ~Has(outbound, {"host", "user"}) THEN None
        ELSE IF outbound.protocol \in {"vless", "vmess", "trojan"}
        THEN Native(Outbound(outbound.protocol, tag, outbound, wire, tls))
        ELSE IF outbound.protocol = "shadowsocks"
        THEN Native(Outbound("shadowsocks", tag, outbound, "tcp", "none"))
        ELSE None

parseXrayConfig(json) ==
    Parsed([i \in 1 .. Len(json.outbounds) |->
              parseXrayOutbound(json.outbounds[i])])

(* The DNS servers the generator uses, where no Xray JSON named others. *)
defaultDns == [remote |-> "8.8.8.8", direct |-> "9.9.9.9"]

(***************************************************************************)
(* The resolvers an Xray JSON leaves behind for the generator: a variable  *)
(* of the parser, kept from one subscription to the next where a content   *)
(* has no DNS section of its own.                                          *)
(***************************************************************************)
DnsLeft(json, lastDns) ==
    IF Has(json, {"dns"})
    THEN [remote |-> Get(json.dns, "https", defaultDns.remote),
          direct |-> Get(json.dns, "ip", defaultDns.direct)]
    ELSE lastDns

----------------------------------------------------------------------------
(* AmneziaVPN: the first WireGuard container that holds a configuration    *)
(* decides alone; an Xray container is read where there is none.           *)

WithConfig(containers, field) ==
    {i \in 1 .. Len(containers) : field \in DOMAIN containers[i]}

FirstOf(indices) == CHOOSE i \in indices : \A j \in indices : i <= j

AmneziaIni(content) ==
    LET containers == content.containers
        i == FirstOf(WithConfig(containers, "ini"))
    IN  Extended(containers[i].ini, [name |-> content.description])

(* The Xray containers that hold a server. *)
Serving(containers) ==
    {i \in WithConfig(containers, "xray") : parseXrayConfig(containers[i].xray) # <<>>}

AmneziaXray(content) ==
    LET serving == Serving(content.containers)
    IN  IF serving = {} THEN None
        ELSE content.containers[FirstOf(serving)].xray

(* Every Xray container that is tried, up to the first that holds a server, *)
(* leaves its resolvers; the last of them that names any decides.           *)
AmneziaDns(content, lastDns) ==
    LET containers == content.containers
        naming == {i \in WithConfig(containers, "xray") :
                      /\ Has(containers[i].xray, {"dns"})
                      /\ \A j \in Serving(containers) : i <= j}
        last == CHOOSE i \in naming : \A j \in naming : j <= i
    IN  IF WithConfig(containers, "ini") # {} \/ naming = {} THEN lastDns
        ELSE DnsLeft(containers[last].xray, lastDns)

(* The Xray servers are called by the description, and by their number. *)
Numbered(proxies, description) ==
    [i \in 1 .. Len(proxies) |->
       [proxies[i] EXCEPT !.tag = IF i = 1 THEN description
                                  ELSE description \o " " \o ToString(i)]]

parseAmneziaVpn(content) ==
    LET ini  == parseWgIni(AmneziaIni(content))
        xray == AmneziaXray(content)
    IN  IF WithConfig(content.containers, "ini") # {}
        THEN IF ini = None THEN <<>> ELSE <<ini>>
        ELSE IF xray # None
        THEN Numbered(parseXrayConfig(xray), content.description)
        ELSE <<>>

----------------------------------------------------------------------------
(* The whole. *)

(* Our own link carries another content; one that does not decode is text. *)
decodeVpn4tvLink(content) ==
    IF content.form = "vpn4tv" THEN content.payload ELSE content

SINGBOX_PASSTHROUGH_TAG == "__singbox_passthrough__"

Passthrough(config) ==
    [tag |-> SINGBOX_PASSTHROUGH_TAG, type |-> "singbox",
     outbound |-> config, bridge |-> NoBridge]

(* The servers in a content, in its own order. *)
parseSubscription(content) ==
    LET source == decodeVpn4tvLink(content)
        ini    == parseWgIni(source)
    IN  CASE source.form = "amnezia" -> parseAmneziaVpn(source)
          [] source.form = "ini"     -> IF ini = None THEN <<>> ELSE <<ini>>
          [] source.form = "singbox" -> <<Passthrough(source.config)>>
          [] source.form = "xray"    -> parseXrayConfig(source)
          [] source.form \in {"base64", "lines"} ->
                Parsed([i \in 1 .. Len(source.lines) |->
                          parseLine(source.lines[i])])
          [] OTHER                   -> <<>>

(* The resolvers the parser has after reading it. *)
DnsAfter(content, lastDns) ==
    LET source == decodeVpn4tvLink(content) IN
    CASE source.form = "xray"    -> DnsLeft(source, lastDns)
      [] source.form = "amnezia" -> AmneziaDns(source, lastDns)
      [] OTHER                   -> lastDns
=============================================================================
