-------------------------- MODULE RussiaDirectRules --------------------------
(***************************************************************************)
(* The "Russia direct" block written into a profile at its start           *)
(* (src/src/main/vpn4tv/russiaDirect.ts).  Names are kinds of names: a     *)
(* list of names is the set of the kinds it matches.                       *)
(***************************************************************************)
EXTENDS ConfigGenerator

CONSTANTS
    RU_SUFFIXES,         \* the kinds of names the built-in suffixes match
    GEOSITE,             \* ... the geosite rule set
    RU_VPN_EXCEPTIONS    \* ... the built-in exceptions

insertAt(array, at, items) ==
    SubSeq(array, 1, at - 1) \o items \o SubSeq(array, at, Len(array))

(* The first of the places found, or the place after the last rule. *)
Ahead(rules, found) == IF found = {} THEN Len(rules) + 1 ELSE FirstOf(found)

isUdpRefusalRule(rule) == rule \in {ntpDirectRule, udpRejectRule}

\* Variant: after the rules already there.
routeInsertionAtEnd(rules) == Len(rules) + 1

(* Ahead of the per-app rule, else of the refusal of UDP, else at the end. *)
routeInsertionIndex(rules) ==
    Ahead(rules, {i \in 1 .. Len(rules) : \/ Has(rules[i], {"process"})
                                          \/ isUdpRefusalRule(rules[i])})

isHttpsReject(rule) ==
    /\ Get(rule, "action", "route") = "reject"
    /\ Get(rule, "query", {}) = {"HTTPS", "SVCB"}

\* Variant: the rules that give out fake addresses alone.
isFakeIpRule(rule) == Get(rule, "server", "") = "dns-fakeip"

isFakeDnsRule(rule) ==
    Get(rule, "server", "") = "dns-fakeip" \/ isHttpsReject(rule)

(* Ahead of the first rule of FakeDNS, else at the end. *)
dnsInsertionIndex(rules) ==
    Ahead(rules, {i \in 1 .. Len(rules) : isFakeDnsRule(rules[i])})

TagsOf(entries) == {entries[i].tag : i \in 1 .. Len(entries)}

(* A profile of another shape, or one that has the block, is left alone. *)
russiaDirectNotOurs(config) ==
    LET Of(type, tag) == \E i \in 1 .. Len(config.outbounds) :
                            /\ config.outbounds[i].type = type
                            /\ config.outbounds[i].tag = tag
        servers == TagsOf(config.dns.servers)
    IN  \/ ~Of("selector", "select")
        \/ ~Of("direct", "direct")
        \/ ~({"dns-remote", "dns-direct"} \subseteq servers)
        \/ "dns-ru" \in servers
        \/ {"geosite", "geoip"} \cap config.route.rule_set # {}
        \/ \E i \in 1 .. Len(config.route.rules) :
              Get(config.route.rules[i], "protocol", "") = "bittorrent"

(* A DNS rule with a field the core refuses beside the block's own rules.  *)
(* The parts of a logical rule are plain rules.                            *)
legacyField(rule) ==
    LET Legacy(part) == \/ Get(part, "strategy", "as_is") # "as_is"
                        \/ Get(part, "accept_empty", FALSE)
                        \/ /\ ~Get(part, "match_response", FALSE)
                           /\ {"addresses", "rule_set"} \cap DOMAIN part # {}
    IN  Legacy(rule) \/ \E part \in Get(rule, "all", {}) : Legacy(part)

legacyDnsReason(config) ==
    \E i \in 1 .. Len(config.dns.rules) : legacyField(config.dns.rules[i])

(***************************************************************************)
(* The block.  "options" is [off, sets, fallback, extra]: not wanted; the  *)
(* rule sets are usable; dns-ru did not answer; the kinds of names the     *)
(* subscription server keeps on the VPN.  M, "a Russian name", and E, "not *)
(* an exception", are rules of their own, and "all" is the logical AND.    *)
(***************************************************************************)
M(options) ==
    IF options.sets
    THEN [names |-> RU_SUFFIXES \cup GEOSITE, rule_set |-> {"geosite"}]
    ELSE [names |-> RU_SUFFIXES]

E(options) ==
    [names |-> RU_VPN_EXCEPTIONS \cup options.extra, invert |-> TRUE]

TorrentRule == [protocol |-> "bittorrent", outbound |-> "direct"]

RouteRules(options) ==
    <<TorrentRule, [all |-> {M(options), E(options)}, outbound |-> "direct"]>>
    \o (IF options.sets
        THEN <<[all |-> {[rule_set |-> {"geoip"}, addr |-> {"ru4", "ru6"}],
                         E(options), [ip_version |-> 4]},
                outbound |-> "direct"]>>
        ELSE <<>>)

DnsRules(options) ==
    <<[all    |-> {[query |-> {"AAAA", "HTTPS", "SVCB"}], M(options),
                   E(options)},
       action |-> "predefined"],
      [all    |-> {M(options), E(options)},
       server |-> IF options.fallback THEN "dns-direct" ELSE "dns-ru"]>>

WithTorrents(config) ==
    [config EXCEPT !.route.rules =
        insertAt(@, routeInsertionIndex(@), <<TorrentRule>>)]

WithBlock(config, options) ==
    [config EXCEPT
        !.route.rules = insertAt(@, routeInsertionIndex(@), RouteRules(options)),
        !.route.rule_set = @ \cup (IF options.sets THEN {"geosite", "geoip"}
                                   ELSE {}),
        !.dns.servers = @ \o (IF options.fallback THEN <<>>
                              ELSE <<[tag |-> "dns-ru", type |-> "tcp",
                                      server |-> "77.88.8.8"]>>),
        !.dns.rules = insertAt(@, dnsInsertionIndex(@), DnsRules(options))]

applyRussiaDirect(config, options) ==
    IF russiaDirectNotOurs(config) THEN config
    ELSE IF options.off \/ legacyDnsReason(config) THEN WithTorrents(config)
    ELSE WithBlock(config, options)
=============================================================================
