---- MODULE MCSoloRun ----
EXTENDS SoloRun

MCActiveSets == {{"throttling", "middlebox"}, {"http", "throttling"}, {"tls"},
                 {"http", "tcp"}, {"dns"}, {"cloudflare"}, {"telegram"}}
MCReportSets == {<<>>, <<[vless |-> "OK", wireguard |-> "HANDSHAKE_ONLY"], [vless |-> "BLOCKED"]>>}
MCEntryWeights == [protocol |-> 60, uplink |-> 30, latency |-> 10]
MCExitWeights == [uplink |-> 60, censorship |-> 40]
MCRelayWeights == [tcp |-> 70, latency |-> 30]
====
