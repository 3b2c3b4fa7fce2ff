----------------------------- MODULE MCCycleBundle -----------------------------
(* A window whose sessions meet on addresses, commands, files, keys and URLs. *)
EXTENDS CycleBundle, TLC

None == {}
Base ==
  [type |-> "Cowrie", ip |-> {"a"}, sensor |-> "s1", sid |-> "1", n |-> 1,
   first |-> 1, last |-> 1, ports |-> 1, payload |-> FALSE, auth |-> FALSE,
   creds |-> 0, commands |-> None, fetches |-> None, files |-> None,
   downloads |-> None, urls |-> None, requests |-> None, domains |-> None,
   hassh |-> None, ja3 |-> None, authKeys |-> None, planted |-> None,
   attackTypes |-> None, cves |-> None, techniques |-> None, meta |-> FALSE,
   protoRequests |-> FALSE, country |-> None, city |-> None, asn |-> None,
   ics |-> None, intlDial |-> FALSE, hosts |-> None, dst |-> None,
   reputation |-> 0, mayFail |-> FALSE, c2 |-> None]
Ics(tier, write, snmp, bulk, lab, proto) ==
  {[tier |-> tier, write |-> write, snmpOnly |-> snmp, bulkOnly |-> bulk,
    allowlisted |-> FALSE, labels |-> lab, protocols |-> proto]}

Shell == [Base EXCEPT !.n = 3, !.last = 3, !.auth = TRUE, !.creds = 2,
  !.commands = {"run"}, !.files = {"h1"}, !.downloads = {<<"u1", "h1">>},
  !.urls = {"u1", "bad"}, !.domains = {"d1", "own"}, !.hassh = {"k1"},
  !.planted = {"k2"}, !.country = {"nl"}, !.city = {"adam"}, !.asn = {"as1"}]
Again == [Base EXCEPT !.ip = {"b"}, !.sid = "2", !.n = 2, !.first = 2, !.last = 5,
  !.commands = {"run"}, !.files = {"h1"}, !.hassh = {"k1"}, !.authKeys = {"k2"},
  !.mayFail = TRUE]
Alert == [Base EXCEPT !.type = "Suricata", !.sid = "3", !.first = 2, !.last = 2,
  !.cves = {"cve"}, !.techniques = {"T1190"}, !.hosts = {"d1"}, !.dst = {"b"},
  !.requests = {"u2"}]
Probe == [Base EXCEPT !.type = "Honeytrap", !.ip = {"b"}, !.sid = "4",
  !.payload = TRUE, !.files = {"h2"}, !.downloads = {<<"u1", "h2">>}]
Bare == [Base EXCEPT !.type = "Honeytrap", !.ip = {"c"}, !.sid = "5"]
Page == [Base EXCEPT !.type = "Galah", !.sid = "6", !.n = 2, !.first = 0,
  !.attackTypes = {"rce"}, !.cves = {"cve"}, !.requests = {"u2"}, !.urls = {"u1", "u3"}]
Call == [Base EXCEPT !.type = "Sentrypeer", !.ip = {"c"}, !.sid = "7", !.n = 3,
  !.protoRequests = TRUE]
Abroad == [Call EXCEPT !.sid = "8", !.intlDial = TRUE, !.first = 4, !.last = 4]
Meter == [Base EXCEPT !.type = "ConPot", !.ip = {"e"}, !.sid = "9", !.n = 3,
  !.ics = Ics("interaction", FALSE, FALSE, FALSE, {"ics"}, {"modbus"})]
Valve == [Meter EXCEPT !.sid = "10", !.first = 6, !.last = 7,
  !.ics = Ics("interaction", TRUE, FALSE, FALSE, {"ics", "ics:write"}, {"s7comm"})]
Flood == [Meter EXCEPT !.ip = {"f"}, !.sid = "11",
  !.ics = Ics("none", FALSE, TRUE, TRUE, {}, {})]
Walk == [Flood EXCEPT !.ip = {"g"}, !.sid = "12",
  !.ics = Ics("none", FALSE, TRUE, FALSE, {}, {})]
Tls == [Base EXCEPT !.type = "Fatt", !.sid = "13", !.hassh = {"k1"}, !.ja3 = {"k3"}]
Odd == [Base EXCEPT !.type = "__fallback__", !.ip = None, !.sid = "14", !.payload = TRUE]
Drop == [Base EXCEPT !.type = "Adbhoney", !.ip = {"b"}, !.sid = "15",
  !.commands = {"recon"}, !.files = {"h1"}, !.domains = {"d1"}, !.urls = {"u1"}]
Telnet == [Base EXCEPT !.type = "Router", !.ip = {"e"}, !.sid = "16", !.commands = {"run"},
  !.fetches = {<<"u1", "d1", "name">>, <<"bad", "d2", "name">>, <<"u3", "b", "address">>}]
Jndi == [Base EXCEPT !.type = "H0neytr4p", !.ip = None, !.sid = "17", !.c2 = {"u1"},
  !.urls = {"u2"}, !.domains = {"d1"}, !.cves = {"cve"}, !.attackTypes = {"rce"}]
Ours == [Jndi EXCEPT !.sid = "18", !.c2 = {"bad"}]

Mode(m, d, e) ==
  [mode |-> m, decoupled |-> d, refuseIcs |-> e, inbound |-> e, dropRecon |-> e,
   generic |-> ~e, strict |-> FALSE]

mcWindows == {{Shell, Again, Alert, Page, Drop, Tls, Probe, Bare},
              {Alert, Call, Abroad, Meter, Valve, Flood, Walk, Telnet, Odd}}
mcSalvaged == {Jndi, Ours}
mcConfigs == {Mode("enforce", TRUE, TRUE), Mode("shadow", FALSE, FALSE)}
mcMalformed == {"bad"}
mcOwnHosts == {"own"}
mcEsCounts == (<<"b", "s1">> :> 9)
================================================================================
