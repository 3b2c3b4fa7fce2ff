-------------------------- MODULE MCChunkedPublish --------------------------
(***************************************************************************)
(* Small windows for ChunkedPublish.  ip, url and note are entities, sight *)
(* and geo edges; the second window meets the address and its edge again.  *)
(***************************************************************************)
EXTENDS ChunkedPublish

CONSTANTS ip, url, note, sight, geo

MCObjs == {ip, url, note, sight, geo}
MCPassOf == [o \in MCObjs |-> IF o \in {ip, url, note} THEN 2 ELSE 3]

\* Sightings and geo edges refer to the address.
EdgeRefs == [o \in MCObjs |-> IF o \in {sight, geo} THEN {ip} ELSE {}]

\* A sighting of the URL.
UrlRefs == [o \in MCObjs |-> IF o = sight THEN {url} ELSE EdgeRefs[o]]

TwoWindows == <<{ip, url, geo}, {ip, geo, sight}>>
Poisoned == <<{ip, url, sight}, {ip, note, sight, geo}>>
OneWindow == <<{ip, geo}>>

None == {}
OnlyUrl == {url}
OnlyIp == {ip}
OnlyGeo == {geo}
=============================================================================
