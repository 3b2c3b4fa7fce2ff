------------------------------- MODULE MCSidecars ------------------------------
(* The processes beside the importer.  They share no state, so a behaviour    *)
(* lets one of them move: interleaving them shows nothing more.               *)
(*   credentials  instants 0 to 5, two a second; four documents, two of one     *)
(*                source, one without a field                                 *)
(*   malware      three samples, two of one family, one without a hash        *)
(*   vault        two sensors; one file fetched half written, two of a kind   *)
(*   blocklists   three lists, one of which never answers                     *)
EXTENDS CredentialWindow, MalwareIngest, SampleVault, BlocklistRefresh

VARIABLE who

vars == <<credentialVars, ingestVars, vaultVars, blocklistVars, who>>

mcCredentialOf == [d \in Documents |-> IF d = "d4" THEN Unparsed ELSE "admin"]
mcSourceOf == [d \in Documents |-> IF d = "d2" THEN "b" ELSE "a"]
mcFamilyOf == [s \in Samples |-> IF s = 2 THEN NoFamily ELSE "mirai"]
mcDirOf == [f \in Files |-> IF f = "f3" THEN <<"s2", "cowrie">> ELSE
                            <<"s1", IF f = "f1" THEN "cowrie" ELSE "dionaea">>]
mcFragment == [f \in Files |-> IF f = "f2" THEN "half" ELSE "alpha"]
mcContent == [f \in Files |-> IF f = "f2" THEN "beta" ELSE "alpha"]

Init ==
  /\ CredentialInit /\ IngestInit /\ VaultInit /\ BlocklistInit
  /\ who \in {"credentials", "malware", "vault", "blocklists"}

Next ==
  /\ UNCHANGED who
  /\ \/ /\ who = "credentials" /\ CredentialNext
        /\ UNCHANGED <<ingestVars, vaultVars, blocklistVars>>
     \/ /\ who = "malware" /\ IngestNext
        /\ UNCHANGED <<credentialVars, vaultVars, blocklistVars>>
     \/ /\ who = "vault" /\ VaultNext
        /\ UNCHANGED <<credentialVars, ingestVars, blocklistVars>>
     \/ /\ who = "blocklists" /\ BlocklistNext
        /\ UNCHANGED <<credentialVars, ingestVars, vaultVars>>

Spec == Init /\ [][Next]_vars
================================================================================
