------------------------------ MODULE SampleVault ------------------------------
(* tpot2cti-vault: files of the sensors' drop directories, kept once per      *)
(* content under /data/samples and indexed in SQLite.  The index is one       *)
(* transaction per sensor and cycle; the files on disk and the objects in     *)
(* OpenCTI are written on the way and stay when it rolls back.                *)
EXTENDS Naturals, FiniteSets

CONSTANTS
  Files,        \* files of all sensors
  DirOf,        \* <<sensor, honeypot>> of each
  Fragment,     \* the content of each while it is being written
  Content,      \* and once it is whole
  MaxTroubles   \* bound: failures and crashes

ASSUME VaultAssumption == MaxTroubles \in Nat

VARIABLES
  remote,       \* what each file holds on its sensor, or Missing
  disk,         \* /data/samples: "absent", "torn" or "whole" by content
  store,        \* seen_files and samples (capture_count) as committed
  draft,        \* as the open transaction sees them
  stixFiles,    \* contents published as StixFile
  sensor,       \* whose cycle runs, or NoSensor
  dirs,         \* its directories still to be listed
  listed,       \* files of the listed one still to be processed
  current,      \* the file under way and its content
  at,           \* "next", "copy", "insert", "publish", "bump", "mark"
  troubles

vaultVars == <<remote, disk, store, draft, stixFiles, sensor, dirs, listed, current, at, troubles>>

--------------------------------------------------------------------------------
Missing == "missing"
NoSensor == "none"
Sensors == {DirOf[f][1] : f \in Files}
Contents == {Content[f] : f \in Files} \cup {Fragment[f] : f \in Files}
None == [file |-> Missing, content |-> Missing]

HaveSeen(f) == \E p \in draft.seen : p[1] = f
HaveSampleOnDisk(c) == disk[c] # "absent"                            \* mutant
HaveSample(c) == draft.captures[c] > 0
Bumped(c) == [draft EXCEPT !.captures[c] = IF @ > 0 THEN @ + 1 ELSE @]

Trouble == troubles < MaxTroubles /\ troubles' = troubles + 1

(* The sensor *)
Write(f) ==
  /\ remote[f] # Content[f]
  /\ remote' = [remote EXCEPT ![f] = IF @ = Missing THEN Fragment[f] ELSE Content[f]]
  /\ UNCHANGED <<disk, store, draft, stixFiles, sensor, dirs, listed, current, at, troubles>>

(* run_cycle, list_dir *)
Visit(s) ==
  /\ sensor = NoSensor
  /\ sensor' = s
  /\ dirs' = {DirOf[f] : f \in {g \in Files : DirOf[g][1] = s}}
  /\ draft' = store /\ at' = "next"
  /\ UNCHANGED <<remote, disk, store, stixFiles, listed, current, troubles>>

List(d) ==
  /\ sensor # NoSensor /\ at = "next" /\ listed = {} /\ d \in dirs
  /\ dirs' = dirs \ {d}
  /\ \/ listed' = {f \in Files : DirOf[f] = d /\ remote[f] # Missing} /\ UNCHANGED troubles
     \/ UNCHANGED listed /\ Trouble
  /\ UNCHANGED <<remote, disk, store, draft, stixFiles, sensor, current, at>>

(* _process_file *)
Skip(f) ==
  /\ sensor # NoSensor /\ at = "next" /\ f \in listed /\ HaveSeen(f)
  /\ listed' = listed \ {f}
  /\ UNCHANGED <<remote, disk, store, draft, stixFiles, sensor, dirs, current, at, troubles>>

(* Download to /tmp, and what the content calls for.  /data is a mount of its *)
(* own, so the move into it copies.                                           *)
Download(f) ==
  LET c == remote[f] IN
  /\ sensor # NoSensor /\ at = "next" /\ f \in listed /\ ~HaveSeen(f)
  /\ current' = [file |-> f, content |-> c]
  /\ at' = CASE HaveSample(c) -> "bump"
             [] ~HaveSample(c) /\ disk[c] = "absent" -> "copy"
             [] OTHER -> "insert"
  /\ disk' = IF at' = "copy" THEN [disk EXCEPT ![c] = "torn"] ELSE disk
  /\ UNCHANGED <<remote, store, draft, stixFiles, sensor, dirs, listed, troubles>>

Copied ==
  /\ at = "copy"
  /\ disk' = [disk EXCEPT ![current.content] = "whole"]
  /\ at' = "insert"
  /\ UNCHANGED <<remote, store, draft, stixFiles, sensor, dirs, listed, current, troubles>>

Insert ==
  /\ at = "insert"
  /\ draft' = [draft EXCEPT !.captures[current.content] = 1]
  /\ at' = "publish"
  /\ UNCHANGED <<remote, disk, store, stixFiles, sensor, dirs, listed, current, troubles>>

(* publish_stixfile never raises and is tried once. *)
PublishOnce ==
  /\ at = "publish"
  /\ \/ stixFiles' = stixFiles \cup {current.content} /\ UNCHANGED troubles
     \/ UNCHANGED stixFiles /\ Trouble
  /\ at' = "mark"
  /\ UNCHANGED <<remote, disk, store, draft, sensor, dirs, listed, current>>

Bump ==
  /\ at = "bump"
  /\ draft' = Bumped(current.content)
  /\ at' = "mark"
  /\ UNCHANGED <<remote, disk, store, stixFiles, sensor, dirs, listed, current, troubles>>

MarkSeen ==
  /\ at = "mark"
  /\ draft' = [draft EXCEPT !.seen = @ \cup {<<current.file, current.content>>}]
  /\ listed' = listed \ {current.file} /\ current' = None /\ at' = "next"
  /\ UNCHANGED <<remote, disk, store, stixFiles, sensor, dirs, troubles>>

(* An exception per file: a download that breaks off, a disk that is full.    *)
(* What the transaction holds of the file stays in it.                        *)
FileFails(f) ==
  /\ sensor # NoSensor /\ Trouble
  /\ \/ at = "next" /\ f \in listed /\ ~HaveSeen(f)
     \/ at # "next" /\ f = current.file
  /\ listed' = listed \ {f} /\ current' = None /\ at' = "next"
  /\ UNCHANGED <<remote, disk, store, draft, stixFiles, sensor, dirs>>

CommitVisit ==
  /\ sensor # NoSensor /\ at = "next" /\ dirs = {} /\ listed = {}
  /\ store' = draft
  /\ sensor' = NoSensor
  /\ UNCHANGED <<remote, disk, draft, stixFiles, dirs, listed, current, at, troubles>>

(* The listing raises, or the process dies: the transaction is rolled back.   *)
VisitEnds ==
  /\ sensor # NoSensor /\ Trouble
  /\ sensor' = NoSensor /\ dirs' = {} /\ listed' = {} /\ current' = None /\ at' = "next"
  /\ UNCHANGED <<remote, disk, store, draft, stixFiles>>

VaultInit ==
  /\ remote = [f \in Files |-> Missing]
  /\ disk = [c \in Contents |-> "absent"]
  /\ store = [seen |-> {}, captures |-> [c \in Contents |-> 0]]
  /\ draft = store /\ stixFiles = {}
  /\ sensor = NoSensor /\ dirs = {} /\ listed = {} /\ current = None /\ at = "next"
  /\ troubles = 0

VaultNext ==
  \/ \E f \in Files : Write(f) \/ Skip(f) \/ Download(f) \/ FileFails(f)
  \/ \E s \in Sensors : Visit(s)
  \/ \E d \in dirs : List(d)
  \/ Copied \/ Insert \/ PublishOnce \/ Bump \/ MarkSeen
  \/ CommitVisit
  \/ VisitEnds

VaultSpec == VaultInit /\ [][VaultNext]_vaultVars

--------------------------------------------------------------------------------
(* A file is skipped for ever once it is marked, so a mark is only there with *)
(* the sample's row and its file, and capture_count is at least the number of *)
(* marks, and above it by no more than the files that failed on the way:      *)
(* whatever was rolled back after the copy.                                   *)
MarksOf(c) == {p \in store.seen : p[2] = c}
MarkedIsKept ==
  \A c \in Contents :
    /\ MarksOf(c) # {} => disk[c] # "absent" /\ store.captures[c] > 0
    /\ store.captures[c] - Cardinality(MarksOf(c)) \in 0..troubles

(* "shutil.move() is atomic on the same filesystem": every row has its sample *)
(* whole on disk.                                                             *)
StoredWhole == \A c \in Contents : store.captures[c] > 0 => disk[c] = "whole"
================================================================================
