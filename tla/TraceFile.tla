------------------------------ MODULE TraceFile ------------------------------
(***************************************************************************)
(* The trace file over several recordings: `cli record` writes to           *)
(* trace.bin unless told otherwise, so one recording follows another into   *)
(* the same file, and each may be killed while it writes.  A `cli replay`   *)
(* may read the file in any state of this module.                           *)
(*                                                                         *)
(* Recordings into one file do not overlap in time (an assumption on the    *)
(* user: nothing in the code prevents it).                                  *)
(***************************************************************************)
EXTENDS StateHash

CONSTANTS
  Archives,       \* recording -> the archive it saves
  Encodings(_),   \* archive -> what bincode::serialize may yield for it, as words
  Load(_)         \* what bincode::deserialize makes of the words of a file

Recordings == DOMAIN Archives

NoOne == 0

\* What is asked of the codec, about one archive at a time: an encoding is read
\* back as the archive, and no proper part from its start is accepted.
RoundTrip(words, archive) == Load(words).ok /\ Load(words).val = archive

NoPartLoads(words) == \A n \in 0..(Len(words) - 1) : ~Load(SubSeq(words, 1, n)).ok

ASSUME ArchivesAssumption ==
  /\ NoOne \notin Recordings
  /\ \A r \in Recordings : LET gpas == DOMAIN Archives[r].memory_regions
                           IN gpas \subseteq Nat /\ IsFiniteSet(gpas)

ASSUME CodecAssumption ==
  /\ ~Load(<<>>).ok
  /\ \A r \in Recordings : \A words \in Encodings(Archives[r]) :
       words \in Seq(Nat) /\ RoundTrip(words, Archives[r]) /\ NoPartLoads(words)

VARIABLES
  file,     \* the words on disk
  pc,       \* per recording: "idle", "writing", "saved" or "killed"
  encoded,  \* the words of the recording that writes, or wrote last
  pos,      \* how many of them it has written
  owner     \* the recording that opened the file last

vars == <<file, pc, encoded, pos, owner>>

Init ==
  /\ file = <<>>
  /\ pc = [r \in Recordings |-> "idle"]
  /\ encoded = <<>> /\ pos = 0
  /\ owner = NoOne

\* Seeded fault: the file is opened without being truncated.
OpenOver(r) ==
  /\ pc[r] = "idle" /\ \A q \in Recordings : pc[q] # "writing"
  /\ encoded' \in Encodings(Archives[r])
  /\ pc' = [pc EXCEPT ![r] = "writing"]
  /\ owner' = r /\ pos' = 0
  /\ UNCHANGED file

\* bincode::serialize, and File::create in fs::write.
Open(r) ==
  /\ pc[r] = "idle" /\ \A q \in Recordings : pc[q] # "writing"
  /\ encoded' \in Encodings(Archives[r])
  /\ file' = <<>>
  /\ pc' = [pc EXCEPT ![r] = "writing"]
  /\ owner' = r /\ pos' = 0

\* write_all: the words go to the file from the start, one at a time.
Write(r) ==
  /\ pc[r] = "writing"
  /\ file' = [k \in 1..Max({pos + 1, Len(file)}) |->
                IF k = pos + 1 THEN encoded[k] ELSE file[k]]
  /\ pos' = pos + 1
  /\ pc' = IF pos + 1 = Len(encoded) THEN [pc EXCEPT ![r] = "saved"] ELSE pc
  /\ UNCHANGED <<encoded, owner>>

Kill(r) ==
  /\ pc[r] = "writing"
  /\ pc' = [pc EXCEPT ![r] = "killed"]
  /\ UNCHANGED <<file, encoded, pos, owner>>

Next == \E r \in Recordings : Open(r) \/ Write(r) \/ Kill(r)

Spec == Init /\ [][Next]_vars

-----------------------------------------------------------------------------
(* The file can be replayed exactly while the recording that opened it last  *)
(* has saved all of its words, and then yields that recording's archive,     *)
(* whatever the order of the HashMap in either process: no state of a write, *)
(* no kill and no longer or shorter earlier archive makes bincode accept a   *)
(* part or a mixture.                                                        *)
LoadableIffSaved ==
  LET loaded == Load(file) IN
  IF owner # NoOne /\ pc[owner] = "saved"
  THEN loaded.ok /\ loaded.val = Archives[owner]
  ELSE ~loaded.ok

(* The hash of a snapshot is the same in the process that took it and in one *)
(* that loaded it, although their HashMaps yield the regions in unrelated    *)
(* orders.                                                                   *)
HashSurvivesTheFile ==
  LET loaded == Load(file) IN
  loaded.ok =>
    \A mine \in Orders(loaded.val), theirs \in Orders(Archives[owner]) :
      hash_state(loaded.val, mine) = hash_state(Archives[owner], theirs)
=============================================================================
