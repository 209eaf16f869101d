---------------------------- MODULE RawCollection ----------------------------
(***************************************************************************)
(* The two batch workflows of raw collection at work side by side, over    *)
(* one Data service, the same channels and one object store: executions    *)
(* start, overlap, die anywhere and are repeated under the same run id.    *)
(* Sources: src/workflows/raw_collection_v2.py,                            *)
(* src/capabilities/collection{,_v2}/functions/collection.py.              *)
(***************************************************************************)
EXTENDS RawArchive, RawArtifacts

vars == <<scenario, batches, store, exec, archiveVars, artifactVars>>

Init == AcquisitionInit /\ ArchiveInit /\ ArtifactInit

Begins(e) ==
  \/ StartArchive(e) /\ UNCHANGED artifactVars
  \/ StartStaged(e) /\ UNCHANGED archiveVars

\* What an execution does on its own.
Works(e) ==
  \/ LoadSnapshot(e) /\ UNCHANGED <<archiveVars, artifactVars>>
  \/ Fetch(e) /\ UNCHANGED <<archiveVars, artifactVars>>
  \/ ArchiveStep(e) /\ UNCHANGED artifactVars
  \/ ArtifactStep(e) /\ UNCHANGED archiveVars

\* An exception that ends the run, or a kill: memory and locks go, files stay.
Die(e) ==
  /\ exec[e].pc \notin {"idle", "ended"}
  /\ End(e)
  /\ UNCHANGED <<scenario, batches, store, archiveVars, artifactVars>>

Next == \E e \in Exec : Begins(e) \/ Works(e) \/ Die(e)

Spec == Init /\ [][Next]_vars

-----------------------------------------------------------------------------
ExecType ==
  [pc : {"idle", "snapshot", "fetch", "publish", "ended"} \cup Staging \cup Publishing,
   run : Run \cup {NoFile}, pending : SUBSET Codes, got : SUBSET BatchType,
   failed : SUBSET Codes, todo : SUBSET CandidateType, hand : CandidateType \cup {NoFile},
   asked : SUBSET CandidateIds, items : SUBSET ItemType]

FilesType ==
  /\ batches \in [Run -> SUBSET BatchType]
  /\ acquisition \in [Run -> AcquisitionType \cup {NoFile}]
  /\ manifest \in [Run -> ArchiveManifestType \cup {NoFile}]
  /\ archived \in SUBSET Versions
  /\ \A r \in Run : DOMAIN omissions[r] \subseteq CandidateIds
  /\ \A r \in Run : \A id \in DOMAIN omissions[r] : omissions[r][id] \in Nat
  /\ staged \in [Run -> StagedType \cup {NoFile}]
  /\ ledger \in [Run -> LedgerType \cup {NoFile}]
  /\ published \in [Run -> ManifestType \cup {NoFile}]
  /\ index \in SUBSET {Line(c) : c \in CandidateType}
  /\ feed \in SUBSET [run : Run, manifest : ManifestType]

TypeOK ==
  /\ scenario \in Scenarios
  /\ exec \in [Exec -> ExecType]
  /\ \A e \in Exec : exec[e].pc \notin {"idle", "ended"} => exec[e].run \in Run
  /\ FilesType
  /\ DOMAIN curation = Run /\ DOMAIN omissions = Run

RawInv == TypeOK /\ ArchiveInv /\ ArtifactInv
=============================================================================
