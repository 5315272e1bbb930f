----------------------------- MODULE ContentRules -----------------------------
(***************************************************************************)
(* What kilix_content makes of its inputs, before it acts on any of them:  *)
(* a catalog is built (CatalogBuild), an asset record is read and, when it *)
(* is accepted, its fetches planned (AssetRecord), an archive is extracted *)
(* (ArchiveExtract).                                                       *)
(***************************************************************************)
EXTENDS AssetRecord, ArchiveExtract, CatalogBuild

CONSTANTS RawRecord,  \* [source modes -> the asset records of each that are read]
          Member      \* the members archives are made of

ASSUME RecordAssumption == \A mode \in DOMAIN RawRecord : RawRecord[mode] \subseteq Record
ASSUME MemberAssumption == Member \subseteq [kind : Kind, inside : BOOLEAN, size : Int]

VARIABLES record,   \* the last asset record that was accepted, as parsed
          members,  \* the archive in hand
          outcome   \* what became of it

reading == <<record>>
unpacking == <<members, outcome>>
vars == <<catalogBuildVars, reading, unpacking>>

NoRecord == <<>>

Init == /\ BuildInit
        /\ record = NoRecord
        /\ members = <<>>
        /\ outcome = "open"

\* Each input is looked at on its own, from the initial state.
Idle == phase = "none"

BuildCatalog == /\ record = NoRecord /\ members = <<>>
                /\ BuildNext
                /\ UNCHANGED <<reading, unpacking>>

\* AssetSpec.from_mapping.
ReadRecord == /\ Idle /\ members = <<>> /\ record = NoRecord
              /\ \E mode \in DOMAIN RawRecord :
                   \E r \in RawRecord[mode] : Accepted(r) /\ record' = Parsed(r)
              /\ UNCHANGED <<catalogBuildVars, unpacking>>

\* An archive with one member more, of which one more than allowed is enough.
AddMember == /\ Idle /\ record = NoRecord
             /\ Len(members) <= MaxMembers
             /\ \E m \in Member : members' = Append(members, m)
             /\ outcome' = "open"
             /\ UNCHANGED <<catalogBuildVars, reading>>

\* safe_extract_tar or safe_extract_zip.
Extract == /\ Idle /\ record = NoRecord
           /\ \E format \in {"tar", "zip"} :
                outcome' = IF Extractable(format, members) THEN "extracted" ELSE "refused"
           /\ UNCHANGED <<catalogBuildVars, reading, members>>

Next == BuildCatalog \/ ReadRecord \/ AddMember \/ Extract

Spec == Init /\ [][Next]_vars
-----------------------------------------------------------------------------
\* Of a record that is accepted, what its mode fetches is what the manifest lists,
\* in places where each file can be put and the converter and the tree check look,
\* and all of it is named by the digest of its source.  Two kinds of records are
\* accepted without it: one that lists a path and a file beneath it, which no stage
\* can hold, and one whose converter writes among the files that are fetched.
AcceptedAssetIsUsable ==
  record # NoRecord /\ ~Nested(record) /\ ~InPlace(record) =>
    StagesItsFiles(record) /\ NamesItsObjects(record)

\* An archive that is extracted writes no more members and bytes than allowed, all
\* inside the destination, whatever sizes its headers state; one that would do so
\* is not refused, up to the very limits.
ExtractsWithinBudget ==
  /\ outcome = "extracted" => Bounded(members)
  /\ outcome = "refused" => ~(Bounded(members) /\ Sound(members))
=============================================================================
