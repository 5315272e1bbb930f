----------------------------- MODULE CatalogBuild -----------------------------
(***************************************************************************)
(* Catalog.__init__ and Catalog.from_mapping of kilix_content/model.py:    *)
(* packages, then assets, then entries, one by one, each refused or added; *)
(* and what install.py asks of the result: Installer.ready_provided, which *)
(* takes the entries of one installation and refuses them unless they      *)
(* share its identity.                                                     *)
(***************************************************************************)
EXTENDS Naturals

CONSTANTS Id,        \* ids of packages, entries and assets, which share a syntax
          Source,    \* sources: their type, repository, ref, URLs and digest
          Build,     \* builds: their command and dependency hint
          Schema,    \* schema versions a catalog may state
          NoId,      \* "no package"
          None,      \* "not given"
          Unbuilt    \* the build of an entry that states none

ASSUME IdAssumption == NoId \notin Id
ASSUME BuildAssumption == None \notin Source \union Build /\ Unbuilt \in Build
ASSUME SchemaAssumption == Schema \subseteq Nat \ {0}

VARIABLES version,    \* schema_version
          byPackage,  \* [ids of packages -> their source and build]
          byAsset,    \* ids of the assets
          byId,       \* [ids of entries -> their package, source and build]
          phase       \* what is read, or "loaded" or "refused"

catalog == <<version, byPackage, byAsset, byId>>
catalogBuildVars == <<catalog, phase>>

Origin == [source : Source, build : Build]
Entry  == [package : Id \union {NoId}, source : Source, build : Build]
RawEntry == [package : Id \union {NoId}, source : Source \union {None},
             build : Build \union {None}]

EmptyCatalog == [i \in {} |-> None]

BuildInit == /\ version = 0
             /\ byPackage = EmptyCatalog
             /\ byAsset = {}
             /\ byId = EmptyCatalog
             /\ phase = "none"

\* A constructor is called, with a version it knows.
Start(v) == /\ phase = "none"
            /\ version' = v
            /\ phase' = "packages"
            /\ UNCHANGED <<byPackage, byAsset, byId>>

With(f, x, v) == [y \in DOMAIN f \union {x} |-> IF y = x THEN v ELSE f[y]]
Refuse == phase' = "refused" /\ UNCHANGED catalog

\* PackageSpec; schema version 1 has none.
AddPackage(id, origin) ==
  /\ phase = "packages"
  /\ \/ (version = 1 \/ id \in DOMAIN byPackage) /\ Refuse
     \/ /\ version # 1 /\ id \notin DOMAIN byPackage
        /\ byPackage' = With(byPackage, id, origin)
        /\ UNCHANGED <<version, byAsset, byId, phase>>

\* AssetSpec, from schema version 4 on.
AddAsset(id) ==
  /\ phase = "assets"
  /\ \/ (version < 4 \/ id \in byAsset) /\ Refuse
     \/ /\ version >= 4 /\ id \notin byAsset
        /\ byAsset' = byAsset \union {id}
        /\ UNCHANGED <<version, byPackage, byId, phase>>

\* PackageSpec.supplies.
Supplies(id, entry) == /\ entry.source = byPackage[id].source
                       /\ entry.build = byPackage[id].build

\* Mutant: an entry of its own may have the id of a package.
MutFits(id, entry) ==
  /\ id \notin DOMAIN byId
  /\ id \notin byAsset
  /\ entry.package # NoId => entry.package \in DOMAIN byPackage
                            /\ Supplies(entry.package, entry)

\* The checks of Catalog.__init__ on one entry.
Fits(id, entry) ==
  /\ id \notin DOMAIN byId
  /\ id \notin byAsset
  /\ id \in DOMAIN byPackage => entry.package = id
  /\ entry.package # NoId => entry.package \in DOMAIN byPackage
                            /\ Supplies(entry.package, entry)

\* A ContentSpec made by the caller.
AddEntry(id, entry) ==
  /\ phase = "entries"
  /\ \/ ~Fits(id, entry) /\ Refuse
     \/ /\ Fits(id, entry)
        /\ byId' = With(byId, id, entry)
        /\ UNCHANGED <<version, byPackage, byAsset, phase>>

\* ContentSpec.from_mapping: a package's entry takes everything from it.
Flat(raw) ==
  IF raw.package # NoId
  THEN [raw EXCEPT !.source = byPackage[raw.package].source,
                   !.build = byPackage[raw.package].build]
  ELSE [raw EXCEPT !.build = IF @ = None THEN Unbuilt ELSE @]

WellFormed(raw) ==
  \/ /\ raw.package # NoId /\ raw.source = None /\ raw.build = None
     /\ raw.package \in DOMAIN byPackage
  \/ raw.package = NoId /\ raw.source # None

ReadEntry(id, raw) ==
  \/ phase = "entries" /\ ~WellFormed(raw) /\ Refuse
  \/ WellFormed(raw) /\ AddEntry(id, Flat(raw))

Turn(from, to) == phase = from /\ phase' = to /\ UNCHANGED catalog

\* A package nothing was read from is refused at the end.
Load ==
  /\ phase = "entries"
  /\ \/ DOMAIN byPackage \ {byId[i].package : i \in DOMAIN byId} # {} /\ Refuse
     \/ /\ DOMAIN byPackage \subseteq {byId[i].package : i \in DOMAIN byId}
        /\ Turn("entries", "loaded")

BuildNext ==
  \/ \E v \in Schema : Start(v)
  \/ \E id \in Id, origin \in Origin : AddPackage(id, origin)
  \/ Turn("packages", "assets")
  \/ \E id \in Id : AddAsset(id)
  \/ Turn("assets", "entries")
  \/ \E id \in Id, entry \in Entry : AddEntry(id, entry)
  \/ \E id \in Id, raw \in RawEntry : ReadEntry(id, raw)
  \/ Load

BuildSpec == BuildInit /\ [][BuildNext]_catalogBuildVars
-----------------------------------------------------------------------------
\* ContentSpec.install_id and Catalog.provided_by.
InstallId(i) == IF byId[i].package # NoId THEN byId[i].package ELSE i
ProvidedBy(install) == {i \in DOMAIN byId : InstallId(i) = install}

\* Installer.ready_provided finds one identity (it may raise for other reasons, such
\* as an id that is no path component).
OneIdentity(ids) == \A i, j \in ids : /\ byId[i].source = byId[j].source
                                      /\ byId[i].build = byId[j].build

\* However a catalog was made, from a file or from specs a caller put together,
\* the entries that share an installation share its source and build, so they pass
\* ready_provided's comparison of identities, and no asset has the id of one of them.
OneOwner == /\ \A install \in Id : OneIdentity(ProvidedBy(install))
            /\ byAsset \intersect DOMAIN byId = {}
=============================================================================
