--------------------------- MODULE PackagedCatalog ---------------------------
(***************************************************************************)
(* The packaged catalog of kilix_content: verified_packaged_catalog, which *)
(* parses the bytes whose digest receipt.verified_catalog_bytes compared,  *)
(* and default_catalog, which parses what it finds and keeps that for the  *)
(* life of the process.  The file may be replaced at any time by an        *)
(* upgrade or an edit.                                                     *)
(***************************************************************************)
EXTENDS Naturals

CONSTANTS Version,    \* contents the catalog file may have
          Release,    \* the one whose digest is _CATALOG_SHA256
          NoVersion   \* "nothing read"

ASSUME ReleaseAssumption == Release \in Version /\ NoVersion \notin Version

VARIABLES file,     \* catalog/plebian.json
          frozen,   \* the asset schema is the frozen one
          cache,    \* what default_catalog() keeps
          payload,  \* the bytes read and verified
          parsed,   \* the verified catalog the caller was given
          load      \* where verified_packaged_catalog() is

catalogVars == <<file, frozen, cache, payload, parsed, load>>

CatalogTypeOK == /\ file \in Version
                 /\ frozen \in BOOLEAN
                 /\ {cache, payload, parsed} \subseteq Version \union {NoVersion}
                 /\ load \in {"idle", "schema", "bytes", "parse", "given", "refused"}

CatalogInit == /\ file \in Version
               /\ frozen = TRUE
               /\ cache = NoVersion
               /\ payload = NoVersion
               /\ parsed = NoVersion
               /\ load = "idle"
-----------------------------------------------------------------------------
\* verified_catalog_bytes: the schema first,
ReadSchema ==
  /\ load = "schema"
  /\ load' = IF frozen THEN "bytes" ELSE "refused"
  /\ UNCHANGED <<file, frozen, cache, payload, parsed>>

\* then the catalog, read once.
ReadBytes ==
  /\ load = "bytes"
  /\ \/ file = Release /\ payload' = file /\ load' = "parse"
     \/ file # Release /\ load' = "refused" /\ UNCHANGED payload
  /\ UNCHANGED <<file, frozen, cache, parsed>>

\* Mutant: the file is opened again to be parsed.
MutParseFile ==
  /\ load = "parse"
  /\ parsed' = file
  /\ payload' = NoVersion
  /\ load' = "given"
  /\ UNCHANGED <<file, frozen, cache>>

\* verified_packaged_catalog parses what was verified.
Parse ==
  /\ load = "parse"
  /\ parsed' = payload
  /\ payload' = NoVersion
  /\ load' = "given"
  /\ UNCHANGED <<file, frozen, cache>>

Verify == ReadSchema \/ ReadBytes \/ Parse

\* Mutant: the cache is looked at and never filled.
MutCached == cache

\* default_catalog, lru_cache(maxsize=1).
Cached == IF cache = NoVersion THEN file ELSE cache

\* An upgrade or an edit replaces a packaged file.
ReplaceFile ==
  /\ \/ file' \in Version \ {file} /\ UNCHANGED frozen
     \/ frozen' = ~frozen /\ UNCHANGED file
  /\ UNCHANGED <<cache, payload, parsed, load>>
=============================================================================
