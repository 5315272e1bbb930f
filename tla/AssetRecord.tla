------------------------------ MODULE AssetRecord ------------------------------
(***************************************************************************)
(* The asset/v3 record: AssetSpec.from_mapping of kilix_content/model.py,  *)
(* which accepts a record or refuses it; what _populate_upstream_asset of  *)
(* install.py then fetches for it, and where to; and source_objects_sha256 *)
(* of model.py, which names the upstream objects.  The record's modes keep *)
(* their fields in one shape: url and pin are the archive's, the converted *)
(* input's or the registry manifest's, fetch is fetch or blobs.            *)
(***************************************************************************)
EXTENDS Naturals, Sequences, SequencesExt

CONSTANTS Named,      \* paths as they are written in records
          Plain,      \* those that are plain file names
          Notices,    \* those under notices/, once normalised
          Escaping,   \* those os.path.normpath leads out of the directory
          Normal,     \* [Named -> Named], what os.path.normpath makes of the others
          Beneath,    \* pairs of paths of which the second is a directory of the first
          Pin,        \* digests and sizes of fetched bytes
          NoPath,     \* the optional path of a converted input that has none
          Host,       \* [URLs -> their hosts]
          Pinned,     \* URLs whose host asks for a commit and finds one, and all others
          Ours        \* URLs the project hosts itself

ASSUME PathAssumption ==
  /\ Plain \union Notices \union Escaping \subseteq Named /\ NoPath \notin Named
  /\ Normal \in [Named -> Named] /\ \A p \in Named : Normal[Normal[p]] = Normal[p]
ASSUME BeneathAssumption == Beneath \subseteq (Named \ Plain) \X Named
ASSUME PinAssumption == NoPath \notin Pin
ASSUME UrlAssumption == Pinned \union Ours \subseteq DOMAIN Host

\* A record as it is written; as parsed, it has its paths normalised.
Url    == DOMAIN Host
File   == [path : Named, pin : Pin]
Item   == [path : Named, url : Url]
Input  == [path : Named, url : Url, pin : Pin, prov : Url \union {NoPath}]
Record == [mode : {"archive", "files", "convert", "registry"}, files : Seq(File),
           url : Url, pin : Pin, path : Named \union {NoPath}, fetch : Seq(Item),
           inputs : Seq(Input), prov : Url, owned : BOOLEAN]
-----------------------------------------------------------------------------
(* AssetSpec.from_mapping                                                  *)

\* _https_url; the exceptions of the owner's own models are `allowed`.
UrlOk(u, allowed) == u \in Pinned /\ (u \in Ours => allowed)

\* _require_provenance_host.
SameHost(u, v) == Host[u] = Host[v]

\* _relative_path.
Relative(p) == p \notin Escaping

\* _input_name.
InputName(p) == p \in Plain

Distinct(seq) == IsInjective(seq)
Paths(items) == [i \in DOMAIN items |-> items[i].path]
Normalised(items) == [i \in DOMAIN items |-> [items[i] EXCEPT !.path = Normal[@]]]
WithoutNotices(files) == {f \in ToSet(files) : f.path \notin Notices}
Listed(s) == {f.path : f \in WithoutNotices(s.files)}
Fetched(s) == ToSet(Paths(s.fetch))

\* AssetFileSpec.from_mapping for each file; a path is listed once.
FilesOk(r) == /\ r.files # <<>>
              /\ \A f \in ToSet(r.files) : Relative(f.path)
              /\ Distinct(Paths(Normalised(r.files)))

ItemsOk(r, allowed, proven) ==
  \A i \in ToSet(r.fetch) : /\ Relative(i.path)
                            /\ UrlOk(i.url, allowed)
                            /\ proven => SameHost(i.url, r.prov)

\* The paths and pins as the AssetSpec keeps them.
Parsed(r) == [r EXCEPT !.files = Normalised(@), !.fetch = Normalised(@),
                       !.path = IF @ = NoPath THEN NoPath ELSE Normal[@]]

ArchiveOk(r) == UrlOk(r.url, r.owned) /\ SameHost(r.url, r.prov)

FetchOk(r) == /\ r.fetch # <<>>
              /\ ItemsOk(r, r.owned, TRUE)
              /\ Fetched(Parsed(r)) = Listed(Parsed(r))

\* One of the extra inputs, which may have a provenance of its own.
ExtraInputOk(r, i) ==
  /\ InputName(i.path)
  /\ UrlOk(i.url, FALSE)
  /\ IF i.prov = NoPath THEN SameHost(i.url, r.prov)
                        ELSE UrlOk(i.prov, FALSE) /\ SameHost(i.url, i.prov)

Names(s) == <<s.path>> \o Paths(s.inputs)

\* Mutant: the main input's name is not compared with the others.
MutInputsOk(s) ==
  /\ s.fetch = <<>>
  /\ s.path # NoPath /\ InputName(s.path)
  /\ Distinct(Paths(s.inputs))
  /\ ToSet(Names(s)) \intersect ToSet(Paths(s.files)) = {}

\* Converted from a directory of inputs, none of which is installed.
InputsOk(s) ==
  /\ s.fetch = <<>>
  /\ s.path # NoPath /\ InputName(s.path)
  /\ Distinct(Names(s))
  /\ ToSet(Names(s)) \intersect ToSet(Paths(s.files)) = {}

\* Converted from files that are installed too.
LayoutOk(s) ==
  /\ s.path \notin Fetched(s)
  /\ Fetched(s) \union ({s.path} \ {NoPath}) = Listed(s)
  /\ \A f \in ToSet(s.files) : f.path = s.path => f.pin = s.pin

ConvertOk(r) ==
  /\ UrlOk(r.url, FALSE) /\ SameHost(r.url, r.prov)
  /\ r.path = NoPath \/ Relative(r.path)
  /\ \A i \in ToSet(r.inputs) : ExtraInputOk(r, i)
  /\ ItemsOk(r, FALSE, TRUE)
  /\ \/ r.inputs # <<>> /\ InputsOk(Parsed(r))
     \/ r.inputs = <<>> /\ r.path = NoPath /\ r.fetch = <<>>
     \/ r.inputs = <<>> /\ (r.path # NoPath \/ r.fetch # <<>>) /\ LayoutOk(Parsed(r))

\* No provenance is asked of a registry's blobs.
RegistryOk(r) == /\ UrlOk(r.url, FALSE) /\ SameHost(r.url, r.prov)
                 /\ r.fetch # <<>>
                 /\ ItemsOk(r, FALSE, FALSE)
                 /\ Fetched(Parsed(r)) = Listed(Parsed(r))

Accepted(r) ==
  /\ FilesOk(r)
  /\ UrlOk(r.prov, r.owned)
  /\ \/ r.mode = "archive" /\ ArchiveOk(r)
     \/ r.mode = "files" /\ FetchOk(r)
     \/ r.mode = "convert" /\ ConvertOk(r)
     \/ r.mode = "registry" /\ RegistryOk(r)
-----------------------------------------------------------------------------
(* _populate_upstream_asset: what is fetched, in order, and where to; and  *)
(* where the converter and _write_notices write                            *)

PinsOf(s, p) == {f.pin : f \in {g \in ToSet(s.files) : g.path = p}}

\* by_path[path], which a registry takes over the files that are not notices.
ByPath(s, p) == IF PinsOf(s, p) = {} \/ (s.mode = "registry" /\ p \in Notices)
                THEN NoPath ELSE CHOOSE pin \in PinsOf(s, p) : TRUE

Fetch(to, url, pin, partial) == [to |-> to, url |-> url, pin |-> pin, partial |-> partial]

\* The listed files that are fetched one by one, each with a partial directory.
OneByOne(s, dir) ==
  [i \in DOMAIN s.fetch |-> Fetch(<<"content", s.fetch[i].path>>, s.fetch[i].url,
                                  ByPath(s, s.fetch[i].path), <<dir, i>>)]

\* Where the converter finds its main input.
MainInput(s) == IF s.inputs # <<>> THEN <<"input", s.path>>
                ELSE IF s.path # NoPath THEN <<"content", s.path>> ELSE <<"input">>

ExtraInputs(s) ==
  [i \in DOMAIN s.inputs |-> Fetch(<<"input", s.inputs[i].path>>, s.inputs[i].url,
                                   s.inputs[i].pin, <<"input", i>>)]

Fetches(s) ==
  CASE s.mode = "archive"  -> <<Fetch(<<"download">>, s.url, s.pin, <<>>)>>
    [] s.mode = "files"    -> OneByOne(s, "")
    [] s.mode = "convert"  -> <<Fetch(MainInput(s), s.url, s.pin, <<>>)>>
                              \o ExtraInputs(s) \o OneByOne(s, "convert")
    [] s.mode = "registry" -> <<Fetch(<<"manifest">>, s.url, s.pin, <<>>)>>
                              \o OneByOne(s, "blob")

\* Where the converter writes: beside the files when it is shown them as its
\* sources, else where they are.
Output(s) == IF s.inputs = <<>> /\ s.path # NoPath THEN <<"derived">> ELSE <<"content">>

\* Where a file is put: what is fetched, and then the notices.
Places(s) == {f.to : f \in ToSet(Fetches(s))}
               \union {<<"content", f.path>> : f \in ToSet(s.files) \ WithoutNotices(s.files)}

\* A file at `place` takes the place of a directory that `other` needs: one of the
\* two os.makedirs or os.replace fails.
Blocks(place, other) ==
  \/ place # other /\ place = <<other[1]>>
  \/ Len(place) = 2 /\ Len(other) = 2 /\ place[1] = other[1]
     /\ <<other[2], place[2]>> \in Beneath

\* source_objects_sha256: the upstream objects whose digest stands for the source.
SourceObject(url, pin) == [url |-> url, pin |-> pin]
SourceObjects(s) ==
  LET listed == {SourceObject(i.url, ByPath(s, i.path)) : i \in ToSet(s.fetch)}
      main   == {SourceObject(s.url, s.pin)}
  IN CASE s.mode = "archive"  -> main
       [] s.mode = "files"    -> listed
       [] s.mode = "convert"  -> main \union listed
                                 \union {SourceObject(i.url, i.pin) : i \in ToSet(s.inputs)}
       [] s.mode = "registry" -> main \union {SourceObject(i.url, NoPath) : i \in ToSet(s.fetch)}
-----------------------------------------------------------------------------
\* Every file but the notices is in the stage with the bytes the manifest lists,
\* unless an archive or a conversion from a directory makes it, and the converter
\* writes nothing among those that are; each file can be put in its place, no fetch
\* overwrites another one's bytes or appends to its partial file, and no path is
\* looked up in vain.
StagesItsFiles(s) ==
  LET all == Fetches(s)
      content == {f \in ToSet(all) : f.to[1] = "content"}
  IN /\ \A f \in ToSet(all) : f.pin # NoPath
     /\ \A i, j \in DOMAIN all : all[i].to = all[j].to => all[i].pin = all[j].pin
     /\ \A i, j \in DOMAIN all : all[i].partial = all[j].partial => i = j
     /\ \A p, q \in Places(s) : ~Blocks(p, q)
     /\ s.mode = "convert" /\ content # {} => Output(s) # <<"content">>
     /\ s.mode \in {"files", "registry"} \/ content # {} =>
          {<<f.to[2], f.pin>> : f \in content}
            = {<<f.path, f.pin>> : f \in WithoutNotices(s.files)}

\* Two kinds of records are accepted that need not be stageable: one that lists a
\* path and a file beneath it, and one whose converter gets no listed file as its
\* input and writes where the listed ones are.
Nested(s) == \E f, g \in ToSet(s.files) : <<f.path, g.path>> \in Beneath
InPlace(s) == s.mode = "convert" /\ s.inputs = <<>> /\ s.path = NoPath /\ s.fetch # <<>>

\* Every object that is fetched is named in what source_objects_sha256 digests,
\* a registry's blobs by URL only.
NamesItsObjects(s) ==
  \A f \in ToSet(Fetches(s)) :
    \/ SourceObject(f.url, f.pin) \in SourceObjects(s)
    \/ s.mode = "registry" /\ SourceObject(f.url, NoPath) \in SourceObjects(s)
=============================================================================
