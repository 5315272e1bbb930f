-------------------------- MODULE ContentRulesProofs --------------------------
(***************************************************************************)
(* Proofs about ContentRules.  However a catalog is put together, the      *)
(* entries that share an installation agree on what it is; whatever asset  *)
(* record is accepted, in any of its four modes, is staged as it lists,    *)
(* but for two kinds that are named; and whatever archive is extracted     *)
(* stays within the budget.                                                *)
(***************************************************************************)
EXTENDS ContentRules, SequenceTheorems, WellFoundedInduction, TLAPS

-----------------------------------------------------------------------------
(* The catalog that is built.                                              *)

\* An entry that names a package has that package's source and build.
Supplied ==
  \A i \in DOMAIN byId : byId[i].package # NoId =>
    /\ byId[i].package \in DOMAIN byPackage
    /\ Supplies(byId[i].package, byId[i])

\* An entry with the id of a package is that package's.
Owned == \A i \in DOMAIN byId : i \in DOMAIN byPackage => byId[i].package = i

\* Entries come last.
EntriesLast == phase \in {"none", "packages", "assets"} => DOMAIN byId = {}

Apart == byAsset \intersect DOMAIN byId = {}

\* The inductive invariant.
IInv == Supplied /\ Owned /\ EntriesLast /\ Apart
-----------------------------------------------------------------------------
\* The empty catalog satisfies the invariant.
LEMMA IInvInit == BuildInit => IInv
  BY DEF BuildInit, IInv, Supplied, Owned, EntriesLast, Apart, EmptyCatalog

\* An entry that passed the checks fits what is already there.
LEMMA IInvAddEntry ==
  ASSUME IInv, NEW id \in Id, NEW entry, AddEntry(id, entry)
  PROVE  IInv'
<1>1. CASE ~Fits(id, entry) /\ Refuse
  BY <1>1 DEF Refuse, catalog, IInv, Supplied, Owned, EntriesLast, Apart, Supplies
<1>2. CASE /\ Fits(id, entry)
           /\ phase = "entries"
           /\ byId' = With(byId, id, entry)
           /\ UNCHANGED <<version, byPackage, byAsset, phase>>
  <2>1. /\ DOMAIN byId' = DOMAIN byId \union {id}
        /\ byId'[id] = entry
        /\ \A y \in DOMAIN byId \ {id} : byId'[y] = byId[y]
    <3>1. byId' = With(byId, id, entry)
      BY <1>2
    <3>. QED  BY <3>1 DEF With
  <2>2. id \notin DOMAIN byId
    BY <1>2 DEF Fits
  <2>3. Supplied'
    BY <1>2, <2>1, <2>2 DEF IInv, Supplied, Supplies, Fits
  <2>4. Owned'
    BY <1>2, <2>1, <2>2 DEF IInv, Owned, Fits
  <2>5. EntriesLast'
    BY <1>2 DEF EntriesLast
  <2>6. Apart'
    BY <1>2, <2>1 DEF IInv, Apart, Fits
  <2>. QED  BY <2>3, <2>4, <2>5, <2>6 DEF IInv
<1>. QED  BY <1>1, <1>2 DEF AddEntry

\* Every step preserves the invariant.
LEMMA IInvNext == IInv /\ [BuildNext]_catalogBuildVars => IInv'
<1>. SUFFICES ASSUME IInv, [BuildNext]_catalogBuildVars
              PROVE  IInv'
  OBVIOUS
<1>. USE DEF IInv, Supplied, Owned, EntriesLast, Apart, Supplies
<1>1. CASE \E v \in Schema : Start(v)
  BY <1>1 DEF Start
<1>2. CASE \E id \in Id, origin \in Origin : AddPackage(id, origin)
  BY <1>2 DEF AddPackage, Refuse, catalog
<1>3. CASE Turn("packages", "assets") \/ Turn("assets", "entries")
  BY <1>3 DEF Turn, catalog
<1>4. CASE \E id \in Id : AddAsset(id)
  BY <1>4 DEF AddAsset, Refuse, catalog
<1>5. CASE \E id \in Id, entry \in Entry : AddEntry(id, entry)
  BY <1>5, IInvAddEntry
<1>6. CASE \E id \in Id, raw \in RawEntry : ReadEntry(id, raw)
  <2>. PICK id \in Id, raw \in RawEntry : ReadEntry(id, raw)
    BY <1>6
  <2>1. CASE AddEntry(id, Flat(raw))
    BY <2>1, IInvAddEntry
  <2>2. CASE Refuse
    BY <2>2 DEF Refuse, catalog
  <2>. QED  BY <2>1, <2>2 DEF ReadEntry
<1>7. CASE Load
  BY <1>7 DEF Load, Turn, Refuse, catalog
<1>8. CASE UNCHANGED catalogBuildVars
  BY <1>8 DEF catalogBuildVars, catalog
<1>. QED
  BY <1>1, <1>2, <1>3, <1>4, <1>5, <1>6, <1>7, <1>8 DEF BuildNext

\* Two entries of one installation: both take it from one package, or they are
\* one entry.
LEMMA IInvOneOwner == IInv => OneOwner
<1>. SUFFICES ASSUME IInv,
                     NEW install \in Id,
                     NEW i \in ProvidedBy(install), NEW j \in ProvidedBy(install)
              PROVE  byId[i].source = byId[j].source /\ byId[i].build = byId[j].build
  BY DEF OneOwner, OneIdentity, IInv, Apart
<1>1. /\ i \in DOMAIN byId /\ j \in DOMAIN byId
      /\ InstallId(i) = install /\ InstallId(j) = install
  BY DEF ProvidedBy
<1>2. CASE byId[i].package # NoId /\ byId[j].package # NoId
  BY <1>1, <1>2 DEF InstallId, IInv, Supplied, Supplies
<1>3. CASE byId[i].package = NoId /\ byId[j].package = NoId
  BY <1>1, <1>3 DEF InstallId
<1>4. ASSUME NEW x \in DOMAIN byId, NEW y \in DOMAIN byId,
             InstallId(x) = install, InstallId(y) = install,
             byId[x].package # NoId, byId[y].package = NoId
      PROVE  FALSE
  <2>1. install \in DOMAIN byPackage /\ y = install
    BY <1>4 DEF InstallId, IInv, Supplied
  <2>2. byId[y].package = y
    BY <2>1 DEF IInv, Owned
  <2>. QED  BY <1>4, <2>1, <2>2, IdAssumption
<1>. QED  BY <1>1, <1>2, <1>3, <1>4

\* The inductive invariant, for every way of building a catalog.
THEOREM Invariance == BuildSpec => []IInv
  BY IInvInit, IInvNext, PTL DEF BuildSpec

\* Whatever packages, assets and entries are given to Catalog.__init__ or read by
\* Catalog.from_mapping, the entries that share an installation share its source
\* and build, so they pass ready_provided's comparison of identities.
THEOREM OneOwnerHolds == BuildSpec => []OneOwner
  BY Invariance, IInvOneOwner, PTL

\* ContentRules builds its catalogs as CatalogBuild describes it.
THEOREM CatalogInUse == Spec => BuildSpec
<1>1. Init => BuildInit
  BY DEF Init
<1>2. [Next]_vars => [BuildNext]_catalogBuildVars
  BY DEF Next, BuildCatalog, ReadRecord, AddMember, Extract, vars
<1>. QED  BY <1>1, <1>2, PTL DEF Spec, BuildSpec

\* The same of every catalog among the inputs that are looked at.
THEOREM OneOwnerInUse == Spec => []OneOwner
  BY CatalogInUse, OneOwnerHolds, PTL
-----------------------------------------------------------------------------
(* Lists of fetches.                                                       *)

Separate(all) == \A i, j \in DOMAIN all : all[i].partial = all[j].partial => i = j

\* What two lists that are put together fetch, and when all of it is apart.
LEMMA Joined ==
  ASSUME NEW a, NEW b, a \in Seq(ToSet(a)), b \in Seq(ToSet(b))
  PROVE  /\ a \o b \in Seq(ToSet(a \o b))
         /\ ToSet(a \o b) = ToSet(a) \union ToSet(b)
         /\ /\ Separate(a) /\ Separate(b)
            /\ \A f \in ToSet(a), g \in ToSet(b) : f.partial # g.partial
            => Separate(a \o b)
<1>. DEFINE S == ToSet(a) \union ToSet(b)
            c == a \o b
<1>1. /\ a \in Seq(S) /\ b \in Seq(S)
      /\ Len(a) \in Nat /\ Len(b) \in Nat
      /\ DOMAIN a = 1..Len(a) /\ DOMAIN b = 1..Len(b)
  <2>1. a \in Seq(S) /\ b \in Seq(S)
    BY SeqMonotonic
  <2>. QED  BY <2>1, LenProperties
<1>2. /\ c \in Seq(S)
      /\ Len(c) = Len(a) + Len(b)
      /\ DOMAIN c = 1..(Len(a) + Len(b))
      /\ \A i \in 1..(Len(a) + Len(b)) : c[i] = IF i <= Len(a) THEN a[i] ELSE b[i - Len(a)]
  <2>. HIDE DEF S
  <2>. QED  BY <1>1, ConcatProperties, LenProperties
<1>. HIDE DEF c
<1>3. ToSet(c) = ToSet(a) \union ToSet(b)
  <2>1. ASSUME NEW x \in ToSet(a) PROVE x \in ToSet(c)
    <3>. PICK i \in DOMAIN a : x = a[i]
      BY DEF ToSet
    <3>1. i \in DOMAIN c /\ c[i] = a[i]
      BY <1>1, <1>2
    <3>. QED  BY <3>1 DEF ToSet
  <2>2. ASSUME NEW x \in ToSet(b) PROVE x \in ToSet(c)
    <3>. PICK i \in DOMAIN b : x = b[i]
      BY DEF ToSet
    <3>1. i + Len(a) \in DOMAIN c /\ c[i + Len(a)] = b[i]
      BY <1>1, <1>2
    <3>. QED  BY <3>1 DEF ToSet
  <2>3. ToSet(c) \subseteq ToSet(a) \union ToSet(b)
    BY <1>1, <1>2 DEF ToSet
  <2>. QED  BY <2>1, <2>2, <2>3
<1>4. c \in Seq(ToSet(c))
  BY <1>2, <1>3
<1>5. ASSUME Separate(a), Separate(b),
             \A f \in ToSet(a), g \in ToSet(b) : f.partial # g.partial
      PROVE  Separate(c)
  <2>. SUFFICES ASSUME NEW i \in DOMAIN c, NEW j \in DOMAIN c,
                       c[i].partial = c[j].partial
                PROVE  i = j
    BY DEF Separate
  <2>1. CASE i <= Len(a) /\ j <= Len(a)
    BY <1>1, <1>2, <1>5, <2>1 DEF Separate
  <2>2. CASE i > Len(a) /\ j > Len(a)
    <3>1. /\ i - Len(a) \in DOMAIN b /\ j - Len(a) \in DOMAIN b
          /\ c[i] = b[i - Len(a)] /\ c[j] = b[j - Len(a)]
      BY <1>1, <1>2, <2>2
    <3>2. i - Len(a) = j - Len(a)
      BY <3>1, <1>5 DEF Separate
    <3>. QED  BY <1>1, <1>2, <3>2
  <2>3. ASSUME NEW x \in DOMAIN c, NEW y \in DOMAIN c, x <= Len(a), y > Len(a)
        PROVE  c[x].partial # c[y].partial
    <3>1. c[x] \in ToSet(a) /\ c[y] \in ToSet(b)
      <4>1. c[x] = a[x] /\ x \in DOMAIN a
        BY <1>1, <1>2, <2>3
      <4>2. c[y] = b[y - Len(a)] /\ y - Len(a) \in DOMAIN b
        BY <1>1, <1>2, <2>3
      <4>. QED  BY <4>1, <4>2 DEF ToSet
    <3>. QED  BY <3>1, <1>5
  <2>. QED  BY <1>1, <1>2, <2>1, <2>2, <2>3
<1>. QED  BY <1>3, <1>4, <1>5 DEF c

\* A list of one fetch.
LEMMA Single ==
  ASSUME NEW f
  PROVE  /\ <<f>> \in Seq(ToSet(<<f>>))
         /\ ToSet(<<f>>) = {f}
         /\ Separate(<<f>>)
  BY DEF ToSet, Separate
-----------------------------------------------------------------------------
(* The record as parsed.                                                   *)

\* The lists of a record that is parsed keep their type.
LEMMA NormalisedFiles ==
  ASSUME NEW items \in Seq(File)
  PROVE  Normalised(items) \in Seq(File)
<1>1. /\ Len(items) \in Nat /\ DOMAIN items = 1..Len(items)
      /\ \A i \in DOMAIN items : items[i] \in File
  BY LenProperties, ElementOfSeq
<1>2. \A f \in File : [f EXCEPT !.path = Normal[@]] \in File
  BY PathAssumption DEF File
<1>3. Normalised(items) \in [1..Len(items) -> File]
  BY <1>1, <1>2 DEF Normalised
<1>. QED  BY <1>1, <1>3, SeqDef

\* The same of what is fetched; a list is as empty as it was.
LEMMA NormalisedItems ==
  ASSUME NEW items \in Seq(Item)
  PROVE  /\ Normalised(items) \in Seq(Item)
         /\ Normalised(items) = <<>> <=> items = <<>>
<1>1. /\ Len(items) \in Nat /\ DOMAIN items = 1..Len(items)
      /\ \A i \in DOMAIN items : items[i] \in Item
  BY LenProperties, ElementOfSeq
<1>2. \A f \in Item : [f EXCEPT !.path = Normal[@]] \in Item
  BY PathAssumption DEF Item
<1>3. Normalised(items) \in [1..Len(items) -> Item]
  BY <1>1, <1>2 DEF Normalised
<1>4. Normalised(items) \in Seq(Item)
  BY <1>1, <1>3, SeqDef
<1>5. DOMAIN Normalised(items) = DOMAIN items
  BY DEF Normalised
<1>6. ASSUME NEW q \in Seq(Item) PROVE q = <<>> <=> DOMAIN q = {}
  BY LenProperties, EmptySeq
<1>. QED  BY <1>4, <1>5, <1>6

\* The fields of a record that is parsed.
With3(r, files, fetch, path) == [r EXCEPT !.files = files, !.fetch = fetch, !.path = path]

\* Three fields of a record are changed, and no other.
LEMMA With3Fields ==
  ASSUME NEW r \in Record, NEW files \in Seq(File), NEW fetch \in Seq(Item),
         NEW path \in Named \union {NoPath}
  PROVE  LET s == With3(r, files, fetch, path)
         IN  /\ s \in Record
             /\ s.files = files /\ s.fetch = fetch /\ s.path = path
             /\ s.inputs = r.inputs /\ s.mode = r.mode
  BY DEF Record, With3

\* A record that is parsed is one, with paths normalised.
LEMMA ParsedFields ==
  ASSUME NEW r \in Record
  PROVE  /\ Parsed(r) \in Record
         /\ Parsed(r).files = Normalised(r.files)
         /\ Parsed(r).inputs = r.inputs
         /\ Parsed(r).mode = r.mode
         /\ Parsed(r).path = NoPath <=> r.path = NoPath
         /\ Parsed(r).fetch = <<>> <=> r.fetch = <<>>
<1>. DEFINE path == IF r.path = NoPath THEN NoPath ELSE Normal[r.path]
<1>1. /\ r.files \in Seq(File) /\ r.fetch \in Seq(Item)
      /\ r.path \in Named \union {NoPath}
  BY DEF Record
<1>2. /\ Normalised(r.files) \in Seq(File)
      /\ Normalised(r.fetch) \in Seq(Item)
      /\ Normalised(r.fetch) = <<>> <=> r.fetch = <<>>
  BY <1>1, NormalisedFiles, NormalisedItems
<1>3. /\ path \in Named \union {NoPath}
      /\ path = NoPath <=> r.path = NoPath
  BY <1>1, PathAssumption
<1>4. Parsed(r) = With3(r, Normalised(r.files), Normalised(r.fetch), path)
  BY DEF Parsed, With3
<1>. HIDE DEF path
<1>. QED  BY <1>2, <1>3, <1>4, With3Fields

\* A record as _populate_upstream_asset gets it: each path is listed once, and what
\* its mode fetches is what it lists.
Coherent(s) ==
  /\ s \in Record
  /\ Distinct(Paths(s.files))
  /\ \/ s.mode = "archive"
     \/ s.mode \in {"files", "registry"} /\ Fetched(s) = Listed(s)
     \/ /\ s.mode = "convert" /\ s.inputs # <<>> /\ InputsOk(s)
        /\ \A i \in ToSet(s.inputs) : InputName(i.path)
     \/ s.mode = "convert" /\ s.inputs = <<>> /\ s.path = NoPath /\ s.fetch = <<>>
     \/ s.mode = "convert" /\ s.inputs = <<>> /\ LayoutOk(s)

\* What AssetSpec.from_mapping accepts is coherent.
LEMMA AcceptedIsCoherent ==
  ASSUME NEW r \in Record, Accepted(r)
  PROVE  Coherent(Parsed(r))
<1>. DEFINE s == Parsed(r)
<1>1. /\ s \in Record
      /\ s.files = Normalised(r.files)
      /\ s.inputs = r.inputs
      /\ s.mode = r.mode
      /\ s.path = NoPath <=> r.path = NoPath
      /\ s.fetch = <<>> <=> r.fetch = <<>>
  BY ParsedFields
<1>2. Distinct(Paths(s.files))
  BY <1>1 DEF Accepted, FilesOk
<1>3. r.mode = "files" => Fetched(s) = Listed(s)
  BY DEF Accepted, FetchOk
<1>4. r.mode = "registry" => Fetched(s) = Listed(s)
  BY DEF Accepted, RegistryOk
<1>5. r.mode = "convert" => \/ r.inputs # <<>> /\ InputsOk(s)
                            \/ r.inputs = <<>> /\ r.path = NoPath /\ r.fetch = <<>>
                            \/ r.inputs = <<>> /\ LayoutOk(s)
  BY DEF Accepted, ConvertOk
<1>6. r.mode = "convert" => \A i \in ToSet(r.inputs) : InputName(i.path)
  BY DEF Accepted, ConvertOk, ExtraInputOk
<1>7. r.mode \in {"archive", "files", "convert", "registry"}
  BY DEF Record
<1>. HIDE DEF s
<1>. QED  BY <1>1, <1>2, <1>3, <1>4, <1>5, <1>6, <1>7 DEF Coherent, s
-----------------------------------------------------------------------------
(* What is looked up, and the files fetched one by one.                    *)

\* A listed path is found, with the one pin it is listed with.
LEMMA FoundOnce ==
  ASSUME NEW s \in Record, Distinct(Paths(s.files)), NEW f \in WithoutNotices(s.files)
  PROVE  /\ f \in File
         /\ ByPath(s, f.path) = f.pin
<1>1. /\ s.files \in Seq(File)
      /\ f \in ToSet(s.files) /\ f.path \notin Notices
  BY DEF Record, WithoutNotices
<1>2. ToSet(s.files) \subseteq File
  BY <1>1, LenProperties, ElementOfSeq DEF ToSet
<1>3. ASSUME NEW g \in ToSet(s.files), g.path = f.path
      PROVE  g = f
  <2>. PICK i \in DOMAIN s.files : f = s.files[i]
    BY <1>1 DEF ToSet
  <2>. PICK j \in DOMAIN s.files : g = s.files[j]
    BY DEF ToSet
  <2>1. Paths(s.files)[i] = Paths(s.files)[j] /\ {i, j} \subseteq DOMAIN Paths(s.files)
    BY <1>3 DEF Paths
  <2>. QED  BY <2>1 DEF Distinct, IsInjective
<1>4. PinsOf(s, f.path) = {f.pin}
  BY <1>1, <1>3 DEF PinsOf
<1>. QED  BY <1>1, <1>2, <1>4 DEF ByPath

\* What OneByOne(s, dir) fetches, when all of it is listed.
FetchesListed(s, dir, all) ==
  /\ all \in Seq(ToSet(all))
  /\ Separate(all)
  /\ \A f \in ToSet(all) :
       /\ \E i \in Nat : f.partial = <<dir, i>>
       /\ \E g \in WithoutNotices(s.files) : /\ g.path \in Fetched(s)
                                            /\ f.to = <<"content", g.path>> /\ f.pin = g.pin
       /\ \E i \in ToSet(s.fetch) : f.url = i.url /\ f.pin = ByPath(s, i.path)
  /\ \A g \in WithoutNotices(s.files) : g.path \in Fetched(s) =>
       \E f \in ToSet(all) : f.to = <<"content", g.path>> /\ f.pin = g.pin

\* Each of its fetches is of a listed file, and each listed file it names is among
\* them.
LEMMA OneByOneFetches ==
  ASSUME NEW s \in Record, Distinct(Paths(s.files)), Fetched(s) \subseteq Listed(s), NEW dir
  PROVE  FetchesListed(s, dir, OneByOne(s, dir))
<1>. DEFINE all == OneByOne(s, dir)
            one(i) == Fetch(<<"content", s.fetch[i].path>>, s.fetch[i].url,
                            ByPath(s, s.fetch[i].path), <<dir, i>>)
<1>1. /\ Len(s.fetch) \in Nat
      /\ DOMAIN s.fetch = 1..Len(s.fetch)
      /\ \A i \in DOMAIN s.fetch : s.fetch[i] \in Item
  <2>1. s.fetch \in Seq(Item)
    BY DEF Record
  <2>. QED  BY <2>1, LenProperties, ElementOfSeq
<1>2. all = [i \in DOMAIN s.fetch |-> one(i)]
  BY DEF OneByOne
<1>3. /\ DOMAIN all = DOMAIN s.fetch
      /\ \A i \in DOMAIN all : all[i] = one(i)
  BY <1>2
<1>4. all \in [1..Len(s.fetch) -> ToSet(all)]
  BY <1>1, <1>2 DEF ToSet
<1>5. all \in Seq(ToSet(all))
  BY <1>1, <1>4, SeqDef
<1>6. \A i \in DOMAIN all : /\ one(i).partial = <<dir, i>>
                            /\ one(i).to = <<"content", s.fetch[i].path>>
                            /\ one(i).url = s.fetch[i].url
                            /\ one(i).pin = ByPath(s, s.fetch[i].path)
  BY DEF Fetch
<1>. HIDE DEF one
<1>7. Separate(all)
  BY <1>3, <1>6 DEF Separate
<1>8. \A i \in DOMAIN s.fetch : s.fetch[i].path \in Fetched(s)
  BY DEF Fetched, Paths, ToSet
<1>9. ASSUME NEW f \in ToSet(all)
      PROVE  /\ \E i \in Nat : f.partial = <<dir, i>>
             /\ \E g \in WithoutNotices(s.files) :
                  /\ g.path \in Fetched(s)
                  /\ f.to = <<"content", g.path>> /\ f.pin = g.pin
             /\ \E i \in ToSet(s.fetch) : /\ f.url = i.url
                                          /\ f.pin = ByPath(s, i.path)
  <2>. PICK i \in DOMAIN all : f = one(i)
    BY <1>3 DEF ToSet
  <2>1. PICK g \in WithoutNotices(s.files) : g.path = s.fetch[i].path
    BY <1>3, <1>8 DEF Listed
  <2>2. ByPath(s, g.path) = g.pin
    BY FoundOnce
  <2>3. s.fetch[i] \in ToSet(s.fetch) /\ s.fetch[i].path \in Fetched(s) /\ i \in Nat
    BY <1>1, <1>3, <1>8 DEF ToSet
  <2>. QED  BY <1>6, <2>1, <2>2, <2>3
<1>10. ASSUME NEW g \in WithoutNotices(s.files), g.path \in Fetched(s)
       PROVE  \E f \in ToSet(all) : f.to = <<"content", g.path>> /\ f.pin = g.pin
  <2>. PICK i \in DOMAIN s.fetch : g.path = s.fetch[i].path
    BY <1>10 DEF Fetched, Paths, ToSet
  <2>1. one(i) \in ToSet(all)
    BY <1>3 DEF ToSet
  <2>2. ByPath(s, g.path) = g.pin
    BY FoundOnce
  <2>. QED  BY <1>3, <1>6, <2>1, <2>2
<1>. QED  BY <1>5, <1>7, <1>9, <1>10 DEF FetchesListed

\* The extra inputs of a conversion.
LEMMA ExtraInputFetches ==
  ASSUME NEW s \in Record
  PROVE  LET all == ExtraInputs(s)
         IN  /\ all \in Seq(ToSet(all))
             /\ Separate(all)
             /\ \A f \in ToSet(all) :
                  \E i \in DOMAIN s.inputs :
                     /\ i \in Nat /\ s.inputs[i] \in Input
                     /\ f.to = <<"input", s.inputs[i].path>>
                     /\ f.url = s.inputs[i].url /\ f.pin = s.inputs[i].pin
                     /\ f.partial = <<"input", i>>
<1>. DEFINE all == ExtraInputs(s)
            one(i) == Fetch(<<"input", s.inputs[i].path>>, s.inputs[i].url,
                            s.inputs[i].pin, <<"input", i>>)
<1>1. /\ Len(s.inputs) \in Nat
      /\ DOMAIN s.inputs = 1..Len(s.inputs)
      /\ \A i \in DOMAIN s.inputs : s.inputs[i] \in Input
  <2>1. s.inputs \in Seq(Input)
    BY DEF Record
  <2>. QED  BY <2>1, LenProperties, ElementOfSeq
<1>2. all = [i \in DOMAIN s.inputs |-> one(i)]
  BY DEF ExtraInputs
<1>3. /\ DOMAIN all = DOMAIN s.inputs
      /\ \A i \in DOMAIN all : all[i] = one(i)
  BY <1>2
<1>4. all \in [1..Len(s.inputs) -> ToSet(all)]
  BY <1>1, <1>2 DEF ToSet
<1>5. all \in Seq(ToSet(all))
  BY <1>1, <1>4, SeqDef
<1>6. \A i \in DOMAIN all : /\ one(i).partial = <<"input", i>>
                            /\ one(i).to = <<"input", s.inputs[i].path>>
                            /\ one(i).url = s.inputs[i].url
                            /\ one(i).pin = s.inputs[i].pin
  BY DEF Fetch
<1>. HIDE DEF one
<1>7. Separate(all)
  BY <1>3, <1>6 DEF Separate
<1>8. ASSUME NEW f \in ToSet(all)
      PROVE  \E i \in DOMAIN s.inputs :
               /\ i \in Nat /\ s.inputs[i] \in Input
               /\ f.to = <<"input", s.inputs[i].path>>
               /\ f.url = s.inputs[i].url /\ f.pin = s.inputs[i].pin
               /\ f.partial = <<"input", i>>
  <2>. PICK i \in DOMAIN all : f = one(i)
    BY <1>3 DEF ToSet
  <2>. QED  BY <1>1, <1>3, <1>6
<1>. QED  BY <1>5, <1>7, <1>8
-----------------------------------------------------------------------------
(* What each mode fetches can be used.                                     *)

\* What is asked of a list of fetches as a set, in which order no longer matters.
Known(all) == \A f \in ToSet(all) : f.pin # NoPath
Agreeing(all) == \A f, g \in ToSet(all) : f.to = g.to => f.pin = g.pin
Content(all) == {f \in ToSet(all) : f.to[1] = "content"}
Stages(files, all) ==
  /\ \A f \in Content(all) : \E g \in files : f.to = <<"content", g.path>> /\ f.pin = g.pin
  /\ \A g \in files : \E f \in Content(all) : f.to = <<"content", g.path>> /\ f.pin = g.pin

\* A place of its own, or that of a listed file, or that of an input.
OfItsOwn(to) == \E d \in {"download", "manifest", "input"} : to = <<d>>
OfListed(s, to) == \E g \in ToSet(s.files) : to = <<"content", g.path>>
OfInput(to) == \E n \in Plain : to = <<"input", n>>

\* No fetch goes anywhere else, nor to an input directory that is itself fetched.
Placed(s, all) ==
  /\ \A f \in ToSet(all) : OfItsOwn(f.to) \/ OfListed(s, f.to) \/ OfInput(f.to)
  /\ \A f, g \in ToSet(all) : f.to = <<"input">> => ~OfInput(g.to)

\* Unless a path is listed with a file beneath it, no such place is in the way of
\* another one.
LEMMA Unblocked ==
  ASSUME NEW s, ~Nested(s), NEW p, NEW q,
         OfItsOwn(p) \/ OfListed(s, p) \/ OfInput(p),
         OfItsOwn(q) \/ OfListed(s, q) \/ OfInput(q),
         p = <<"input">> => ~OfInput(q)
  PROVE  ~Blocks(p, q)
<1>1. ASSUME NEW d, NEW x, NEW y
      PROVE  <<d>> # <<x, y>> /\ Len(<<d>>) = 1 /\ Len(<<x, y>>) = 2
  <2>1. Len(<<d>>) = 1 /\ Len(<<x, y>>) = 2
    OBVIOUS
  <2>. QED  BY <2>1
<1>2. CASE OfItsOwn(p)
  <2>1. PICK d \in {"download", "manifest", "input"} : p = <<d>>
    BY <1>2 DEF OfItsOwn
  <2>2. Len(p) # 2 /\ p[1] = d
    BY <2>1
  <2>3. ASSUME p # q, p = <<q[1]>>
        PROVE  FALSE
    <3>1. q[1] = d
      BY <2>1, <2>3
    <3>2. CASE OfItsOwn(q)
      BY <2>1, <2>3, <3>1, <3>2 DEF OfItsOwn
    <3>3. CASE OfListed(s, q)
      <4>1. q[1] = "content"
        BY <3>3 DEF OfListed
      <4>. QED  BY <3>1, <4>1
    <3>4. CASE OfInput(q)
      <4>1. q[1] = "input"
        BY <3>4 DEF OfInput
      <4>. QED  BY <2>1, <3>1, <3>4, <4>1
    <3>. QED  BY <3>2, <3>3, <3>4
  <2>. QED  BY <2>2, <2>3 DEF Blocks
<1>3. CASE OfListed(s, p)
  <2>1. PICK g \in ToSet(s.files) : p = <<"content", g.path>>
    BY <1>3 DEF OfListed
  <2>2. p # <<q[1]>> /\ p[1] = "content" /\ p[2] = g.path
    BY <1>1, <2>1
  <2>3. ASSUME Len(q) = 2, q[1] = "content", <<q[2], p[2]>> \in Beneath
        PROVE  FALSE
    <3>1. CASE OfItsOwn(q)
      <4>1. Len(q) = 1
        BY <3>1 DEF OfItsOwn
      <4>. QED  BY <2>3, <4>1
    <3>2. CASE OfListed(s, q)
      <4>1. PICK h \in ToSet(s.files) : q = <<"content", h.path>>
        BY <3>2 DEF OfListed
      <4>2. q[2] = h.path
        BY <4>1
      <4>. QED  BY <2>2, <2>3, <4>2 DEF Nested
    <3>3. CASE OfInput(q)
      <4>1. q[1] = "input"
        BY <3>3 DEF OfInput
      <4>. QED  BY <2>3, <4>1
    <3>. QED  BY <3>1, <3>2, <3>3
  <2>. QED  BY <2>2, <2>3 DEF Blocks
<1>4. CASE OfInput(p)
  <2>1. PICK n \in Plain : p = <<"input", n>>
    BY <1>4 DEF OfInput
  <2>2. p # <<q[1]>> /\ p[1] = "input" /\ p[2] = n
    BY <1>1, <2>1
  <2>3. ASSUME Len(q) = 2, q[1] = "input", <<q[2], p[2]>> \in Beneath
        PROVE  FALSE
    <3>1. CASE OfItsOwn(q)
      <4>1. Len(q) = 1
        BY <3>1 DEF OfItsOwn
      <4>. QED  BY <2>3, <4>1
    <3>2. CASE OfListed(s, q)
      <4>1. q[1] = "content"
        BY <3>2 DEF OfListed
      <4>. QED  BY <2>3, <4>1
    <3>3. CASE OfInput(q)
      <4>1. q[2] \in Plain
        BY <3>3 DEF OfInput
      <4>. QED  BY <2>3, <4>1, BeneathAssumption
    <3>. QED  BY <3>1, <3>2, <3>3
  <2>. QED  BY <2>2, <2>3 DEF Blocks
<1>. QED  BY <1>2, <1>3, <1>4

\* So each file of the stage can be put in its place.
LEMMA PlacesClear ==
  ASSUME NEW s, ~Nested(s), Placed(s, Fetches(s))
  PROVE  \A p, q \in Places(s) : ~Blocks(p, q)
<1>1. ASSUME NEW p \in Places(s)
      PROVE  \/ \E f \in ToSet(Fetches(s)) : p = f.to
             \/ OfListed(s, p)
  BY <1>1 DEF Places, OfListed
<1>2. ASSUME NEW p, OfListed(s, p)
      PROVE  p # <<"input">> /\ ~OfInput(p)
  <2>1. p[1] = "content"
    BY <1>2 DEF OfListed
  <2>2. <<"input">>[1] = "input" /\ \A n : <<"input", n>>[1] = "input"
    OBVIOUS
  <2>. QED  BY <2>1, <2>2 DEF OfInput
<1>. SUFFICES ASSUME NEW p \in Places(s), NEW q \in Places(s)
              PROVE  ~Blocks(p, q)
  OBVIOUS
<1>3. /\ OfItsOwn(p) \/ OfListed(s, p) \/ OfInput(p)
      /\ OfItsOwn(q) \/ OfListed(s, q) \/ OfInput(q)
  BY <1>1 DEF Placed
<1>4. p = <<"input">> => ~OfInput(q)
  BY <1>1, <1>2 DEF Placed
<1>. QED  BY <1>3, <1>4, Unblocked

\* What has to be shown of a mode's fetches.
LEMMA EnoughToStage ==
  ASSUME NEW s, ~Nested(s), Placed(s, Fetches(s)),
         s.mode = "convert" /\ Content(Fetches(s)) # {} => Output(s) # <<"content">>,
         Separate(Fetches(s)), Known(Fetches(s)), Agreeing(Fetches(s)),
         s.mode \in {"files", "registry"} \/ Content(Fetches(s)) # {} =>
           Stages(WithoutNotices(s.files), Fetches(s))
  PROVE  StagesItsFiles(s)
<1>. DEFINE all == Fetches(s)
            files == WithoutNotices(s.files)
<1>. HIDE DEF all, files
<1>1. \A i, j \in DOMAIN all : all[i].to = all[j].to => all[i].pin = all[j].pin
  BY DEF Agreeing, ToSet, all
<1>2. ASSUME Stages(files, all)
      PROVE  {<<f.to[2], f.pin>> : f \in Content(all)} = {<<f.path, f.pin>> : f \in files}
  BY <1>2 DEF Stages
<1>3. \A p, q \in Places(s) : ~Blocks(p, q)
  BY PlacesClear
<1>. QED  BY <1>1, <1>2, <1>3 DEF StagesItsFiles, Separate, Known, Content, all, files

\* A list whose fetches each put a listed file in its place.
LEMMA ListedAgree ==
  ASSUME NEW s \in Record, Distinct(Paths(s.files)), NEW all,
         \A f \in ToSet(all) : \E g \in WithoutNotices(s.files) :
            f.to = <<"content", g.path>> /\ f.pin = g.pin
  PROVE  /\ Known(all) /\ Agreeing(all) /\ Content(all) = ToSet(all)
         /\ \A f \in ToSet(all) : OfListed(s, f.to) /\ f.to[1] = "content"
<1>. DEFINE files == WithoutNotices(s.files)
<1>1. \A g \in files : ByPath(s, g.path) = g.pin /\ g.pin \in Pin
  BY FoundOnce DEF File
<1>2. \A f \in ToSet(all) : \E g \in files : f.to = <<"content", g.path>> /\ f.pin = g.pin
  OBVIOUS
<1>. HIDE DEF files
<1>3. Content(all) = ToSet(all)
  BY <1>2 DEF Content
<1>4. Known(all)
  BY <1>1, <1>2, PinAssumption DEF Known
<1>5. ASSUME NEW f \in ToSet(all), NEW h \in ToSet(all), f.to = h.to
      PROVE  f.pin = h.pin
  <2>1. PICK g \in files : f.to = <<"content", g.path>> /\ f.pin = g.pin
    BY <1>2
  <2>2. PICK k \in files : h.to = <<"content", k.path>> /\ h.pin = k.pin
    BY <1>2
  <2>3. g.path = k.path
    <3>1. f.to[2] = g.path
      BY <2>1
    <3>2. h.to[2] = k.path
      BY <2>2
    <3>. QED  BY <1>5, <3>1, <3>2
  <2>. QED  BY <1>1, <2>1, <2>2, <2>3
<1>6. \A f \in ToSet(all) : OfListed(s, f.to) /\ f.to[1] = "content"
  BY <1>2 DEF OfListed, files, WithoutNotices
<1>. QED  BY <1>3, <1>4, <1>5, <1>6 DEF Agreeing

\* What goes to the places of listed files only is in nobody's way.
LEMMA ListedPlaced ==
  ASSUME NEW s, NEW all,
         \A f \in ToSet(all) : OfListed(s, f.to) /\ f.to[1] = "content"
  PROVE  Placed(s, all)
<1>1. <<"input">>[1] = "input"
  OBVIOUS
<1>. QED  BY <1>1 DEF Placed

\* Nor does one that goes to a place of its own, in addition.
LEMMA MainPlaced ==
  ASSUME NEW s, NEW main, NEW all, NEW parts,
         ToSet(all) = {main} \union ToSet(parts),
         NEW d \in {"download", "manifest", "input"}, main.to = <<d>>,
         \A f \in ToSet(parts) : OfListed(s, f.to) /\ f.to[1] = "content"
  PROVE  Placed(s, all)
<1>1. \A n : <<"input", n>>[1] = "input"
  OBVIOUS
<1>2. \A f \in ToSet(parts) : ~OfInput(f.to)
  BY <1>1 DEF OfInput
<1>3. ~OfInput(main.to)
  <2>1. Len(main.to) = 1 /\ \A n : Len(<<"input", n>>) = 2
    OBVIOUS
  <2>. QED  BY <2>1 DEF OfInput
<1>4. OfItsOwn(main.to)
  BY DEF OfItsOwn
<1>. QED  BY <1>2, <1>3, <1>4 DEF Placed

\* An archive is one fetch.
LEMMA ArchiveUsable ==
  ASSUME NEW s, Coherent(s), ~Nested(s), s.mode = "archive"
  PROVE  StagesItsFiles(s) /\ NamesItsObjects(s)
<1>. DEFINE main == Fetch(<<"download">>, s.url, s.pin, <<>>)
<1>1. /\ Fetches(s) = <<main>>
      /\ ToSet(Fetches(s)) = {main}
      /\ Separate(Fetches(s))
  BY Single DEF Coherent, Fetches
<1>2. /\ main.to = <<"download">> /\ main.to[1] = "download" /\ main.url = s.url
      /\ main.pin = s.pin /\ s.pin \in Pin
  BY DEF Fetch, Coherent, Record
<1>. HIDE DEF main
<1>3. StagesItsFiles(s)
  <2>1. Known(Fetches(s)) /\ Agreeing(Fetches(s)) /\ Content(Fetches(s)) = {}
    BY <1>1, <1>2, PinAssumption DEF Known, Agreeing, Content
  <2>2. Placed(s, Fetches(s))
    <3>1. ToSet(<<>>) = {}
      BY DEF ToSet
    <3>. QED  BY <1>1, <1>2, <3>1, MainPlaced
  <2>. QED  BY <1>1, <2>1, <2>2, EnoughToStage
<1>4. NamesItsObjects(s)
  <2>1. SourceObject(main.url, main.pin) \in SourceObjects(s)
    BY <1>2 DEF SourceObjects
  <2>. QED  BY <1>1, <2>1 DEF NamesItsObjects
<1>. QED  BY <1>3, <1>4

\* Files are fetched one by one, and are those that are listed.
LEMMA FilesUsable ==
  ASSUME NEW s, Coherent(s), ~Nested(s), s.mode = "files"
  PROVE  StagesItsFiles(s) /\ NamesItsObjects(s)
<1>. DEFINE files == WithoutNotices(s.files)
            all == OneByOne(s, "")
<1>1. /\ s \in Record /\ Distinct(Paths(s.files)) /\ Fetched(s) = Listed(s)
      /\ Fetches(s) = all
  BY DEF Coherent, Fetches
<1>2. /\ Separate(all)
      /\ \A f \in ToSet(all) :
           /\ \E g \in files : f.to = <<"content", g.path>> /\ f.pin = g.pin
           /\ \E i \in ToSet(s.fetch) : f.url = i.url /\ f.pin = ByPath(s, i.path)
      /\ \A g \in files : g.path \in Fetched(s) =>
           \E f \in ToSet(all) : f.to = <<"content", g.path>> /\ f.pin = g.pin
  <2>1. FetchesListed(s, "", OneByOne(s, ""))
    BY <1>1, OneByOneFetches
  <2>. QED  BY <2>1 DEF FetchesListed
<1>3. \A g \in files : g.path \in Fetched(s)
  BY <1>1 DEF Listed
<1>4. Known(all) /\ Agreeing(all) /\ Content(all) = ToSet(all) /\ Placed(s, all)
  BY <1>1, <1>2, ListedAgree, ListedPlaced
<1>. HIDE DEF all
<1>5. Stages(files, all)
  BY <1>2, <1>3, <1>4 DEF Stages
<1>6. NamesItsObjects(s)
  <2>1. SourceObjects(s) = {SourceObject(i.url, ByPath(s, i.path)) : i \in ToSet(s.fetch)}
    BY DEF SourceObjects
  <2>2. \A f \in ToSet(all) : SourceObject(f.url, f.pin) \in SourceObjects(s)
    BY <1>2, <2>1
  <2>. QED  BY <1>1, <2>2 DEF NamesItsObjects
<1>. QED  BY <1>1, <1>2, <1>4, <1>5, <1>6, EnoughToStage

\* A fetch without a partial directory shares none.
LEMMA NoPartial == \A x, y : <<x, y>> # <<>>
<1>. SUFFICES ASSUME NEW x, NEW y, <<x, y>> = <<>>
              PROVE  FALSE
  OBVIOUS
<1>1. Len(<<x, y>>) = 2 /\ Len(<<>>) = 0
  OBVIOUS
<1>. QED  BY <1>1

\* A registry's manifest is put beside the files, its blobs are the files.
LEMMA RegistryUsable ==
  ASSUME NEW s, Coherent(s), ~Nested(s), s.mode = "registry"
  PROVE  StagesItsFiles(s) /\ NamesItsObjects(s)
<1>. DEFINE files == WithoutNotices(s.files)
            blobs == OneByOne(s, "blob")
            main == Fetch(<<"manifest">>, s.url, s.pin, <<>>)
            all == <<main>> \o blobs
<1>1. /\ s \in Record /\ Distinct(Paths(s.files)) /\ Fetched(s) = Listed(s)
      /\ Fetches(s) = all
  BY DEF Coherent, Fetches
<1>2. FetchesListed(s, "blob", blobs)
  BY <1>1, OneByOneFetches
<1>3. /\ main.to = <<"manifest">> /\ main.url = s.url /\ main.partial = <<>>
      /\ main.pin = s.pin /\ s.pin \in Pin
  BY <1>1 DEF Fetch, Record
<1>. HIDE DEF main, blobs
<1>4. ToSet(all) = {main} \union ToSet(blobs) /\ Separate(all)
  <2>1. /\ <<main>> \in Seq(ToSet(<<main>>)) /\ ToSet(<<main>>) = {main}
        /\ Separate(<<main>>)
    BY Single
  <2>2. /\ blobs \in Seq(ToSet(blobs)) /\ Separate(blobs)
        /\ \A f \in ToSet(blobs) : \E i \in Nat : f.partial = <<"blob", i>>
    BY <1>2 DEF FetchesListed
  <2>3. \A f \in ToSet(<<main>>), g \in ToSet(blobs) : f.partial # g.partial
    BY <1>3, <2>1, <2>2, NoPartial
  <2>4. ToSet(all) = ToSet(<<main>>) \union ToSet(blobs)
    BY <2>1, <2>2, Joined
  <2>5. Separate(all)
    BY <2>1, <2>2, <2>3, Joined
  <2>. QED  BY <2>1, <2>4, <2>5
<1>5. /\ Known(blobs) /\ Agreeing(blobs) /\ Content(blobs) = ToSet(blobs)
      /\ \A f \in ToSet(blobs) : OfListed(s, f.to) /\ f.to[1] = "content"
  BY <1>1, <1>2, ListedAgree DEF FetchesListed
<1>. HIDE DEF all
<1>6. /\ main.to[1] # "content"
      /\ \A f \in ToSet(blobs) : f.to # main.to
  <2>1. \A f \in ToSet(blobs) : f.to[1] = "content"
    BY <1>5 DEF Content
  <2>2. main.to[1] = "manifest"
    BY <1>3
  <2>. QED  BY <2>1, <2>2
<1>7. Content(all) = ToSet(blobs)
  BY <1>4, <1>5, <1>6 DEF Content
<1>8. Known(all) /\ Agreeing(all)
  BY <1>3, <1>4, <1>5, <1>6, PinAssumption DEF Known, Agreeing
<1>9. Stages(files, all)
  <2>1. \A g \in files : g.path \in Fetched(s)
    BY <1>1 DEF Listed
  <2>. QED  BY <1>2, <1>7, <2>1 DEF Stages, FetchesListed
<1>10. NamesItsObjects(s)
  <2>1. SourceObjects(s) = {SourceObject(s.url, s.pin)}
                             \union {SourceObject(i.url, NoPath) : i \in ToSet(s.fetch)}
    BY DEF SourceObjects
  <2>2. SourceObject(main.url, main.pin) \in SourceObjects(s)
    BY <1>3, <2>1
  <2>3. \A f \in ToSet(blobs) : SourceObject(f.url, NoPath) \in SourceObjects(s)
    BY <1>2, <2>1 DEF FetchesListed
  <2>. QED  BY <1>1, <1>4, <2>2, <2>3 DEF NamesItsObjects
<1>11. Placed(s, all)
  BY <1>3, <1>4, <1>5, MainPlaced
<1>. QED  BY <1>1, <1>4, <1>8, <1>9, <1>10, <1>11, EnoughToStage

\* The names of the inputs of a conversion from a directory.
LEMMA InputNames ==
  ASSUME NEW s \in Record, Distinct(Names(s))
  PROVE  /\ \A i, j \in DOMAIN s.inputs : s.inputs[i].path = s.inputs[j].path => i = j
         /\ \A i \in DOMAIN s.inputs : s.inputs[i].path # s.path
<1>. DEFINE paths == Paths(s.inputs)
            n == Len(s.inputs)
<1>1. /\ n \in Nat /\ DOMAIN s.inputs = 1..n
      /\ \A i \in 1..n : s.inputs[i].path \in Named
      /\ s.path \in Named \union {NoPath}
  <2>1. s.inputs \in Seq(Input) /\ s.path \in Named \union {NoPath}
    BY DEF Record
  <2>2. n \in Nat /\ DOMAIN s.inputs = 1..n /\ \A i \in 1..n : s.inputs[i] \in Input
    BY <2>1, LenProperties, ElementOfSeq
  <2>. QED  BY <2>1, <2>2 DEF Input
<1>2. /\ paths \in [1..n -> Named \union {NoPath}]
      /\ \A i \in 1..n : paths[i] = s.inputs[i].path
  BY <1>1 DEF Paths
<1>3. paths \in Seq(Named \union {NoPath})
  BY <1>1, <1>2, SeqDef
<1>4. Len(paths) = n
  BY <1>1, <1>2, <1>3, LenProperties
<1>5. <<s.path>> \in Seq(Named \union {NoPath}) /\ Len(<<s.path>>) = 1
  BY <1>1
<1>. HIDE DEF paths, n
<1>6. /\ DOMAIN Names(s) = 1..(1 + n)
      /\ Names(s)[1] = s.path
      /\ \A i \in 1..n : Names(s)[i + 1] = s.inputs[i].path
  <2>1. Names(s) = <<s.path>> \o paths
    BY DEF Names, paths
  <2>2. /\ Names(s) \in Seq(Named \union {NoPath})
        /\ Len(Names(s)) = 1 + n
        /\ \A i \in 1..(1 + n) : Names(s)[i] = IF i <= 1 THEN <<s.path>>[i] ELSE paths[i - 1]
    BY <1>3, <1>4, <1>5, <2>1, ConcatProperties
  <2>3. DOMAIN Names(s) = 1..(1 + n)
    BY <2>2, LenProperties
  <2>. QED  BY <1>1, <1>2, <2>2, <2>3
<1>7. \A i, j \in 1..(1 + n) : Names(s)[i] = Names(s)[j] => i = j
  BY <1>6 DEF Distinct, IsInjective
<1>8. ASSUME NEW i \in 1..n, NEW j \in 1..n, s.inputs[i].path = s.inputs[j].path
      PROVE  i = j
  <2>1. i + 1 \in 1..(1 + n) /\ j + 1 \in 1..(1 + n)
    BY <1>1
  <2>2. i + 1 = j + 1
    BY <1>6, <1>7, <1>8, <2>1
  <2>. QED  BY <1>1, <2>2
<1>9. ASSUME NEW i \in 1..n PROVE s.inputs[i].path # s.path
  <2>1. i + 1 \in 1..(1 + n) /\ 1 \in 1..(1 + n) /\ i + 1 # 1
    BY <1>1
  <2>. QED  BY <1>6, <1>7, <2>1
<1>. QED  BY <1>1, <1>8, <1>9

\* What a conversion fetches: its main input, its other inputs and listed files.
Main(s) == Fetch(MainInput(s), s.url, s.pin, <<>>)

\* They go to partial directories of their own.
LEMMA ConvertFetches ==
  ASSUME NEW s \in Record, s.mode = "convert",
         Distinct(Paths(s.files)), Fetched(s) \subseteq Listed(s)
  PROVE  /\ ToSet(Fetches(s)) = {Main(s)} \union ToSet(ExtraInputs(s))
                                         \union ToSet(OneByOne(s, "convert"))
         /\ Separate(Fetches(s))
<1>. DEFINE extra == ExtraInputs(s)
            parts == OneByOne(s, "convert")
            inputs == <<Main(s)>> \o extra
<1>1. Fetches(s) = inputs \o parts
  BY DEF Fetches, Main
<1>2. FetchesListed(s, "convert", parts)
  BY OneByOneFetches
<1>3. /\ parts \in Seq(ToSet(parts)) /\ Separate(parts)
      /\ \A f \in ToSet(parts) : \E i \in Nat : f.partial = <<"convert", i>>
  BY <1>2 DEF FetchesListed
<1>4. /\ extra \in Seq(ToSet(extra)) /\ Separate(extra)
      /\ \A f \in ToSet(extra) : \E i \in Nat : f.partial = <<"input", i>>
  BY ExtraInputFetches
<1>5. /\ <<Main(s)>> \in Seq(ToSet(<<Main(s)>>)) /\ Separate(<<Main(s)>>)
      /\ ToSet(<<Main(s)>>) = {Main(s)}
  BY Single
<1>6. Main(s).partial = <<>>
  BY DEF Main, Fetch
<1>. HIDE DEF extra, parts
<1>7. /\ inputs \in Seq(ToSet(inputs)) /\ Separate(inputs)
      /\ ToSet(inputs) = {Main(s)} \union ToSet(extra)
  <2>1. \A f \in ToSet(<<Main(s)>>), g \in ToSet(extra) : f.partial # g.partial
    BY <1>4, <1>5, <1>6, NoPartial
  <2>2. inputs \in Seq(ToSet(inputs)) /\ ToSet(inputs) = ToSet(<<Main(s)>>) \union ToSet(extra)
    BY <1>4, <1>5, Joined
  <2>3. Separate(inputs)
    BY <1>4, <1>5, <2>1, Joined
  <2>. QED  BY <1>5, <2>2, <2>3
<1>. HIDE DEF inputs
<1>8. \A f \in ToSet(inputs), g \in ToSet(parts) : f.partial # g.partial
  <2>1. ASSUME NEW i, NEW j PROVE <<"input", i>> # <<"convert", j>>
    OBVIOUS
  <2>2. \A g \in ToSet(parts) : Main(s).partial # g.partial
    BY <1>3, <1>6, NoPartial
  <2>3. \A f \in ToSet(extra), g \in ToSet(parts) : f.partial # g.partial
    BY <1>3, <1>4, <2>1
  <2>. QED  BY <1>7, <2>2, <2>3
<1>9. Separate(inputs \o parts)
  BY <1>3, <1>7, <1>8, Joined
<1>10. ToSet(inputs \o parts) = ToSet(inputs) \union ToSet(parts)
  BY <1>3, <1>7, Joined
<1>. QED  BY <1>1, <1>7, <1>9, <1>10 DEF extra, parts

\* The inputs of a conversion from a directory lie apart, and none is content.
LEMMA InputsUsable ==
  ASSUME NEW s, Coherent(s), s.mode = "convert", s.inputs # <<>>, InputsOk(s)
  PROVE  /\ Known(Fetches(s)) /\ Agreeing(Fetches(s)) /\ Content(Fetches(s)) = {}
         /\ Placed(s, Fetches(s))
<1>. DEFINE extra == ExtraInputs(s)
            all == Fetches(s)
<1>1. /\ s \in Record /\ Distinct(Paths(s.files)) /\ s.fetch = <<>> /\ Distinct(Names(s))
  BY DEF Coherent, InputsOk
<1>2. ToSet(s.fetch) = {} /\ Fetched(s) = {}
  BY <1>1 DEF Fetched, ToSet, Paths
<1>3. ToSet(OneByOne(s, "convert")) = {}
  BY <1>1 DEF OneByOne, ToSet
<1>4. ToSet(all) = {Main(s)} \union ToSet(extra)
  BY <1>1, <1>2, <1>3, ConvertFetches
<1>5. /\ Main(s).to = <<"input", s.path>> /\ Main(s).pin = s.pin /\ s.pin \in Pin
  BY <1>1 DEF Main, MainInput, Fetch, Record
<1>6. \A f \in ToSet(extra) : \E i \in DOMAIN s.inputs :
         /\ s.inputs[i] \in Input
         /\ f.to = <<"input", s.inputs[i].path>> /\ f.pin = s.inputs[i].pin
  BY <1>1, ExtraInputFetches
<1>7. /\ \A i, j \in DOMAIN s.inputs : s.inputs[i].path = s.inputs[j].path => i = j
      /\ \A i \in DOMAIN s.inputs : s.inputs[i].path # s.path
  BY <1>1, InputNames
<1>. HIDE DEF extra, all
<1>8. Known(all)
  BY <1>4, <1>5, <1>6, PinAssumption DEF Known, Input
<1>9. Content(all) = {}
  <2>1. Main(s).to[1] = "input"
    BY <1>5
  <2>2. \A f \in ToSet(extra) : f.to[1] = "input"
    BY <1>6
  <2>. QED  BY <1>4, <2>1, <2>2 DEF Content
<1>10. Agreeing(all)
  <2>1. ASSUME NEW f \in ToSet(extra), NEW g \in ToSet(extra), f.to = g.to
        PROVE  f.pin = g.pin
    <3>1. PICK i \in DOMAIN s.inputs : f.to = <<"input", s.inputs[i].path>> /\ f.pin = s.inputs[i].pin
      BY <1>6
    <3>2. PICK j \in DOMAIN s.inputs : g.to = <<"input", s.inputs[j].path>> /\ g.pin = s.inputs[j].pin
      BY <1>6
    <3>3. f.to[2] = s.inputs[i].path /\ g.to[2] = s.inputs[j].path
      BY <3>1, <3>2
    <3>. QED  BY <1>7, <2>1, <3>1, <3>2, <3>3
  <2>2. ASSUME NEW f \in ToSet(extra) PROVE f.to # Main(s).to
    <3>1. PICK i \in DOMAIN s.inputs : f.to = <<"input", s.inputs[i].path>>
      BY <1>6
    <3>2. f.to[2] = s.inputs[i].path
      BY <3>1
    <3>3. Main(s).to[2] = s.path
      BY <1>5
    <3>. QED  BY <1>7, <3>2, <3>3
  <2>. QED  BY <1>4, <2>1, <2>2 DEF Agreeing
<1>11. Placed(s, all)
  <2>1. \A i \in DOMAIN s.inputs : s.inputs[i].path \in Plain
    BY DEF Coherent, InputName, ToSet
  <2>2. \A f \in ToSet(all) : OfInput(f.to)
    <3>1. s.path \in Plain
      BY DEF InputsOk, InputName
    <3>2. OfInput(Main(s).to)
      BY <1>5, <3>1 DEF OfInput
    <3>3. \A f \in ToSet(extra) : OfInput(f.to)
      BY <1>6, <2>1 DEF OfInput
    <3>. QED  BY <1>4, <3>2, <3>3
  <2>3. \A f \in ToSet(all) : f.to # <<"input">>
    <3>1. Len(<<"input">>) = 1 /\ \A n : Len(<<"input", n>>) = 2
      OBVIOUS
    <3>. QED  BY <2>2, <3>1 DEF OfInput
  <2>. QED  BY <2>2, <2>3 DEF Placed
<1>. QED  BY <1>8, <1>9, <1>10, <1>11 DEF all

\* A conversion of one object that is not installed.
LEMMA ObjectUsable ==
  ASSUME NEW s, Coherent(s), s.mode = "convert",
         s.inputs = <<>>, s.path = NoPath, s.fetch = <<>>
  PROVE  /\ Known(Fetches(s)) /\ Agreeing(Fetches(s)) /\ Content(Fetches(s)) = {}
         /\ Placed(s, Fetches(s))
<1>1. s \in Record /\ Distinct(Paths(s.files)) /\ Fetched(s) = {}
  BY DEF Coherent, Fetched, ToSet, Paths
<1>2. ToSet(OneByOne(s, "convert")) = {} /\ ToSet(ExtraInputs(s)) = {}
  BY DEF OneByOne, ExtraInputs, ToSet
<1>3. ToSet(Fetches(s)) = {Main(s)}
  BY <1>1, <1>2, ConvertFetches
<1>4. /\ Main(s).to = <<"input">> /\ Main(s).to[1] = "input"
      /\ Main(s).pin \in Pin
  BY <1>1 DEF Main, MainInput, Fetch, Record
<1>5. Placed(s, Fetches(s))
  <2>1. ToSet(<<>>) = {}
    BY DEF ToSet
  <2>. QED  BY <1>3, <1>4, <2>1, MainPlaced
<1>. QED  BY <1>3, <1>4, <1>5, PinAssumption DEF Known, Agreeing, Content

\* A conversion of files that are installed too: those it fetches are those it lists.
LEMMA LayoutUsable ==
  ASSUME NEW s, Coherent(s), s.mode = "convert", s.inputs = <<>>, LayoutOk(s)
  PROVE  /\ Known(Fetches(s)) /\ Agreeing(Fetches(s))
         /\ Stages(WithoutNotices(s.files), Fetches(s))
         /\ Placed(s, Fetches(s))
<1>. DEFINE files == WithoutNotices(s.files)
            parts == OneByOne(s, "convert")
            all == Fetches(s)
<1>1. /\ s \in Record /\ Distinct(Paths(s.files))
      /\ Fetched(s) \union ({s.path} \ {NoPath}) = Listed(s)
      /\ \A f \in ToSet(s.files) : f.path = s.path => f.pin = s.pin
  BY DEF Coherent, LayoutOk
<1>2. FetchesListed(s, "convert", parts)
  BY <1>1, OneByOneFetches
<1>3. /\ \A f \in ToSet(parts) : \E g \in files : f.to = <<"content", g.path>> /\ f.pin = g.pin
      /\ \A g \in files : g.path \in Fetched(s) =>
           \E f \in ToSet(parts) : f.to = <<"content", g.path>> /\ f.pin = g.pin
  BY <1>2 DEF FetchesListed
<1>4. ToSet(all) = {Main(s)} \union ToSet(parts)
  <2>1. ToSet(ExtraInputs(s)) = {}
    BY DEF ExtraInputs, ToSet
  <2>. QED  BY <1>1, <2>1, ConvertFetches
<1>5. /\ Known(parts) /\ Agreeing(parts) /\ Content(parts) = ToSet(parts)
      /\ \A f \in ToSet(parts) : OfListed(s, f.to) /\ f.to[1] = "content"
  BY <1>1, <1>3, ListedAgree
<1>6. \A g \in files : g.path \in Listed(s)
  BY DEF Listed
<1>7. Main(s).pin = s.pin /\ s.pin \in Pin
  BY <1>1 DEF Main, Fetch, Record
<1>8. CASE s.path = NoPath
  <2>1. Main(s).to = <<"input">>
    BY <1>8 DEF Main, MainInput, Fetch
  <2>. HIDE DEF all, parts, files
  <2>2. \A f \in ToSet(parts) : f.to[1] = "content"
    BY <1>5 DEF Content
  <2>3. Main(s).to[1] = "input"
    BY <2>1
  <2>4. Content(all) = ToSet(parts)
    BY <1>4, <2>2, <2>3 DEF Content
  <2>5. Known(all) /\ Agreeing(all)
    <3>1. \A f \in ToSet(parts) : f.to # Main(s).to
      BY <2>2, <2>3
    <3>. QED  BY <1>4, <1>5, <1>7, <3>1, PinAssumption DEF Known, Agreeing
  <2>6. Stages(files, all)
    BY <1>1, <1>3, <1>6, <1>8, <2>4 DEF Stages
  <2>7. Placed(s, all)
    BY <1>4, <1>5, <2>1, MainPlaced
  <2>. QED  BY <2>5, <2>6, <2>7 DEF all, files
<1>9. CASE s.path # NoPath
  <2>1. Main(s).to = <<"content", s.path>>
    BY <1>9 DEF Main, MainInput, Fetch
  <2>2. PICK h \in files : h.path = s.path
    BY <1>1, <1>9 DEF Listed
  <2>3. h.pin = s.pin
    BY <1>1, <2>2 DEF WithoutNotices
  <2>4. \A f \in ToSet(all) : \E g \in files : f.to = <<"content", g.path>> /\ f.pin = g.pin
    BY <1>3, <1>4, <1>7, <2>1, <2>2, <2>3
  <2>5. Known(all) /\ Agreeing(all) /\ Content(all) = ToSet(all) /\ Placed(s, all)
    BY <1>1, <2>4, ListedAgree, ListedPlaced
  <2>. HIDE DEF all, parts, files
  <2>6. ASSUME NEW g \in files
        PROVE  \E f \in ToSet(all) : f.to = <<"content", g.path>> /\ f.pin = g.pin
    <3>1. CASE g.path \in Fetched(s)
      BY <1>3, <1>4, <3>1
    <3>2. CASE g.path = s.path
      <4>1. g.pin = s.pin
        BY <1>1, <3>2 DEF files, WithoutNotices
      <4>. QED  BY <1>4, <1>7, <2>1, <3>2, <4>1
    <3>. QED  BY <1>1, <1>6, <3>1, <3>2
  <2>7. Stages(files, all)
    BY <2>4, <2>5, <2>6 DEF Stages
  <2>. QED  BY <2>5, <2>7 DEF all, files
<1>. QED  BY <1>8, <1>9

\* A conversion, in each of its three layouts.
LEMMA ConvertUsable ==
  ASSUME NEW s, Coherent(s), ~Nested(s), ~InPlace(s), s.mode = "convert"
  PROVE  StagesItsFiles(s) /\ NamesItsObjects(s)
<1>1. s \in Record /\ Distinct(Paths(s.files))
  BY DEF Coherent
<1>2. \/ s.inputs # <<>> /\ InputsOk(s)
      \/ s.inputs = <<>> /\ s.path = NoPath /\ s.fetch = <<>>
      \/ s.inputs = <<>> /\ LayoutOk(s)
  BY DEF Coherent
<1>3. Fetched(s) \subseteq Listed(s)
  <2>1. s.fetch = <<>> => Fetched(s) = {}
    BY DEF Fetched, ToSet, Paths
  <2>. QED  BY <1>2, <2>1 DEF InputsOk, LayoutOk
<1>4. /\ ToSet(Fetches(s)) = {Main(s)} \union ToSet(ExtraInputs(s))
                                      \union ToSet(OneByOne(s, "convert"))
      /\ Separate(Fetches(s))
  BY <1>1, <1>3, ConvertFetches
<1>5. StagesItsFiles(s)
  <2>1. /\ Known(Fetches(s)) /\ Agreeing(Fetches(s))
        /\ Content(Fetches(s)) # {} => Stages(WithoutNotices(s.files), Fetches(s))
        /\ Placed(s, Fetches(s))
    BY <1>2, InputsUsable, ObjectUsable, LayoutUsable
  <2>2. Content(Fetches(s)) # {} => Output(s) # <<"content">>
    <3>1. Content(Fetches(s)) # {} => s.inputs = <<>> /\ s.path # NoPath
      BY <1>2, InputsUsable, ObjectUsable DEF InPlace
    <3>2. <<"derived">> # <<"content">>
      OBVIOUS
    <3>. QED  BY <3>1, <3>2 DEF Output
  <2>. QED  BY <1>4, <2>1, <2>2, EnoughToStage
<1>6. NamesItsObjects(s)
  <2>1. SourceObjects(s) = {SourceObject(s.url, s.pin)}
          \union {SourceObject(i.url, ByPath(s, i.path)) : i \in ToSet(s.fetch)}
          \union {SourceObject(i.url, i.pin) : i \in ToSet(s.inputs)}
    BY DEF SourceObjects
  <2>2. SourceObject(Main(s).url, Main(s).pin) \in SourceObjects(s)
    BY <2>1 DEF Main, Fetch
  <2>3. ASSUME NEW f \in ToSet(ExtraInputs(s))
        PROVE  SourceObject(f.url, f.pin) \in SourceObjects(s)
    <3>1. PICK i \in DOMAIN s.inputs : f.url = s.inputs[i].url /\ f.pin = s.inputs[i].pin
      BY <1>1, ExtraInputFetches
    <3>2. s.inputs[i] \in ToSet(s.inputs)
      BY DEF ToSet
    <3>. QED  BY <2>1, <3>1, <3>2
  <2>4. ASSUME NEW f \in ToSet(OneByOne(s, "convert"))
        PROVE  SourceObject(f.url, f.pin) \in SourceObjects(s)
    <3>1. FetchesListed(s, "convert", OneByOne(s, "convert"))
      BY <1>1, <1>3, OneByOneFetches
    <3>2. PICK i \in ToSet(s.fetch) : f.url = i.url /\ f.pin = ByPath(s, i.path)
      BY <3>1 DEF FetchesListed
    <3>. QED  BY <2>1, <3>2
  <2>. QED  BY <1>4, <2>2, <2>3, <2>4 DEF NamesItsObjects
<1>. QED  BY <1>5, <1>6
-----------------------------------------------------------------------------
(* The budget of an archive.  Both totals are recursive functions of the    *)
(* number of members; that they exist, and what they come to, is shown by   *)
(* induction over that number.                                              *)

\* A set of numbers with 0 and the successor of each of its elements has them all.
LEMMA NumberInduction ==
  ASSUME NEW S \in SUBSET Nat, 0 \in S, \A n \in S : n + 1 \in S
  PROVE  S = Nat
<1>. SUFFICES ASSUME Nat \ S # {} PROVE FALSE
  OBVIOUS
<1>1. PICK m \in Nat \ S : \A n \in Nat \ S : ~(<<n, m>> \in OpToRel(<, Nat))
  BY NatLessThanWellFounded, WFMin
<1>2. m # 0 /\ m \in Nat
  OBVIOUS
<1>3. m - 1 \in Nat
  BY <1>2
<1>4. m - 1 \notin S
  BY <1>2, <1>3, m = (m - 1) + 1
<1>5. <<m - 1, m>> \in OpToRel(<, Nat)
  BY <1>2, <1>3 DEF OpToRel
<1>. QED  BY <1>1, <1>3, <1>4, <1>5

\* f runs through the first n values of a total that starts with base.
Runs(f, n, T, base, step) ==
  /\ f \in [0..n -> T]
  /\ f[0] = base
  /\ \A i \in 1..n : f[i] = step[<<i, f[i - 1]>>]

\* A running total exists, however many steps it takes.
LEMMA RunExists ==
  ASSUME NEW n \in Nat, NEW T, NEW base \in T, NEW step \in [(1..n) \X T -> T]
  PROVE  \E f : Runs(f, n, T, base, step)
<1>. DEFINE S == {k \in Nat : k <= n => \E f : Runs(f, k, T, base, step)}
<1>1. 0 \in S
  <2>1. Runs([i \in 0..0 |-> base], 0, T, base, step)
    BY DEF Runs
  <2>. QED  BY <2>1
<1>2. ASSUME NEW k \in S
      PROVE  k + 1 \in S
  <2>. SUFFICES ASSUME k + 1 <= n
                PROVE  \E f : Runs(f, k + 1, T, base, step)
    OBVIOUS
  <2>1. PICK f : Runs(f, k, T, base, step)
    OBVIOUS
  <2>. DEFINE g == [i \in 0..(k + 1) |-> IF i = k + 1 THEN step[<<k + 1, f[k]>>] ELSE f[i]]
  <2>2. f[k] \in T /\ k + 1 \in 1..n
    BY <2>1 DEF Runs
  <2>3. step[<<k + 1, f[k]>>] \in T
    BY <2>2
  <2>4. g \in [0..(k + 1) -> T] /\ g[0] = base
    BY <2>1, <2>3 DEF Runs
  <2>5. ASSUME NEW i \in 1..(k + 1)
        PROVE  g[i] = step[<<i, g[i - 1]>>]
    <3>1. CASE i = k + 1
      <4>1. g[i - 1] = f[k] /\ g[i] = step[<<k + 1, f[k]>>]
        BY <3>1
      <4>. QED  BY <4>1, <3>1
    <3>2. CASE i \in 1..k
      <4>1. g[i - 1] = f[i - 1] /\ g[i] = f[i]
        BY <3>2
      <4>. QED  BY <4>1, <2>1, <3>2 DEF Runs
    <3>. QED  BY <3>1, <3>2
  <2>6. Runs(g, k + 1, T, base, step)
    BY <2>4, <2>5 DEF Runs
  <2>. QED  BY <2>6
<1>3. n \in S
  <2>. HIDE DEF S
  <2>1. S \in SUBSET Nat
    BY DEF S
  <2>. QED  BY <1>1, <1>2, <2>1, NumberInduction
<1>. QED  BY <1>3

\* A run satisfies the equation that defines it.
LEMMA RunEquation ==
  ASSUME NEW n \in Nat, NEW T, NEW base, NEW step, NEW f, Runs(f, n, T, base, step)
  PROVE  f = [i \in 0..n |-> IF i = 0 THEN base ELSE step[<<i, f[i - 1]>>]]
<1>1. ASSUME NEW i \in 0..n
      PROVE  f[i] = IF i = 0 THEN base ELSE step[<<i, f[i - 1]>>]
  <2>1. i = 0 \/ i \in 1..n
    OBVIOUS
  <2>. QED  BY <2>1 DEF Runs
<1>2. f = [i \in 0..n |-> f[i]]
  BY DEF Runs
<1>. QED  BY <1>1, <1>2, Zenon

\* The equations of the two totals.
IsTotals(f, format, ms) ==
  f = [i \in 0..Len(ms) |->
        IF i = 0 THEN 0
        ELSE IF Counted(format, ms[i]) THEN AddSize(f[i - 1], ms[i].size)
        ELSE f[i - 1]]

IsWritten(f, ms) ==
  f = [i \in 0..Len(ms) |->
        IF i = 0 THEN 0
        ELSE IF ms[i].kind = "file" /\ ms[i].size > 0 THEN f[i - 1] + ms[i].size
        ELSE f[i - 1]]

\* The total of _check_archive_budget satisfies its equation.
LEMMA TotalsEquation ==
  ASSUME NEW format, NEW ms \in Seq(Member)
  PROVE  IsTotals(Totals(format, ms), format, ms)
<1>. DEFINE n == Len(ms)
            step == [x \in (1..n) \X Nat |->
                       IF Counted(format, ms[x[1]]) THEN AddSize(x[2], ms[x[1]].size)
                       ELSE x[2]]
<1>1. n \in Nat /\ \A i \in 1..n : ms[i].size \in Int
  BY MemberAssumption
<1>2. step \in [(1..n) \X Nat -> Nat]
  <2>1. ASSUME NEW t \in Nat, NEW s \in Int
        PROVE  AddSize(t, s) \in Nat
    BY LimitAssumption DEF AddSize, Exceeded
  <2>. QED  BY <1>1, <2>1
<1>3. PICK f : Runs(f, n, Nat, 0, step)
  <2>. HIDE DEF step, n
  <2>. QED  BY <1>1, <1>2, RunExists
<1>4. IsTotals(f, format, ms)
  <2>1. f = [i \in 0..n |-> IF i = 0 THEN 0 ELSE step[<<i, f[i - 1]>>]]
    <3>. HIDE DEF step, n
    <3>. QED  BY <1>1, <1>3, RunEquation
  <2>2. ASSUME NEW i \in 0..n, i # 0
        PROVE  step[<<i, f[i - 1]>>] = IF Counted(format, ms[i])
                                       THEN AddSize(f[i - 1], ms[i].size) ELSE f[i - 1]
    <3>1. i \in 1..n /\ f[i - 1] \in Nat
      BY <1>1, <1>3, <2>2 DEF Runs
    <3>2. <<i, f[i - 1]>> \in (1..n) \X Nat
      BY <3>1
    <3>. QED  BY <3>2
  <2>3. [i \in 0..n |-> IF i = 0 THEN 0 ELSE step[<<i, f[i - 1]>>]]
         = [i \in 0..n |-> IF i = 0 THEN 0
                           ELSE IF Counted(format, ms[i]) THEN AddSize(f[i - 1], ms[i].size)
                           ELSE f[i - 1]]
    <3>. HIDE DEF step
    <3>. QED  BY <2>2
  <2>. QED  BY <2>1, <2>3 DEF IsTotals
<1>5. Totals(format, ms) = CHOOSE g : IsTotals(g, format, ms)
  BY DEF Totals, IsTotals
<1>. QED  BY <1>4, <1>5

\* What is written satisfies its equation.
LEMMA WrittenEquation ==
  ASSUME NEW ms \in Seq(Member)
  PROVE  IsWritten(Written(ms), ms)
<1>. DEFINE n == Len(ms)
            step == [x \in (1..n) \X Nat |->
                       IF ms[x[1]].kind = "file" /\ ms[x[1]].size > 0
                       THEN x[2] + ms[x[1]].size ELSE x[2]]
<1>1. n \in Nat /\ \A i \in 1..n : ms[i].size \in Int
  BY MemberAssumption
<1>2. step \in [(1..n) \X Nat -> Nat]
  BY <1>1
<1>3. PICK f : Runs(f, n, Nat, 0, step)
  <2>. HIDE DEF step, n
  <2>. QED  BY <1>1, <1>2, RunExists
<1>4. IsWritten(f, ms)
  <2>1. f = [i \in 0..n |-> IF i = 0 THEN 0 ELSE step[<<i, f[i - 1]>>]]
    <3>. HIDE DEF step, n
    <3>. QED  BY <1>1, <1>3, RunEquation
  <2>2. ASSUME NEW i \in 0..n, i # 0
        PROVE  step[<<i, f[i - 1]>>] = IF ms[i].kind = "file" /\ ms[i].size > 0
                                       THEN f[i - 1] + ms[i].size ELSE f[i - 1]
    <3>1. i \in 1..n /\ f[i - 1] \in Nat
      BY <1>1, <1>3, <2>2 DEF Runs
    <3>2. <<i, f[i - 1]>> \in (1..n) \X Nat
      BY <3>1
    <3>. QED  BY <3>2
  <2>3. [i \in 0..n |-> IF i = 0 THEN 0 ELSE step[<<i, f[i - 1]>>]]
         = [i \in 0..n |-> IF i = 0 THEN 0
                           ELSE IF ms[i].kind = "file" /\ ms[i].size > 0
                                THEN f[i - 1] + ms[i].size
                           ELSE f[i - 1]]
    <3>. HIDE DEF step
    <3>. QED  BY <2>2
  <2>. QED  BY <2>1, <2>3 DEF IsWritten
<1>5. Written(ms) = CHOOSE g : IsWritten(g, ms)
  BY DEF Written, IsWritten
<1>. QED  BY <1>4, <1>5

\* How the two totals compare after i members: equal within the limit, or the one
\* exceeded and, if no size is negative, the other beyond the limit.
Compare(total, bytes, ms) ==
  \/ total \in 0..MaxBytes /\ bytes = total
  \/ /\ total = Exceeded /\ bytes \in Nat
     /\ Sound(ms) => bytes > MaxBytes

\* One member keeps the comparison.
LEMMA CompareStep ==
  ASSUME NEW ms, NEW size \in Int, Sound(ms) => size >= 0,
         NEW total, NEW bytes, Compare(total, bytes, ms)
  PROVE  Compare(AddSize(total, size), IF size > 0 THEN bytes + size ELSE bytes, ms)
<1>1. MaxBytes \in Nat /\ Exceeded = MaxBytes + 1
  BY LimitAssumption DEF Exceeded
<1>2. CASE total = Exceeded
  BY <1>1, <1>2 DEF Compare, AddSize
<1>3. CASE total \in 0..MaxBytes /\ bytes = total
  BY <1>1, <1>3 DEF Compare, AddSize
<1>. QED  BY <1>2, <1>3 DEF Compare

\* Of members that are all safe, tar and ZIP count the files, and what is written
\* compares with what is counted.
LEMMA BudgetIsWhatIsWritten ==
  ASSUME NEW format, NEW ms \in Seq(Member), \A i \in DOMAIN ms : Safe(ms[i])
  PROVE  Compare(Totals(format, ms)[Len(ms)], Written(ms)[Len(ms)], ms)
<1>. DEFINE n == Len(ms)
            total == Totals(format, ms)
            bytes == Written(ms)
            S == {k \in Nat : k <= n => Compare(total[k], bytes[k], ms)}
<1>1. /\ n \in Nat
      /\ DOMAIN ms = 1..n
      /\ \A i \in 1..n : /\ ms[i].size \in Int
                         /\ Sound(ms) => ms[i].size >= 0
                         /\ Counted(format, ms[i]) <=> ms[i].kind = "file"
  BY MemberAssumption DEF Sound, Safe, Counted
<1>2. /\ total[0] = 0
      /\ \A i \in 1..n : total[i] = IF Counted(format, ms[i])
                                    THEN AddSize(total[i - 1], ms[i].size) ELSE total[i - 1]
  <2>. HIDE DEF total
  <2>1. IsTotals(total, format, ms)
    BY TotalsEquation DEF total
  <2>2. 0 \in 0..n /\ \A i \in 1..n : i \in 0..n /\ i # 0
    BY <1>1
  <2>. HIDE DEF n
  <2>3. \A i \in 0..n : total[i] = IF i = 0 THEN 0
                                   ELSE IF Counted(format, ms[i])
                                        THEN AddSize(total[i - 1], ms[i].size)
                                   ELSE total[i - 1]
    BY <2>1, Zenon DEF IsTotals, n
  <2>. QED  BY <2>2, <2>3
<1>3. /\ bytes[0] = 0
      /\ \A i \in 1..n : bytes[i] = IF ms[i].kind = "file" /\ ms[i].size > 0
                                    THEN bytes[i - 1] + ms[i].size ELSE bytes[i - 1]
  <2>. HIDE DEF bytes
  <2>1. IsWritten(bytes, ms)
    BY WrittenEquation DEF bytes
  <2>2. 0 \in 0..n /\ \A i \in 1..n : i \in 0..n /\ i # 0
    BY <1>1
  <2>. HIDE DEF n
  <2>3. \A i \in 0..n : bytes[i] = IF i = 0 THEN 0
                                   ELSE IF ms[i].kind = "file" /\ ms[i].size > 0
                                        THEN bytes[i - 1] + ms[i].size
                                   ELSE bytes[i - 1]
    BY <2>1, Zenon DEF IsWritten, n
  <2>. QED  BY <2>2, <2>3
<1>. HIDE DEF n, total, bytes
<1>4. 0 \in S
  BY <1>2, <1>3, LimitAssumption DEF Compare
<1>5. ASSUME NEW k \in S
      PROVE  k + 1 \in S
  <2>. SUFFICES ASSUME k + 1 <= n
                PROVE  Compare(total[k + 1], bytes[k + 1], ms)
    OBVIOUS
  <2>1. Compare(total[k], bytes[k], ms) /\ k + 1 \in 1..n /\ (k + 1) - 1 = k
    BY <1>1
  <2>. DEFINE m == ms[k + 1]
  <2>2. /\ total[k + 1] = IF Counted(format, m) THEN AddSize(total[k], m.size) ELSE total[k]
        /\ bytes[k + 1] = IF m.kind = "file" /\ m.size > 0 THEN bytes[k] + m.size ELSE bytes[k]
    BY <1>2, <1>3, <2>1
  <2>3. CASE m.kind = "file"
    <3>1. Compare(AddSize(total[k], m.size),
                  IF m.size > 0 THEN bytes[k] + m.size ELSE bytes[k], ms)
      BY <1>1, <2>1, CompareStep
    <3>. QED  BY <1>1, <2>1, <2>2, <2>3, <3>1
  <2>4. CASE m.kind # "file"
    BY <1>1, <2>1, <2>2, <2>4
  <2>. QED  BY <2>3, <2>4
<1>6. n \in S
  <2>. HIDE DEF S
  <2>1. S \in SUBSET Nat
    BY DEF S
  <2>. QED  BY <1>1, <1>4, <1>5, <2>1, NumberInduction
<1>. QED  BY <1>1, <1>6 DEF n, total, bytes
-----------------------------------------------------------------------------
(* The specification.                                                      *)

\* The record in hand was accepted and is kept as parsed.
AcceptedRecord == record # NoRecord => Coherent(record)

\* Every step keeps the record in hand coherent.
LEMMA AcceptedRecordNext == AcceptedRecord /\ [Next]_vars => AcceptedRecord'
<1>. SUFFICES ASSUME AcceptedRecord, [Next]_vars
              PROVE  AcceptedRecord'
  OBVIOUS
<1>. USE DEF AcceptedRecord
<1>1. CASE ReadRecord
  <2>1. PICK mode \in DOMAIN RawRecord : \E r \in RawRecord[mode] :
               Accepted(r) /\ record' = Parsed(r)
    BY <1>1 DEF ReadRecord
  <2>2. PICK r \in RawRecord[mode] : Accepted(r) /\ record' = Parsed(r)
    BY <2>1
  <2>3. Coherent(Parsed(r))
    BY <2>2, RecordAssumption, AcceptedIsCoherent
  <2>4. Coherent(record')
    BY <2>2, <2>3
  <2>. QED  BY <2>4 DEF Coherent
<1>2. CASE UNCHANGED reading
  BY <1>2 DEF reading, Coherent
<1>3. BuildCatalog \/ AddMember \/ Extract \/ UNCHANGED vars => UNCHANGED reading
  BY DEF BuildCatalog, AddMember, Extract, vars
<1>. QED  BY <1>1, <1>2, <1>3 DEF Next

\* Whatever record AssetSpec.from_mapping accepts, with any number of files,
\* fetches and inputs, unless it lists a path and a file beneath it or converts in
\* place: _populate_upstream_asset stages exactly what it lists, no file is in the
\* way of another one's directory, no fetch overwrites another or shares its partial
\* file, the converter writes apart from what is fetched, no path is looked up in
\* vain, and the digest of its source names every object that is fetched.
THEOREM AcceptedAssetIsUsableHolds == Spec => []AcceptedAssetIsUsable
<1>1. Init => AcceptedRecord
  BY DEF Init, AcceptedRecord
<1>2. AcceptedRecord => AcceptedAssetIsUsable
  <2>. SUFFICES ASSUME Coherent(record), ~Nested(record), ~InPlace(record)
                PROVE  StagesItsFiles(record) /\ NamesItsObjects(record)
    BY DEF AcceptedRecord, AcceptedAssetIsUsable
  <2>1. record.mode \in {"archive", "files", "convert", "registry"}
    BY DEF Coherent, Record
  <2>. QED  BY <2>1, ArchiveUsable, FilesUsable, ConvertUsable, RegistryUsable
<1>. QED  BY <1>1, <1>2, AcceptedRecordNext, PTL DEF Spec

\* An archive is made of members, and what became of it was decided of these.
ArchiveInv ==
  /\ members \in Seq(Member)
  /\ outcome = "extracted" => \E format \in {"tar", "zip"} : Extractable(format, members)
  /\ outcome = "refused" => \E format \in {"tar", "zip"} : ~Extractable(format, members)

\* Every step keeps it.
LEMMA ArchiveInvNext == ArchiveInv /\ [Next]_vars => ArchiveInv'
<1>. SUFFICES ASSUME ArchiveInv, [Next]_vars
              PROVE  ArchiveInv'
  OBVIOUS
<1>. USE DEF ArchiveInv
<1>1. CASE AddMember
  BY <1>1 DEF AddMember
<1>2. CASE Extract
  BY <1>2 DEF Extract
<1>3. CASE UNCHANGED unpacking
  BY <1>3 DEF unpacking
<1>4. BuildCatalog \/ ReadRecord \/ UNCHANGED vars => UNCHANGED unpacking
  BY DEF BuildCatalog, ReadRecord, vars
<1>. QED  BY <1>1, <1>2, <1>3, <1>4 DEF Next

\* Whatever archive safe_extract_tar and safe_extract_zip are given, of any number of
\* members of any sizes: what they extract is within the limits and inside the
\* destination, and what is within them, with sizes that can be, is not refused.
THEOREM ExtractsWithinBudgetHolds == Spec => []ExtractsWithinBudget
<1>1. Init => ArchiveInv
  BY DEF Init, ArchiveInv
<1>2. ArchiveInv => ExtractsWithinBudget
  <2>. SUFFICES ASSUME ArchiveInv
                PROVE  ExtractsWithinBudget
    OBVIOUS
  <2>1. ASSUME NEW format, \A i \in DOMAIN members : Safe(members[i])
        PROVE  Compare(Totals(format, members)[Len(members)],
                       Written(members)[Len(members)], members)
    BY <2>1, BudgetIsWhatIsWritten DEF ArchiveInv
  <2>2. ASSUME NEW format, Extractable(format, members)
        PROVE  Bounded(members)
    BY <2>1, <2>2, LimitAssumption DEF Extractable, WithinBudget, Bounded, Compare, Exceeded
  <2>3. ASSUME NEW format, Bounded(members), Sound(members)
        PROVE  Extractable(format, members)
    BY <2>1, <2>3, LimitAssumption DEF Extractable, WithinBudget, Bounded, Compare, Exceeded
  <2>. QED  BY <2>2, <2>3 DEF ArchiveInv, ExtractsWithinBudget
<1>. QED  BY <1>1, <1>2, ArchiveInvNext, PTL DEF Spec
=============================================================================
