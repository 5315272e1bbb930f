--------------------------- MODULE MC_ContentRules ---------------------------
(* Model checking of ContentRules: asset records over two files, a notice,  *)
(* a file where a directory is needed and a path outside, archives over     *)
(* members of every kind and size.                                          *)
EXTENDS ContentRules

MCNormal == [p \in Named |-> IF p = "./m" THEN "m" ELSE p]
MCBeneath == {<<"d/e", "d">>}
MCHost == "hub" :> "hub" @@ "floating" :> "hub" @@ "else" :> "else" @@ "ours" :> "github"

FileLists == BoundedSeq([path : {"m", "./m", "d/e", "notices/n"}, pin : Pin], 2)
               \union {<<[path |-> "../x", pin |-> 1]>>,
                       <<[path |-> "d", pin |-> 1], [path |-> "d/e", pin |-> 1]>>}
FetchLists == BoundedSeq([path : {"m", "./m", "d/e"}, url : {"hub", "ours"}], 2)
                \union {<<i>> : i \in [path : {"m", "notices/n", "../x"}, url : DOMAIN Host]}
                \union {<<[path |-> "d", url |-> "hub"], [path |-> "d/e", url |-> "hub"]>>}
InputLists == BoundedSeq([path : {"m", "w"}, url : {"hub"}, pin : Pin, prov : {NoPath}], 2)
                \union {<<i>> : i \in [path : {"./m", "d/e", "w"}, url : DOMAIN Host,
                                       pin : {1}, prov : {NoPath, "hub", "else"}]}

Raw(mode, files, url, pin, path, fetch, inputs, prov, owned) ==
  [mode |-> mode, files |-> files, url |-> url, pin |-> pin, path |-> path,
   fetch |-> fetch, inputs |-> inputs, prov |-> prov, owned |-> owned]

OneByOneRecords(mode) ==
  {Raw(mode, f, u, 1, NoPath, t, <<>>, v, o) :
     f \in FileLists, u \in {"hub", "ours"}, t \in FetchLists,
     v \in {"hub", "ours"}, o \in BOOLEAN}

MCRawRecord ==
  "archive"  :> {Raw("archive", f, u, 1, NoPath, <<>>, <<>>, v, o) :
                   f \in FileLists, u \in DOMAIN Host, v \in DOMAIN Host, o \in BOOLEAN}
  @@ "files"    :> OneByOneRecords("files")
  @@ "registry" :> OneByOneRecords("registry")
  @@ "convert"  :> {Raw("convert", f, "hub", n, p, t, i, "hub", FALSE) :
                      f \in FileLists, n \in Pin,
                      p \in {NoPath, "m", "./m", "d", "d/e", "../x"},
                      t \in BoundedSeq([path : {"m", "d/e"}, url : {"hub"}], 1),
                      i \in InputLists}

MCMember == [kind : Kind, inside : {TRUE}, size : -1..2]
              \union {[kind |-> "file", inside |-> FALSE, size |-> 1]}
=============================================================================
