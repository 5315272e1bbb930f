----------------------------- MODULE SuppliedFile -----------------------------
(***************************************************************************)
(* SuppliedFile of kilix_content/install.py, and what                      *)
(* _populate_supplied_asset does with one file of the directory a user     *)
(* supplies: it is opened once by a walk that follows no link, hashed,     *)
(* compared with the manifest, copied from the descriptor and hashed       *)
(* again, block by block, while others may write to the file or put        *)
(* another one in its place.  A digest stands for the blocks it was taken  *)
(* over.                                                                   *)
(***************************************************************************)
EXTENDS Naturals, Sequences

CONSTANTS Inode,       \* regular files that may come to be at the supplied path
          Odd,         \* anything else there: nothing, a link, a FIFO, a directory
          Block,       \* what a block of a file may hold
          Pinned,      \* the blocks of the file the manifest lists
          MaxChanges   \* bound: changes to the supplied directory

ASSUME OddAssumption    == Odd \notin Inode
ASSUME PinnedAssumption == Pinned \in Seq(Block)
ASSUME ChangeAssumption == MaxChanges \in Nat

VARIABLES name,     \* the file the supplied path names
          data,     \* [Inode -> its blocks]
          held,     \* the file the descriptor is open on
          size,     \* the size recorded when it was opened
          pass,     \* the blocks read in the pass under way
          copy,     \* the blocks written to the target
          step,     \* where the SuppliedFile is
          changes,  \* changes so far
          touched   \* those made to the held file since it was opened

source == <<name, data, changes>>
handle == <<held, size, pass, copy, step, touched>>
fileVars == <<source, handle>>

Step == {"shut", "hash", "copy", "recheck", "again", "good", "bad"}

\* A file grows by one block at most.
Blocks == UNION {[1..n -> Block] : n \in 0..Len(Pinned) + 1}

FileTypeOK == /\ name \in Inode \union {Odd}
              /\ data \in [Inode -> Blocks]
              /\ held \in Inode \union {Odd}
              /\ size \in Nat
              /\ {pass, copy} \subseteq Blocks
              /\ step \in Step
              /\ changes \in 0..MaxChanges
              /\ touched \in 0..MaxChanges

FileInit == /\ name \in Inode \union {Odd}
            /\ data \in [Inode -> [DOMAIN Pinned -> Block]]
            /\ \E i \in Inode : data[i] = Pinned
            /\ held = Odd
            /\ size = 0
            /\ pass = <<>>
            /\ copy = <<>>
            /\ step = "shut"
            /\ changes = 0
            /\ touched = 0
-----------------------------------------------------------------------------
\* open_beneath and _held: one walk, one descriptor, one fstat.
OpenBeneath ==
  /\ step = "shut"
  /\ \/ name = Odd /\ step' = "bad" /\ UNCHANGED <<held, size>>
     \/ name # Odd /\ step' = "hash" /\ held' = name /\ size' = Len(data[name])
  /\ UNCHANGED <<source, pass, copy, touched>>

More == Len(pass) < Len(data[held])
Read == pass' = Append(pass, data[held][Len(pass) + 1])

\* The size and digest the manifest lists for the file.
Listed == size = Len(Pinned) /\ pass = Pinned

\* _digest when the file is opened, and the comparison with the manifest.
Hash ==
  /\ step = "hash"
  /\ \/ More /\ Read /\ UNCHANGED step
     \/ ~More /\ pass' = <<>> /\ step' = IF Listed THEN "copy" ELSE "bad"
  /\ UNCHANGED <<source, held, size, copy, touched>>

\* copy_to: a pass of its own over the held file.
Copy ==
  /\ step = "copy"
  /\ \/ More /\ Read /\ UNCHANGED step
     \/ ~More /\ UNCHANGED pass /\ step' = "recheck"
  /\ copy' = pass'
  /\ UNCHANGED <<source, held, size, touched>>

\* Mutant: revalidate() compares the fstat only.
MutRecheckSizeOnly ==
  /\ step = "recheck"
  /\ step' = IF Len(data[held]) = size THEN "good" ELSE "bad"
  /\ pass' = <<>>
  /\ UNCHANGED <<source, held, size, copy, touched>>

\* revalidate: the fstat, then the digest once more.
Recheck ==
  /\ step = "recheck"
  /\ step' = IF Len(data[held]) = size THEN "again" ELSE "bad"
  /\ pass' = <<>>
  /\ UNCHANGED <<source, held, size, copy, touched>>

HashAgain ==
  /\ step = "again"
  /\ \/ More /\ Read /\ UNCHANGED step
     \/ ~More /\ UNCHANGED pass /\ step' = IF Listed THEN "good" ELSE "bad"
  /\ UNCHANGED <<source, held, size, copy, touched>>

\* close(), on every way out of the with statement.
Close == /\ step' = "shut"
         /\ held' = Odd
         /\ size' = 0
         /\ pass' = <<>>
         /\ copy' = <<>>
         /\ touched' = 0
         /\ UNCHANGED source

Handle == OpenBeneath \/ Hash \/ Copy \/ Recheck \/ HashAgain
-----------------------------------------------------------------------------
\* Somebody writes to a file in place: a block changes, goes or is added.
WriteFile(i) ==
  /\ changes < MaxChanges
  /\ \/ \E k \in DOMAIN data[i], b \in Block :
          b # data[i][k] /\ data' = [data EXCEPT ![i][k] = b]
     \/ data[i] # <<>> /\ data' = [data EXCEPT ![i] = SubSeq(@, 1, Len(@) - 1)]
     \/ /\ Len(data[i]) <= Len(Pinned)
        /\ \E b \in Block : data' = [data EXCEPT ![i] = Append(@, b)]
  /\ changes' = changes + 1
  /\ touched' = IF i = held THEN touched + 1 ELSE touched
  /\ UNCHANGED <<name, held, size, pass, copy, step>>

\* Something else is put at the path.
Swap ==
  /\ changes < MaxChanges
  /\ name' \in (Inode \union {Odd}) \ {name}
  /\ changes' = changes + 1
  /\ UNCHANGED <<data, handle>>

Disturb == Swap \/ \E i \in Inode : WriteFile(i)

FileNext == Handle \/ Close \/ Disturb
FileSpec == FileInit /\ [][FileNext]_fileVars
-----------------------------------------------------------------------------
\* Whatever is put at the path, and whenever the held file is written to once,
\* a copy that passed revalidate() holds the listed bytes.  (A second write that
\* undoes the first may leave a wrong copy: only the check of the staged tree
\* refuses that one.)
RewriteDetected == step = "good" /\ touched <= 1 => copy = Pinned
=============================================================================
