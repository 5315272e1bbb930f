---------------------------- MODULE ArchiveExtract ----------------------------
(***************************************************************************)
(* safe_extract_tar and safe_extract_zip of kilix_content/install.py: what *)
(* is decided from the members' headers, and what extraction then writes.  *)
(* A member is a record of its kind, of whether its path stays inside the  *)
(* destination, and of the size its header states.                         *)
(***************************************************************************)
EXTENDS Integers, Sequences

CONSTANTS MaxMembers,  \* _MAX_ARCHIVE_MEMBERS
          MaxBytes     \* _MAX_ARCHIVE_BYTES

ASSUME LimitAssumption == {MaxMembers, MaxBytes} \subseteq Nat

Kind == {"file", "directory", "link"}

\* The members whose size _check_archive_budget is given: a tar's regular files,
\* all of a ZIP that is not a directory.
Counted(format, m) == m.kind = "file" \/ (format = "zip" /\ m.kind # "directory")

Exceeded == MaxBytes + 1

\* Mutant: a negative size is room for more.
MutAddSize(total, size) == IF total = Exceeded \/ size > MaxBytes - total
                           THEN Exceeded ELSE total + size

AddSize(total, size) == IF total = Exceeded \/ size < 0 \/ size > MaxBytes - total
                        THEN Exceeded ELSE total + size

\* The total of _check_archive_budget, after each of the members.
Totals(format, members) ==
  LET total[i \in 0..Len(members)] ==
        IF i = 0 THEN 0
        ELSE IF Counted(format, members[i]) THEN AddSize(total[i - 1], members[i].size)
        ELSE total[i - 1]
  IN total

WithinBudget(format, members) ==
  /\ Len(members) <= MaxMembers
  /\ Totals(format, members)[Len(members)] # Exceeded

\* _safe_member_path and the member's type.
Safe(member) == member.inside /\ member.kind \in {"file", "directory"}

Extractable(format, members) ==
  WithinBudget(format, members) /\ \A i \in DOMAIN members : Safe(members[i])

-----------------------------------------------------------------------------
\* What extractall has written after each of the members: its files' bytes.
Written(members) ==
  LET bytes[i \in 0..Len(members)] ==
        IF i = 0 THEN 0
        ELSE IF members[i].kind = "file" /\ members[i].size > 0
             THEN bytes[i - 1] + members[i].size
        ELSE bytes[i - 1]
  IN bytes

Bounded(members) == /\ Len(members) <= MaxMembers
                    /\ Written(members)[Len(members)] <= MaxBytes
                    /\ \A i \in DOMAIN members : Safe(members[i])

Sound(members) == \A i \in DOMAIN members : members[i].size >= 0
=============================================================================
