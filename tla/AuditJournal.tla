----------------------------- MODULE AuditJournal -----------------------------
(***************************************************************************)
(* The audit journal of a run (audit.py) and its verifier                  *)
(* (verify_audit_journal of rehearsal.py), as operators on a journal.      *)
(*                                                                         *)
(* An append opens the file, writes one line, which the operating system   *)
(* may take in pieces, and waits for fsync; only then does the next record *)
(* name this one's hash.  A failed append may have left nothing, a part of *)
(* the line, the line without its end, or all of it.  A hash is modelled   *)
(* by the number of the attempt that made the record: two records never    *)
(* have the same.                                                          *)
(***************************************************************************)
EXTENDS Naturals, Sequences, SequencesExt

NoHash == 0

\* What an append left in the file: a part of its line, the whole record
\* without the line's end, or the line.
Forms == {"torn", "bare", "line"}

Piece(id, previous, event, form) ==
  [id |-> id, previous |-> previous, event |-> event, form |-> form]

\* A journal: the file, what is known to be on the disk of it, the writer's
\* _previous_hash, and, for the properties, the attempts and the records
\* whose append returned.
EmptyJournal ==
  [file |-> <<>>, synced |-> 0, previous |-> NoHash, tries |-> 0, acked |-> <<>>]

Left(j, event, form) ==
  [j EXCEPT !.file = Append(@, Piece(j.tries + 1, j.previous, event, form)),
            !.tries = @ + 1]

\* The append returns.
Appended(j, event) ==
  LET left == Left(j, event, "line") IN
    [left EXCEPT !.synced = Len(left.file),
                 !.previous = left.tries,
                 !.acked = Append(@, left.tries)]

\* Bug: the next record names the failed one's hash.
NotAppendedButLinked(j, event) ==
  {[j EXCEPT !.tries = @ + 1]} \cup
    {[Left(j, event, form) EXCEPT !.previous = j.tries + 1] : form \in Forms}

\* The append raises, or its writer is killed in it.
NotAppended(j, event) ==
  {[j EXCEPT !.tries = @ + 1]} \cup {Left(j, event, form) : form \in Forms}

\* The machine stops: of what was not yet on the disk, any part may be lost.
Survivors(j) ==
  {[j EXCEPT !.file = SubSeq(@, 1, n)] : n \in j.synced .. Len(j.file)}

-------------------------------------------------------------------------------
\* The verifier.

\* A piece is a line of its own when the one before it ended its line; the
\* last line need not have an end.
OwnLine(file, k) == k = 1 \/ file[k - 1].form = "line"

\* Every line is one record, and names the hash of the one before it.
Verified(file) ==
  /\ file # <<>>
  /\ \A k \in DOMAIN file :
       /\ file[k].form # "torn" /\ OwnLine(file, k)
       /\ file[k].previous = IF k = 1 THEN NoHash ELSE file[k - 1].id

Ids(file) == [k \in DOMAIN file |-> file[k].id]
Events(file) == [k \in DOMAIN file |-> file[k].event]
===============================================================================
