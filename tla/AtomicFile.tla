----------------------------- MODULE AtomicFile -----------------------------
(***************************************************************************)
(* What write_closest_candidate (src/main.rs) promises to a reader of the  *)
(* closest-candidate file: a file that changes as a whole.  A replacement  *)
(* may still be undone by a power loss, as long as the file system has not *)
(* settled, but nothing between an old and a new content is ever seen.     *)
(***************************************************************************)
CONSTANTS
  Record,  (* The records that may be written.                             *)
  NoFile   (* What a reader finds where there is no file.                  *)

VARIABLES
  content,     (* What a reader finds.                                     *)
  recoverable  (* What a reader may find after a power loss.               *)

vars == << content, recoverable >>

Init ==
  /\ content = NoFile
  /\ recoverable = {NoFile}

Write(c) ==
  /\ content' = c
  /\ recoverable' = recoverable \union {c}

Settle ==
  /\ recoverable' = {content}
  /\ UNCHANGED content

PowerLoss ==
  /\ content' \in recoverable
  /\ recoverable' = {content'}

Next ==
  \/ \E c \in Record \union {NoFile} : Write(c)
  \/ Settle
  \/ PowerLoss

Spec == Init /\ [][Next]_vars
=============================================================================
