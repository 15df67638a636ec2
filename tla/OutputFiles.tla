---------------------------- MODULE OutputFiles -----------------------------
(***************************************************************************)
(* The two files of a run: the closest candidate, replaced through a       *)
(* temporary file (write_closest_candidate of src/main.rs), and the output *)
(* file, to which the hit is written at the very end.  Any step of a save  *)
(* or of a write may fail; at any point the process may be killed, which   *)
(* is how a user stops a search, or the power may fail; and another run    *)
(* may follow, one at a time, on the same files.                           *)
(*                                                                         *)
(* Of the search, module SearchRun, there is left that the best candidate  *)
(* improves until the workers are joined.  A candidate is its score; an    *)
(* output record is three pieces, the last one its line end.               *)
(***************************************************************************)
EXTENDS Naturals, Sequences

CONSTANTS
  MaxRuns,   (* Bound: the runs one after the other.                       *)
  MaxScore,  (* The score of a hit.                                        *)
  None       (* No file.                                                   *)

ASSUME OutputFilesAssumption ==
  /\ {MaxRuns, MaxScore} \subseteq Nat \ {0}
  /\ None \notin [run : 1 .. MaxRuns, score : 1 .. MaxScore,
                  data : {"empty", "part", "whole"}, synced : BOOLEAN]

VARIABLES
  run,         (* The number of the run, 0 before the first.               *)
  pc,          (* Where main is; "off" when no process runs.               *)
  best,        (* The score in BestState, 0 for none.                      *)
  asked,       (* A save is requested: closest_tx, bounded(1).             *)
  fate,        (* What the scope returned: "none", "hit" or "error".       *)
  joined,      (* The workers are joined; the last save follows.           *)
  saved,       (* No save has failed after the join: closest_result.       *)
  temp,        (* The temporary file of a save.                            *)
  closest,     (* The closest-candidate file.                              *)
  entries,     (* The files a power loss may leave under its name.         *)
  out,         (* The pieces in the output file.                           *)
  outs,        (* The contents a power loss may leave in it.               *)
  unwritten,   (* What is left in the BufWriter of the output file.        *)
  ended,       (* How the last run ended.                                  *)
  kept         (* History: the runs that reported their hit as written.    *)

search == << best, asked >>

save == << temp, closest, entries >>

output == << out, outs, unwritten, kept >>

vars == << run, pc, fate, joined, saved, ended, search, save, output >>

Score == 1 .. MaxScore

(* A file is the record of one candidate, in full, in part or not yet, and *)
(* sync_all may have brought its data to the disk.                         *)
Inode == [run : 1 .. MaxRuns, score : Score,
          data : {"empty", "part", "whole"}, synced : BOOLEAN]

Piece == [run : 1 .. MaxRuns, part : 1 .. 3]

HitUnended(r) == [k \in 1 .. 2 |-> [run |-> r, part |-> k]]

HitRecord(r) == [k \in 1 .. 3 |-> [run |-> r, part |-> k]]

Init ==
  /\ run = 0
  /\ pc = "off"
  /\ best = 0
  /\ asked = FALSE
  /\ fate = "none"
  /\ joined = FALSE
  /\ saved = TRUE
  /\ temp = None
  /\ closest = None
  /\ entries = {None}
  /\ out = << >>
  /\ outs = {<< >>}
  /\ unwritten = << >>
  /\ ended = "lost"
  /\ kept = {}

-----------------------------------------------------------------------------
Exit(how) ==
  /\ pc' = "off"
  /\ ended' = how

(* A new run, with targets and a format of its own.                        *)
Start ==
  /\ pc = "off"
  /\ run < MaxRuns
  /\ run' = run + 1
  /\ pc' = "open"
  /\ best' = 0
  /\ asked' = FALSE
  /\ fate' = "none"
  /\ joined' = FALSE
  /\ saved' = TRUE
  /\ ended' = "running"
  /\ UNCHANGED << save, output >>

(* open_output: JSON always appends, text only with --append.  The opening *)
(* truncates; a failure to set the permissions comes after that.           *)
Truncated ==
  /\ out' = << >>
  /\ outs' = outs \union {<< >>}
  /\ kept' = {}

Untouched == UNCHANGED << out, outs, kept >>

OpenOutput ==
  /\ pc = "open"
  /\ \/ (Truncated \/ Untouched) /\ pc' = "search" /\ UNCHANGED ended
     \/ (Truncated \/ Untouched) /\ Exit("error")
  /\ UNCHANGED << run, fate, joined, saved, search, save, unwritten >>

(* A worker replaces the best candidate and asks for a save, until main    *)
(* has joined it.                                                          *)
Improve ==
  /\ pc \notin {"off", "open"}
  /\ ~ joined
  /\ best' \in {s \in Score : s > best}
  /\ asked' = TRUE
  /\ UNCHANGED << run, pc, fate, joined, saved, ended, save,
                  output >>

(* receive_hit returned: a hit, an error or nothing, or the error of a     *)
(* save; the workers are joined.  A hit outranks every candidate, but      *)
(* without a target nothing is a candidate.                                *)
Join ==
  /\ \/ pc = "search" /\ fate' \in {"none", "hit", "error"}
     \/ pc = "failed" /\ UNCHANGED fate
  /\ fate' = "hit" => best \in {0, MaxScore}
  /\ joined' = TRUE
  /\ pc' = "last save"
  /\ UNCHANGED << run, saved, ended, search, save, output >>

-----------------------------------------------------------------------------
(***************************************************************************)
(* save_closest and write_closest_candidate.                               *)
(***************************************************************************)
SaveDone == pc' = (IF joined THEN "decide" ELSE "search") /\ UNCHANGED << fate, saved >>

(* An error ends the search or, after the join, waits for the exit status. *)
SaveError ==
  IF joined THEN pc' = "decide" /\ saved' = FALSE /\ UNCHANGED fate
            ELSE pc' = "failed" /\ fate' = "error" /\ UNCHANGED saved

DropNothing == UNCHANGED temp

(* Dropping a NamedTempFile removes it, also as part of a PersistError.    *)
DropTemp == temp' = None

(* The snapshot of the best candidate, create_dir_all and new_in; without  *)
(* a candidate the file of an earlier run is removed, if there is one.     *)
BeginSave ==
  /\ \/ pc = "search" /\ asked
     \/ pc = "last save"
  /\ asked' = FALSE
  /\ \/ /\ best # 0
        /\ temp' = [run |-> run, score |-> best, data |-> "empty",
                    synced |-> FALSE]
        /\ pc' = "write"
        /\ UNCHANGED << closest, entries, fate, saved >>
     \/ /\ best = 0
        /\ closest' = None
        /\ entries' = entries \union {None}
        /\ SaveDone
        /\ UNCHANGED temp
     \/ SaveError /\ UNCHANGED save
  /\ UNCHANGED << run, best, joined, ended, output >>

(* to_writer_pretty and flush of a BufWriter.                              *)
WriteTemp ==
  /\ pc = "write"
  /\ \/ temp' = [temp EXCEPT !.data = "part"] /\ UNCHANGED << pc, fate, saved >>
     \/ temp' = [temp EXCEPT !.data = "whole"] /\ pc' = "sync"
        /\ UNCHANGED << fate, saved >>
     \/ DropTemp /\ SaveError
  /\ UNCHANGED << run, joined, ended, search, closest, entries,
                  output >>

SyncNothing ==
  /\ pc = "sync"
  /\ pc' = "rename"
  /\ UNCHANGED << run, joined, ended, search, fate, saved, save,
                  output >>

(* sync_all.                                                               *)
SyncTemp ==
  /\ pc = "sync"
  /\ \/ temp' = [temp EXCEPT !.synced = TRUE] /\ pc' = "rename"
        /\ UNCHANGED << fate, saved >>
     \/ DropTemp /\ SaveError
  /\ UNCHANGED << run, joined, ended, search, closest, entries,
                  output >>

(* persist: a rename over the old file, of which the directory is not      *)
(* synced.                                                                 *)
Persist ==
  /\ pc = "rename"
  /\ \/ /\ closest' = temp
        /\ entries' = entries \union {temp}
        /\ SaveDone
     \/ SaveError /\ UNCHANGED << closest, entries >>
  /\ DropTemp
  /\ UNCHANGED << run, joined, ended, search, output >>

-----------------------------------------------------------------------------
(***************************************************************************)
(* The end of main.                                                        *)
(***************************************************************************)
(* An error of the search or of the last save goes before the hit.         *)
NothingReceivedFailed == fate # "error"

NothingFailed == fate # "error" /\ saved

Decide ==
  /\ pc = "decide"
  /\ \/ ~ NothingFailed /\ Exit("error") /\ UNCHANGED unwritten
     \/ NothingFailed /\ fate = "none" /\ Exit("ok") /\ UNCHANGED unwritten
     \/ /\ NothingFailed /\ fate = "hit"
        /\ unwritten' = HitRecord(run)
        /\ pc' = "flush"
        /\ UNCHANGED ended
  /\ UNCHANGED << run, fate, joined, saved, search, save, out, outs,
                  kept >>

WritePiece ==
  /\ out' = Append(out, Head(unwritten))
  /\ outs' = outs \union {out'}
  /\ unwritten' = Tail(unwritten)

(* flush of the buffered record, smaller than the buffer: the write may be *)
(* cut short and may fail.                                                 *)
Flush ==
  /\ pc = "flush"
  /\ \/ /\ unwritten # << >>
        /\ WritePiece
        /\ UNCHANGED << pc, ended, kept >>
     \/ /\ unwritten = << >>
        /\ Exit("ok")
        /\ kept' = kept \union {run}
        /\ UNCHANGED << out, outs, unwritten >>
     \/ /\ unwritten # << >>
        /\ pc' = "drop"
        /\ UNCHANGED << ended, output >>
  /\ UNCHANGED << run, fate, joined, saved, search, save >>

(* On an error main returns, and BufWriter's drop tries what is left again,*)
(* without a look at the outcome.                                          *)
DropWriter ==
  /\ pc = "drop"
  /\ \/ /\ unwritten # << >>
        /\ WritePiece
        /\ UNCHANGED << pc, ended >>
     \/ /\ Exit("error")
        /\ unwritten' = << >>
        /\ UNCHANGED << out, outs >>
  /\ UNCHANGED << run, fate, joined, saved, search, save, kept >>

-----------------------------------------------------------------------------
(***************************************************************************)
(* The environment.                                                        *)
(***************************************************************************)
Kill ==
  /\ pc # "off"
  /\ Exit("killed")
  /\ temp' = None
  /\ unwritten' = << >>
  /\ UNCHANGED << run, fate, joined, saved, search, closest, entries, out, outs,
                  kept >>

(* The file system brings everything to the disk, sooner or later.         *)
Settled(f) == IF f = None THEN None ELSE [f EXCEPT !.synced = TRUE]

Settle ==
  /\ closest' = Settled(closest)
  /\ entries' = {Settled(closest)}
  /\ outs' = {out}
  /\ UNCHANGED << run, pc, fate, joined, saved, ended, search,
                  temp, out, unwritten, kept >>

(* What may be found of a file after a power loss.                         *)
Remains(f) ==
  IF f = None THEN {None}
  ELSE {g \in Inode : /\ << g.run, g.score >> = << f.run, f.score >>
                      /\ g.synced
                      /\ f.synced => g.data = f.data}

(* The runs whose hit is still there to the end.                           *)
Ending(o) == {o[i].run : i \in {j \in DOMAIN o : o[j].part = 3}}

PowerLoss ==
  /\ \E e \in entries : closest' \in Remains(e)
  /\ entries' = {closest'}
  /\ out' \in outs
  /\ outs' = {out'}
  /\ kept' = kept \intersect Ending(out')
  /\ pc' = "off"
  /\ ended' = "lost"
  /\ temp' = None
  /\ unwritten' = << >>
  /\ UNCHANGED << run, fate, joined, saved, search >>

Next ==
  \/ Start
  \/ OpenOutput
  \/ Improve
  \/ Join
  \/ BeginSave
  \/ WriteTemp
  \/ SyncTemp
  \/ Persist
  \/ Decide
  \/ Flush
  \/ DropWriter
  \/ Kill
  \/ Settle
  \/ PowerLoss

Spec == Init /\ [][Next]_vars

-----------------------------------------------------------------------------
(* Every variable has its type.                                            *)
TypeOK ==
  /\ run \in 0 .. MaxRuns
  /\ pc \in {"off", "open", "search", "failed", "write", "sync", "rename",
             "last save", "decide", "flush", "drop"}
  /\ best \in 0 .. MaxScore
  /\ {asked, joined, saved} \subseteq BOOLEAN
  /\ fate \in {"none", "hit", "error"}
  /\ {temp, closest} \subseteq Inode \union {None}
  /\ entries \subseteq Inode \union {None}
  /\ out \in Seq(Piece)
  /\ outs \subseteq Seq(Piece)
  /\ unwritten \in Seq(Piece)
  /\ ended \in {"running", "ok", "error", "killed", "lost"}
  /\ kept \subseteq 1 .. MaxRuns

(***************************************************************************)
(* A run that reports success has left its best candidate, in full, in the *)
(* closest-candidate file, or no file when it had none: never an earlier   *)
(* run's, an older one of its own or a part of one.  And one that ends by  *)
(* itself, with whatever error, leaves no temporary file with a key in it. *)
(***************************************************************************)
LeavesOnlyItsBest ==
  /\ ended = "ok" =>
       IF best = 0
         THEN closest = None
         ELSE /\ closest # None
              /\ << closest.run, closest.score, closest.data >> =
                   << run, best, "whole" >>
  /\ ended \in {"ok", "error"} => temp = None

(***************************************************************************)
(* Every hit reported as written is in the output file, in full and on a   *)
(* line of its own, however many runs have appended to it since.  Only a   *)
(* run that was cut off in its own write may leave a part of a line before *)
(* it.                                                                     *)
(***************************************************************************)
HitsKeepTheirLines ==
  \A r \in kept :
    \E i \in 1 .. Len(out) - 2 :
      /\ \A k \in 1 .. 3 : out[i + k - 1] = [run |-> r, part |-> k]
      /\ i > 1 => out[i - 1].part = 3 \/ out[i - 1].run \notin kept

(***************************************************************************)
(* The closest-candidate file changes as a whole, whatever fails and       *)
(* whenever the process is killed or the power lost.                       *)
(***************************************************************************)
NoFile == [run |-> 0, score |-> 0]

Torn == [run |-> 0, score |-> 1]

Shown(f) ==
  IF f = None THEN NoFile
  ELSE IF f.data = "whole" THEN [run |-> f.run, score |-> f.score] ELSE Torn

Atomic ==
  INSTANCE AtomicFile WITH
    Record <- [run : 1 .. MaxRuns, score : Score],
    NoFile <- NoFile,
    content <- Shown(closest),
    recoverable <- {Shown(f) : f \in UNION {Remains(e) : e \in entries}}

ImplementsAtomicFile == Atomic!Spec
=============================================================================
