------------------------- MODULE OutputFilesProofs --------------------------
(***************************************************************************)
(* Proofs about OutputFiles, for any number of runs and of scores.         *)
(*                                                                         *)
(* The inductive invariant IInv says of the two files: a temporary file is *)
(* written in full before it is synced, and synced before it is renamed    *)
(* (Saving), so that everything that ever was the closest-candidate file   *)
(* is whole and on the disk (Whole); and every content the output file may *)
(* have after a power loss is a sequence of records of ever later runs,    *)
(* each of them in full or cut off (Lines), to which a run adds the pieces *)
(* that it still has in its buffer (Writing).                              *)
(***************************************************************************)
EXTENDS OutputFiles, TLAPS

(* Where main is, and whether it still waits for the workers.              *)
Running ==
  /\ ended = "running" <=> pc # "off"
  /\ pc # "off" => run # 0
  /\ pc \in {"open", "search", "failed"} => ~ joined
  /\ pc \in {"last save", "decide", "flush", "drop"} => joined

IsSaved ==
  IF best = 0
    THEN closest = None
    ELSE /\ closest # None
         /\ << closest.run, closest.score, closest.data >> = << run, best, "whole" >>

Saving ==
  /\ temp # None <=> pc \in {"write", "sync", "rename"}
  /\ temp # None => temp.run = run /\ (joined => temp.score = best)
  /\ pc \in {"sync", "rename"} => temp.data = "whole"
  /\ pc = "rename" => temp.synced
  /\ pc = "decide" /\ saved => IsSaved
  /\ pc \in {"flush", "drop"} => IsSaved
  /\ ended = "ok" => IsSaved

WholeFile(f) == f # None => f \in Inode /\ f.data = "whole" /\ f.synced

Whole ==
  /\ WholeFile(closest)
  /\ \A e \in entries : WholeFile(e)

(* The pieces of a record follow each other, and records those of earlier  *)
(* runs.                                                                   *)
Before(p, q) == p.run < q.run \/ (p.run = q.run /\ p.part < q.part)

Lines(o) ==
  /\ \A i, j \in 1 .. Len(o) : i < j => Before(o[i], o[j])
  /\ \A i \in 1 .. Len(o) :
       o[i].part > 1 => i > 1 /\ o[i - 1] = [run |-> o[i].run, part |-> o[i].part - 1]

Contents ==
  /\ out \in outs
  /\ \A o \in outs : Lines(o) /\ \A i \in 1 .. Len(o) : o[i].run <= run
  /\ kept \subseteq Ending(out)

(* What a run has still to write goes on where its pieces in the file end. *)
Ends(o, r, k) ==
  IF k = 0 THEN \A i \in 1 .. Len(o) : o[i].run < r
           ELSE o # << >> /\ o[Len(o)] = [run |-> r, part |-> k]

Writing ==
  /\ pc \notin {"off", "flush", "drop"} =>
       \A i \in 1 .. Len(out) : out[i].run < run
  /\ pc \in {"flush", "drop"} =>
       \E k \in 0 .. 3 :
         /\ Len(unwritten) = 3 - k
         /\ \A i \in 1 .. 3 - k : unwritten[i] = [run |-> run, part |-> k + i]
         /\ Ends(out, run, k)

IInv ==
  /\ TypeOK
  /\ Running
  /\ Saving
  /\ Whole
  /\ Contents
  /\ Writing

-----------------------------------------------------------------------------
(* The type invariant, one variable at a time.                             *)
LEMMA Constants ==
  /\ MaxRuns \in Nat \ {0} /\ MaxScore \in Nat \ {0}
  /\ None \notin Inode
BY OutputFilesAssumption DEF Inode, Score

LEMMA RecordPieces ==
  ASSUME NEW r \in 1 .. MaxRuns
  PROVE  HitRecord(r) \in Seq(Piece) /\ Len(HitRecord(r)) = 3
<1>1. \A k \in 1 .. 3 : [run |-> r, part |-> k] \in Piece
  BY DEF Piece
<1>. QED  BY <1>1 DEF HitRecord

LEMMA InitTypes == Init => TypeOK
<1>. SUFFICES ASSUME Init PROVE TypeOK
  OBVIOUS
<1>1. run \in 0 .. MaxRuns /\ best \in 0 .. MaxScore
  BY Constants DEF Init
<1>2. out \in Seq(Piece) /\ unwritten \in Seq(Piece) /\ outs \subseteq Seq(Piece)
  BY DEF Init
<1>. QED  BY <1>1, <1>2 DEF Init, TypeOK

(* What one piece more makes of the output file.                           *)
LEMMA PieceTypes ==
  ASSUME TypeOK, unwritten # << >>, WritePiece
  PROVE  /\ out' \in Seq(Piece) /\ outs' \subseteq Seq(Piece)
         /\ unwritten' \in Seq(Piece)
<1>1. /\ out \in Seq(Piece) /\ outs \subseteq Seq(Piece)
      /\ unwritten \in Seq(Piece)
  BY DEF TypeOK
<1>2. Head(unwritten) \in Piece /\ Tail(unwritten) \in Seq(Piece)
  BY <1>1
<1>3. out' \in Seq(Piece)
  BY <1>1, <1>2 DEF WritePiece
<1>. QED  BY <1>1, <1>2, <1>3 DEF WritePiece

LEMMA SaveTypes ==
  ASSUME TypeOK, Running, Saving,
         BeginSave \/ WriteTemp \/ SyncTemp \/ Persist
  PROVE  TypeOK'
<1>1. /\ run' = run /\ out' = out /\ outs' = outs /\ unwritten' = unwritten
      /\ kept' = kept /\ best' = best /\ ended' = ended /\ joined' = joined
  BY DEF BeginSave, WriteTemp, SyncTemp, Persist, output, search, save
<1>2. /\ pc' \in {"off", "open", "search", "failed", "write", "sync", "rename",
                  "last save", "decide", "flush", "drop"}
      /\ fate' \in {"none", "hit", "error"} /\ asked' \in BOOLEAN /\ saved' \in BOOLEAN
  BY DEF TypeOK, BeginSave, WriteTemp, SyncTemp, Persist, search, SaveDone, SaveError
<1>3. /\ {temp', closest'} \subseteq Inode \union {None}
      /\ entries' \subseteq Inode \union {None}
  <2>1. CASE BeginSave
    <3>1. ASSUME best # 0
          PROVE  [run |-> run, score |-> best, data |-> "empty",
                  synced |-> FALSE] \in Inode
      <4>1. run \in 0 .. MaxRuns /\ best \in 0 .. MaxScore /\ run # 0
        BY <2>1 DEF BeginSave, Running, TypeOK
      <4>2. run \in 1 .. MaxRuns /\ best \in Score
        BY <3>1, <4>1, Constants DEF Score
      <4>. QED  BY <4>2 DEF Inode
    <3>. QED  BY <2>1, <3>1 DEF TypeOK, BeginSave, SaveDone, SaveError, save
  <2>2. CASE WriteTemp
    <3>1. temp \in Inode
      BY <2>2 DEF TypeOK, WriteTemp, Saving
    <3>. QED  BY <2>2, <3>1 DEF TypeOK, WriteTemp, DropTemp, Inode
  <2>3. CASE SyncTemp
    <3>1. temp \in Inode
      BY <2>3 DEF TypeOK, SyncTemp, Saving
    <3>. QED  BY <2>3, <3>1 DEF TypeOK, SyncTemp, DropTemp, Inode
  <2>4. CASE Persist
    BY <2>4 DEF TypeOK, Persist, DropTemp
  <2>. QED  BY <2>1, <2>2, <2>3, <2>4
<1>. QED  BY <1>1, <1>2, <1>3 DEF TypeOK

LEMMA OtherTypes ==
  ASSUME TypeOK, Running,
         \/ Start \/ OpenOutput \/ Improve \/ Join \/ Decide \/ Flush
         \/ DropWriter \/ Kill \/ Settle \/ PowerLoss
  PROVE  TypeOK'
<1>1. /\ pc' \in {"off", "open", "search", "failed", "write", "sync", "rename",
                  "last save", "decide", "flush", "drop"}
      /\ ended' \in {"running", "ok", "error", "killed", "lost"}
  BY DEF TypeOK, Start, OpenOutput, Improve, Join, Decide, Flush, DropWriter, Kill,
         Settle, PowerLoss, Exit
<1>2. /\ fate' \in {"none", "hit", "error"}
      /\ asked' \in BOOLEAN /\ saved' \in BOOLEAN /\ joined' \in BOOLEAN
  BY DEF TypeOK, Start, OpenOutput, Improve, Join, Decide, Flush, DropWriter, Kill,
         Settle, PowerLoss, search, save
<1>3. run' \in 0 .. MaxRuns
  <2>1. run \in 0 .. MaxRuns
    BY DEF TypeOK
  <2>2. run' = run \/ (run < MaxRuns /\ run' = run + 1)
    BY DEF Start, OpenOutput, Improve, Join, Decide, Flush, DropWriter, Kill,
           Settle, PowerLoss
  <2>. QED  BY <2>1, <2>2, Constants
<1>4. best' \in 0 .. MaxScore
  <2>1. best \in 0 .. MaxScore
    BY DEF TypeOK
  <2>2. best' = best \/ best' = 0 \/ best' \in Score
    BY DEF Start, OpenOutput, Improve, Join, Decide, Flush, DropWriter, Kill,
           Settle, PowerLoss, search
  <2>. QED  BY <2>1, <2>2, Constants DEF Score
<1>5. kept' \subseteq 1 .. MaxRuns
  <2>1. pc # "off" => run \in 1 .. MaxRuns
    <3>1. run \in 0 .. MaxRuns /\ (pc # "off" => run # 0)
      BY DEF TypeOK, Running
    <3>. QED  BY <3>1, Constants
  <2>2. kept \subseteq 1 .. MaxRuns
    BY DEF TypeOK
  <2>3. \/ kept' \subseteq kept \/ (pc # "off" /\ kept' = kept \union {run})
    BY DEF Start, OpenOutput, Improve, Join, Decide, Flush, DropWriter, Kill,
           Settle, PowerLoss, output, Truncated, Untouched
  <2>. QED  BY <2>1, <2>2, <2>3
<1>6. /\ temp' \in Inode \union {None}
      /\ closest' \in Inode \union {None}
      /\ entries' \subseteq Inode \union {None}
  <2>1. ASSUME NEW f \in Inode \union {None}
        PROVE  /\ Settled(f) \in Inode \union {None}
               /\ Remains(f) \subseteq Inode \union {None}
    BY <2>1 DEF Settled, Remains, Inode
  <2>2. /\ temp \in Inode \union {None} /\ closest \in Inode \union {None}
        /\ entries \subseteq Inode \union {None}
    BY DEF TypeOK
  <2>3. temp' \in {temp, None}
    BY DEF Start, OpenOutput, Improve, Join, Decide, Flush, DropWriter, Kill,
           Settle, PowerLoss, save
  <2>4. \/ UNCHANGED << closest, entries >>
        \/ closest' = Settled(closest) /\ entries' = {Settled(closest)}
        \/ (\E e \in entries : closest' \in Remains(e)) /\ entries' = {closest'}
    BY DEF Start, OpenOutput, Improve, Join, Decide, Flush, DropWriter, Kill,
           Settle, PowerLoss, save
  <2>. QED  BY <2>1, <2>2, <2>3, <2>4
<1>7. out' \in Seq(Piece) /\ outs' \subseteq Seq(Piece) /\ unwritten' \in Seq(Piece)
  <2>1. /\ out \in Seq(Piece) /\ outs \subseteq Seq(Piece)
        /\ unwritten \in Seq(Piece)
    BY DEF TypeOK
  <2>2. << >> \in Seq(Piece)
    OBVIOUS
  <2>3. CASE unwritten # << >> /\ WritePiece
    BY <2>3, PieceTypes
  <2>4. CASE Decide
    <3>1. out' = out /\ outs' = outs
      BY <2>4 DEF Decide
    <3>2. unwritten' = unwritten \/ unwritten' = HitRecord(run)
      BY <2>4 DEF Decide
    <3>3. run \in 1 .. MaxRuns
      <4>1. run \in 0 .. MaxRuns /\ run # 0
        BY <2>4 DEF TypeOK, Running, Decide
      <4>. QED  BY <4>1, Constants
    <3>. QED  BY <2>1, <3>1, <3>2, <3>3, RecordPieces
  <2>5. CASE UNCHANGED << out, outs >> /\ unwritten' \in {unwritten, << >>}
    BY <2>1, <2>2, <2>5
  <2>6. CASE Truncated /\ unwritten' = unwritten
    BY <2>1, <2>2, <2>6 DEF Truncated
  <2>7. CASE /\ out' \in outs \union {out} /\ outs' \in {{out}, {out'}}
             /\ unwritten' \in {unwritten, << >>}
    BY <2>1, <2>2, <2>7
  <2>8. CASE Start \/ Improve \/ Join \/ Kill
    BY <2>5, <2>8 DEF Start, Improve, Join, Kill, output
  <2>9. CASE OpenOutput
    BY <2>5, <2>6, <2>9 DEF OpenOutput, Untouched
  <2>10. CASE Flush \/ DropWriter
    BY <2>3, <2>5, <2>10 DEF Flush, DropWriter, output
  <2>11. CASE Settle \/ PowerLoss
    BY <2>7, <2>11 DEF Settle, PowerLoss
  <2>. QED  BY <2>4, <2>8, <2>9, <2>10, <2>11
<1>. QED  BY <1>1, <1>2, <1>3, <1>4, <1>5, <1>6, <1>7 DEF TypeOK

-----------------------------------------------------------------------------
(* The closest-candidate file.  With everything that was ever renamed on   *)
(* the disk, a power loss finds it as it was.                              *)
Closest == Running /\ Saving /\ Whole

LEMMA WholeRemains ==
  ASSUME NEW f, WholeFile(f)
  PROVE  Remains(f) = {f} /\ Settled(f) = f
<1>1. CASE f = None
  BY <1>1 DEF Remains, Settled
<1>2. CASE f # None
  <2>1. f \in Inode /\ f.data = "whole" /\ f.synced = TRUE
    BY <1>2 DEF WholeFile, Inode
  <2>2. ASSUME NEW g \in Inode, g.run = f.run, g.score = f.score,
               g.synced, g.data = f.data
        PROVE  g = f
    BY <2>1, <2>2 DEF Inode
  <2>3. Remains(f) = {g \in Inode : /\ << g.run, g.score >> = << f.run, f.score >>
                                    /\ g.synced
                                    /\ f.synced => g.data = f.data}
    BY <1>2 DEF Remains
  <2>4. Settled(f) = f
    BY <1>2, <2>1 DEF Settled, Inode
  <2>. QED  BY <2>1, <2>2, <2>3, <2>4
<1>. QED  BY <1>1, <1>2

LEMMA SaveSteps ==
  ASSUME TypeOK, Closest
  PROVE  /\ BeginSave => Closest'
         /\ WriteTemp => Closest'
         /\ SyncTemp => Closest'
         /\ Persist => Closest'
<1>. USE DEF Closest
<1>1. temp # None => temp \in Inode
  BY DEF TypeOK
<1>2. ASSUME BeginSave PROVE Closest'
  <2>0. best # 0 => [run |-> run, score |-> best, data |-> "empty",
                     synced |-> FALSE] # None
    <3>1. run \in 0 .. MaxRuns /\ best \in 0 .. MaxScore /\ run # 0
      BY <1>2 DEF BeginSave, Running, TypeOK
    <3>2. best # 0 => run \in 1 .. MaxRuns /\ best \in Score
      BY <3>1, Constants DEF Score
    <3>3. best # 0 => [run |-> run, score |-> best, data |-> "empty",
                       synced |-> FALSE] \in Inode
      BY <3>2 DEF Inode
    <3>. QED  BY <3>3, Constants
  <2>1. Running'
    BY <1>2 DEF BeginSave, Running, SaveDone, SaveError
  <2>2. Whole'
    BY <1>2 DEF BeginSave, Whole, WholeFile, save
  <2>3. Saving'
    <3>1. CASE best # 0 /\ temp' # None
      <4>1. /\ temp' = [run |-> run, score |-> best, data |-> "empty",
                        synced |-> FALSE]
            /\ pc' = "write" /\ UNCHANGED << run, best, ended >>
        BY <1>2, <3>1 DEF BeginSave, Saving, save
      <4>2. ended # "ok"
        BY <1>2 DEF BeginSave, Running
      <4>. QED  BY <3>1, <4>1, <4>2 DEF Saving
    <3>2. CASE ~ (best # 0 /\ temp' # None)
      <4>1. temp = None /\ temp' = None
        BY <1>2, <2>0, <3>2 DEF BeginSave, Saving, save
      <4>2. \/ best = 0 /\ closest' = None /\ SaveDone
            \/ SaveError
        BY <1>2, <2>0, <3>2, <4>1 DEF BeginSave
      <4>3. UNCHANGED << run, best, ended, joined >> /\ ended # "ok"
        BY <1>2 DEF BeginSave, Running
      <4>. QED  BY <1>2, <4>1, <4>2, <4>3
                DEF BeginSave, Saving, IsSaved, SaveDone, SaveError, Running
    <3>. QED  BY <3>1, <3>2
  <2>. QED  BY <2>1, <2>2, <2>3
<1>3. ASSUME WriteTemp PROVE Closest'
  <2>1. Running'
    BY <1>3 DEF WriteTemp, Running, SaveError, search
  <2>2. Whole'
    BY <1>3 DEF WriteTemp, Whole, WholeFile
  <2>3. Saving'
    <3>1. temp \in Inode /\ temp # None /\ ended # "ok"
      BY <1>1, <1>3 DEF WriteTemp, Saving, Running
    <3>2. \A d \in {"part", "whole"} :
            /\ [temp EXCEPT !.data = d] \in Inode
            /\ [temp EXCEPT !.data = d].data = d
            /\ [temp EXCEPT !.data = d].run = temp.run
            /\ [temp EXCEPT !.data = d].score = temp.score
      BY <3>1 DEF Inode
    <3>3. /\ temp' # None <=> pc' \in {"write", "sync", "rename"}
          /\ temp' # None => temp'.run = temp.run /\ temp'.score = temp.score
          /\ pc' \in {"sync", "rename"} => temp'.data = "whole"
          /\ pc' # "rename" /\ pc' \notin {"flush", "drop"}
          /\ pc' = "decide" => ~ saved'
      BY <1>3, <3>2, Constants DEF WriteTemp, SaveError, DropTemp
    <3>. QED  BY <1>3, <3>1, <3>3 DEF WriteTemp, Saving, search
  <2>. QED  BY <2>1, <2>2, <2>3
<1>4. ASSUME SyncTemp PROVE Closest'
  <2>1. Running'
    BY <1>4 DEF SyncTemp, Running, SaveError, search
  <2>2. Whole'
    BY <1>4 DEF SyncTemp, Whole, WholeFile
  <2>3. Saving'
    <3>1. temp \in Inode /\ temp # None /\ ended # "ok"
      BY <1>1, <1>4 DEF SyncTemp, Saving, Running
    <3>2. /\ [temp EXCEPT !.synced = TRUE] \in Inode
          /\ [temp EXCEPT !.synced = TRUE].synced = TRUE
          /\ [temp EXCEPT !.synced = TRUE].data = temp.data
          /\ [temp EXCEPT !.synced = TRUE].run = temp.run
          /\ [temp EXCEPT !.synced = TRUE].score = temp.score
      BY <3>1 DEF Inode
    <3>3. /\ temp' # None <=> pc' \in {"write", "sync", "rename"}
          /\ temp' # None => /\ temp'.run = temp.run /\ temp'.score = temp.score
                             /\ temp'.data = temp.data /\ temp'.synced
          /\ pc' \notin {"flush", "drop"}
          /\ pc' = "decide" => ~ saved'
      BY <1>4, <3>2, Constants DEF SyncTemp, SaveError, DropTemp
    <3>. QED  BY <1>4, <3>1, <3>3 DEF SyncTemp, Saving, search
  <2>. QED  BY <2>1, <2>2, <2>3
<1>5. ASSUME Persist PROVE Closest'
  <2>1. Running'
    BY <1>5 DEF Persist, Running, SaveDone, SaveError, search
  <2>2. temp \in Inode /\ temp # None /\ ended # "ok" /\ WholeFile(temp)
    BY <1>1, <1>5 DEF Persist, Saving, Running, WholeFile
  <2>3. Whole'
    BY <1>5, <2>2 DEF Persist, Whole, WholeFile
  <2>4. Saving'
    <3>1. /\ temp' = None /\ pc' \notin {"write", "sync", "rename", "flush", "drop"}
          /\ UNCHANGED << run, best, joined, ended >>
      BY <1>5 DEF Persist, SaveDone, SaveError, DropTemp, search
    <3>2. pc' = "decide" /\ saved' => joined /\ closest' = temp
      BY <1>5 DEF Persist, SaveDone, SaveError
    <3>3. joined => best # 0 /\ temp.run = run /\ temp.score = best /\ temp.data = "whole"
      <4>1. temp.score \in Score /\ 0 \notin Score
        BY <2>2, Constants DEF Inode, Score
      <4>. QED  BY <1>5, <2>2, <4>1 DEF Persist, Saving
    <3>. QED  BY <2>2, <3>1, <3>2, <3>3 DEF Saving, IsSaved
  <2>. QED  BY <2>1, <2>3, <2>4
<1>. QED  BY <1>2, <1>3, <1>4, <1>5

LEMMA OtherSteps ==
  ASSUME TypeOK, Closest,
         \/ Start \/ OpenOutput \/ Improve \/ Join \/ Decide \/ Flush
         \/ DropWriter \/ Kill \/ Settle \/ PowerLoss
  PROVE  Closest'
<1>. USE DEF Closest
<1>1. Running'
  <2>1. run \in 0 .. MaxRuns
    BY DEF TypeOK
  <2>2. run + 1 # 0
    BY <2>1, Constants
  <2>3. CASE Start
    BY <2>2, <2>3 DEF Start, Running
  <2>4. CASE OpenOutput
    BY <2>4 DEF OpenOutput, Exit, Running
  <2>8. CASE Improve
    <3>1. UNCHANGED << run, pc, joined, ended >>
      BY <2>8 DEF Improve
    <3>. QED  BY <3>1 DEF Running
  <2>5. CASE Join \/ Decide
    BY <2>5 DEF Join, Decide, Exit, Running
  <2>6. CASE Flush \/ DropWriter \/ Kill
    BY <2>6 DEF Flush, DropWriter, Kill, Exit, Running
  <2>7. CASE Settle
    <3>1. UNCHANGED << run, pc, joined, ended >>
      BY <2>7 DEF Settle
    <3>. QED  BY <3>1 DEF Running
  <2>9. CASE PowerLoss
    BY <2>9 DEF PowerLoss, Running
  <2>. QED  BY <2>3, <2>4, <2>5, <2>6, <2>7, <2>8, <2>9
<1>2. CASE Start
  BY <1>1, <1>2 DEF Start, Saving, Whole, WholeFile, save
<1>3. CASE OpenOutput
  BY <1>1, <1>3 DEF OpenOutput, Exit, Saving, Whole, WholeFile, Running, IsSaved,
                    save, search
<1>4. CASE Improve
  BY <1>1, <1>4 DEF Improve, Saving, Whole, WholeFile, Running, save
<1>5. CASE Join
  BY <1>1, <1>5 DEF Join, Saving, Whole, WholeFile, Running, IsSaved, save, search
<1>6. CASE Decide
  BY <1>1, <1>6 DEF Decide, NothingFailed, Exit, Saving, Whole, WholeFile, Running,
                    IsSaved, save, search
<1>7. CASE Flush
  BY <1>1, <1>7 DEF Flush, Exit, Saving, Whole, WholeFile, Running, IsSaved, save,
                    search
<1>8. CASE DropWriter
  BY <1>1, <1>8 DEF DropWriter, Exit, Saving, Whole, WholeFile, Running, IsSaved,
                    save, search
<1>9. CASE Kill
  BY <1>1, <1>9 DEF Kill, Exit, Saving, Whole, WholeFile, Running, search
<1>10. CASE Settle
  <2>1. closest' = closest /\ entries' = {closest}
    BY <1>10, WholeRemains DEF Settle, Whole
  <2>2. Whole'
    BY <2>1 DEF Whole, WholeFile
  <2>. QED  BY <1>1, <1>10, <2>1, <2>2 DEF Settle, Saving, IsSaved, search
<1>11. CASE PowerLoss
  <2>1. closest' \in entries /\ entries' = {closest'}
    BY <1>11, WholeRemains DEF PowerLoss, Whole
  <2>2. Whole'
    BY <2>1 DEF Whole, WholeFile
  <2>. QED  BY <1>1, <1>11, <2>2 DEF PowerLoss, Saving, search
<1>. QED
  BY <1>2, <1>3, <1>4, <1>5, <1>6, <1>7, <1>8, <1>9, <1>10, <1>11

-----------------------------------------------------------------------------
(* The output file.  A record goes after those of the earlier runs, piece  *)
(* by piece.                                                               *)
Written == Running /\ Contents /\ Writing

LEMMA OnePieceMore ==
  ASSUME NEW o \in Seq(Piece), Lines(o), NEW r \in 1 .. MaxRuns, NEW k \in 0 .. 2,
         Ends(o, r, k)
  PROVE  Lines(Append(o, [run |-> r, part |-> k + 1]))
<1>. DEFINE p == [run |-> r, part |-> k + 1]
            more == Append(o, p)
<1>1. /\ Len(o) \in Nat /\ Len(more) = Len(o) + 1 /\ more # << >>
      /\ \A i \in 1 .. Len(o) : more[i] = o[i]
      /\ more[Len(o) + 1] = p
  OBVIOUS
<1>2. \A i \in 1 .. Len(o) : o[i] \in Piece
  OBVIOUS
<1>3. p.run = r /\ p.part = k + 1
  OBVIOUS
<1>. HIDE DEF p, more
<1>4. r \in Nat /\ \A i \in 1 .. Len(o) : o[i].run \in Nat /\ o[i].part \in 1 .. 3
  BY <1>2, Constants DEF Piece
<1>5. \A i \in 1 .. Len(o) : Before(o[i], p)
  <2>1. CASE k = 0
    BY <1>3, <2>1 DEF Before, Ends
  <2>2. CASE k # 0
    <3>1. o[Len(o)].run = r /\ o[Len(o)].part = k /\ Len(o) \in 1 .. Len(o)
      BY <1>1, <2>2 DEF Ends
    <3>2. ASSUME NEW i \in 1 .. Len(o), i # Len(o) PROVE Before(o[i], o[Len(o)])
      <4>1. i < Len(o)
        BY <1>1, <3>2
      <4>. QED  BY <3>1, <4>1 DEF Lines
    <3>. QED  BY <1>3, <1>4, <3>1, <3>2 DEF Before, Ends
  <2>. QED  BY <2>1, <2>2
<1>6. \A i, j \in 1 .. Len(more) : i < j => Before(more[i], more[j])
  BY <1>1, <1>5 DEF Lines
<1>7. ASSUME NEW i \in 1 .. Len(more), more[i].part > 1
      PROVE  i > 1 /\ more[i - 1] = [run |-> more[i].run, part |-> more[i].part - 1]
  <2>1. CASE i = Len(o) + 1
    <3>1. k # 0 /\ more[i] = p /\ i > 1 /\ i - 1 = Len(o) /\ i - 1 \in 1 .. Len(o)
      BY <1>1, <1>3, <1>7, <2>1 DEF Ends
    <3>2. more[i - 1] = [run |-> r, part |-> k]
      BY <1>1, <3>1 DEF Ends
    <3>3. p.part - 1 = k
      BY <1>3
    <3>. QED  BY <1>3, <3>1, <3>2, <3>3
  <2>2. CASE i # Len(o) + 1
    <3>1. i \in 1 .. Len(o) /\ more[i] = o[i]
      BY <1>1, <2>2
    <3>2. i > 1 /\ o[i - 1] = [run |-> o[i].run, part |-> o[i].part - 1]
      BY <1>7, <3>1 DEF Lines
    <3>. QED  BY <1>1, <3>1, <3>2
  <2>. QED  BY <2>1, <2>2
<1>8. Lines(more)
  BY <1>6, <1>7 DEF Lines
<1>. QED  BY <1>8 DEF more, p

LEMMA EndingKept ==
  ASSUME NEW o \in Seq(Piece), NEW more \in Seq(Piece), Len(o) <= Len(more),
         \A i \in 1 .. Len(o) : more[i] = o[i]
  PROVE  Ending(o) \subseteq Ending(more)
<1>. SUFFICES ASSUME NEW i \in 1 .. Len(o), o[i].part = 3
              PROVE  o[i].run \in Ending(more)
  BY DEF Ending
<1>1. i \in 1 .. Len(more) /\ more[i] = o[i] /\ DOMAIN more = 1 .. Len(more)
  OBVIOUS
<1>. QED  BY <1>1 DEF Ending

(* Where main is neither before nor in its own write, the contents of the  *)
(* file are none of this step's business.                                  *)
LEMMA QuietStep ==
  ASSUME Written, UNCHANGED << run, out, outs, kept >>, pc' \notin {"flush", "drop"},
         pc' = "off" \/ pc \notin {"off", "flush", "drop"}
  PROVE  Contents' /\ Writing'
<1>1. Contents'
  BY DEF Written, Contents
<1>2. Writing'
  BY DEF Written, Writing
<1>. QED  BY <1>1, <1>2

LEMMA PieceStep ==
  ASSUME TypeOK, Written, pc \in {"flush", "drop"}, unwritten # << >>, WritePiece,
         UNCHANGED << run, pc, kept >>
  PROVE  Contents' /\ Writing'
<1>1. /\ out \in Seq(Piece) /\ outs \subseteq Seq(Piece) /\ unwritten \in Seq(Piece)
      /\ kept \subseteq Ending(out) /\ out \in outs
      /\ \A o \in outs : Lines(o) /\ \A i \in 1 .. Len(o) : o[i].run <= run
  BY DEF TypeOK, Written, Contents
<1>2. run \in 1 .. MaxRuns /\ run \in Nat
  <2>1. run \in 0 .. MaxRuns /\ run # 0
    BY DEF TypeOK, Written, Running
  <2>. QED  BY <2>1, Constants
<1>3. PICK k \in 0 .. 3 :
        /\ Len(unwritten) = 3 - k
        /\ \A i \in 1 .. 3 - k : unwritten[i] = [run |-> run, part |-> k + i]
        /\ Ends(out, run, k)
  BY DEF Written, Writing
<1>4. k \in 0 .. 2
  <2>1. Len(unwritten) # 0
    BY <1>1
  <2>. QED  BY <1>3, <2>1
<1>5. Head(unwritten) = [run |-> run, part |-> k + 1]
  <2>1. 1 \in 1 .. 3 - k /\ Head(unwritten) = unwritten[1]
    BY <1>1, <1>4
  <2>. QED  BY <1>3, <2>1
<1>6. /\ Lines(out') /\ out' # << >>
      /\ out'[Len(out')] = [run |-> run, part |-> k + 1]
      /\ Len(out') = Len(out) + 1
      /\ \A i \in 1 .. Len(out) : out'[i] = out[i]
  <2>1. Lines(out)
    BY <1>1
  <2>2. out' = Append(out, [run |-> run, part |-> k + 1])
    BY <1>5 DEF WritePiece
  <2>3. Ends(out, run, k)
    BY <1>3
  <2>4. out \in Seq(Piece) /\ run \in 1 .. MaxRuns /\ k \in 0 .. 2
    BY <1>1, <1>2, <1>4
  <2>5. Lines(out')
    BY <2>1, <2>2, <2>3, <2>4, OnePieceMore
  <2>6. /\ out' # << >> /\ Len(out') = Len(out) + 1
        /\ out'[Len(out')] = [run |-> run, part |-> k + 1]
        /\ \A i \in 1 .. Len(out) : out'[i] = out[i]
    BY <2>2, <2>4
  <2>. QED  BY <2>5, <2>6
<1>7. out' \in Seq(Piece) /\ outs' = outs \union {out'} /\ unwritten' = Tail(unwritten)
  BY PieceTypes DEF WritePiece
<1>8. \A i \in 1 .. Len(out') : out'[i].run <= run
  <2>1. ASSUME NEW i \in 1 .. Len(out') PROVE out'[i].run <= run
    <3>1. CASE i = Len(out')
      BY <1>2, <1>6, <3>1
    <3>2. CASE i # Len(out')
      <4>1. i \in 1 .. Len(out)
        BY <1>1, <1>6, <3>2
      <4>. QED  BY <1>1, <1>6, <4>1
    <3>. QED  BY <3>1, <3>2
  <2>. QED  BY <2>1
<1>9. Contents'
  <2>1. Len(out) <= Len(out')
    BY <1>1, <1>6
  <2>2. Ending(out) \subseteq Ending(out')
    BY <1>1, <1>6, <1>7, <2>1, EndingKept
  <2>3. kept' \subseteq Ending(out')
    BY <1>1, <2>2
  <2>4. \A o \in outs' : Lines(o) /\ \A i \in 1 .. Len(o) : o[i].run <= run
    BY <1>1, <1>6, <1>7, <1>8
  <2>. QED  BY <1>7, <2>3, <2>4 DEF Contents, Lines, Before, Ending
<1>10. Writing'
  <2>1. /\ Len(Tail(unwritten)) = 3 - (k + 1)
        /\ \A i \in 1 .. 3 - (k + 1) : Tail(unwritten)[i] = unwritten[i + 1]
    BY <1>1, <1>3, <1>4
  <2>2. \A i \in 1 .. 3 - (k + 1) :
          unwritten[i + 1] = [run |-> run, part |-> (k + 1) + i]
    <3>1. ASSUME NEW i \in 1 .. 3 - (k + 1)
          PROVE  unwritten[i + 1] = [run |-> run, part |-> (k + 1) + i]
      <4>1. i + 1 \in 1 .. 3 - k /\ k + (i + 1) = (k + 1) + i
        BY <1>4
      <4>. QED  BY <1>3, <4>1
    <3>. QED  BY <3>1
  <2>3. k + 1 \in 0 .. 3 /\ k + 1 # 0
    BY <1>4
  <2>. QED  BY <1>6, <1>7, <2>1, <2>2, <2>3 DEF Writing, Ends
<1>. QED  BY <1>9, <1>10

LEMMA WrittenSteps ==
  ASSUME TypeOK, Written, Running', Next
  PROVE  Contents' /\ Writing'
<1>1. /\ out \in Seq(Piece) /\ outs \subseteq Seq(Piece)
      /\ kept \subseteq Ending(out) /\ out \in outs
      /\ \A o \in outs : Lines(o) /\ \A i \in 1 .. Len(o) : o[i].run <= run
      /\ run \in 0 .. MaxRuns
  BY DEF TypeOK, Written, Contents
<1>2. ASSUME NEW o \in outs, NEW i \in 1 .. Len(o) PROVE o[i].run \in Nat
  <2>1. o[i] \in Piece
    BY <1>1
  <2>. QED  BY <2>1, Constants DEF Piece
<1>3. CASE Start
  <2>1. run' = run + 1 /\ UNCHANGED << out, outs, kept >> /\ pc' = "open"
    BY <1>3 DEF Start, output
  <2>2. \A o \in outs : \A i \in 1 .. Len(o) : o[i].run <= run + 1 /\ o[i].run < run + 1
    BY <1>1, <1>2, Constants
  <2>. QED  BY <1>1, <2>1, <2>2 DEF Contents, Writing
<1>4. CASE OpenOutput
  <2>1. pc = "open" /\ pc' \in {"search", "off"} /\ run' = run
    BY <1>4 DEF OpenOutput, Exit
  <2>2. CASE Truncated
    <3>1. out' = << >> /\ outs' = outs \union {<< >>} /\ kept' = {}
      BY <2>2 DEF Truncated
    <3>2. Lines(<< >>) /\ Len(<< >>) = 0
      BY DEF Lines
    <3>. QED  BY <1>1, <2>1, <3>1, <3>2 DEF Contents, Writing
  <2>3. CASE Untouched
    BY <2>1, <2>3, QuietStep DEF Untouched
  <2>. QED  BY <1>4, <2>2, <2>3 DEF OpenOutput
<1>5. CASE Improve \/ Join \/ BeginSave \/ WriteTemp \/ SyncTemp \/ Persist
  <2>1. UNCHANGED << run, out, outs, kept, unwritten >>
    BY <1>5 DEF Improve, Join, BeginSave, WriteTemp, SyncTemp, Persist, output
  <2>2. CASE Improve
    <3>1. pc' = pc
      BY <2>2 DEF Improve
    <3>. QED  BY <2>1, <3>1 DEF Written, Contents, Writing, Ends
  <2>3. CASE ~ Improve
    <3>1. /\ pc \notin {"off", "flush", "drop"}
          /\ pc' \notin {"flush", "drop"}
      BY <1>5, <2>3 DEF Join, BeginSave, WriteTemp, SyncTemp, Persist,
                        SaveDone, SaveError
    <3>. QED  BY <2>1, <3>1, QuietStep
  <2>. QED  BY <2>2, <2>3
<1>6. CASE Decide
  <2>1. UNCHANGED << run, out, outs, kept >> /\ pc = "decide"
    BY <1>6 DEF Decide
  <2>2. CASE pc' = "off"
    BY <2>1, <2>2, QuietStep
  <2>3. CASE pc' = "flush" /\ unwritten' = HitRecord(run)
    <3>1. Contents'
      BY <2>1 DEF Written, Contents
    <3>2. \A i \in 1 .. Len(out) : out[i].run < run
      BY <2>1 DEF Written, Writing
    <3>3. /\ Len(HitRecord(run)) = 3 - 0
          /\ \A i \in 1 .. 3 - 0 : HitRecord(run)[i] = [run |-> run, part |-> 0 + i]
      BY DEF HitRecord
    <3>4. Writing'
      BY <2>1, <2>3, <3>2, <3>3 DEF Writing, Ends
    <3>. QED  BY <3>1, <3>4
  <2>. QED  BY <1>6, <2>2, <2>3 DEF Decide, Exit
<1>7. CASE Flush \/ DropWriter
  <2>1. pc \in {"flush", "drop"} /\ run' = run
    BY <1>7 DEF Flush, DropWriter
  <2>2. CASE unwritten # << >> /\ WritePiece /\ UNCHANGED << pc, kept >>
    BY <2>1, <2>2, PieceStep
  <2>3. CASE Flush /\ unwritten = << >> /\ pc' = "off"
    <3>1. /\ UNCHANGED << out, outs, unwritten >> /\ kept' = kept \union {run}
      BY <2>3 DEF Flush, output
    <3>2. out # << >> /\ out[Len(out)] = [run |-> run, part |-> 3]
      <4>1. PICK k \in 0 .. 3 :
              /\ Len(unwritten) = 3 - k
              /\ Ends(out, run, k)
        BY <2>1 DEF Written, Writing
      <4>2. Len(unwritten) = 0
        BY <2>3
      <4>3. k = 3
        BY <4>1, <4>2
      <4>. QED  BY <4>1, <4>3 DEF Ends
    <3>3. run \in Ending(out)
      <4>1. /\ Len(out) \in DOMAIN out /\ out[Len(out)].part = 3
            /\ out[Len(out)].run = run
        BY <1>1, <3>2
      <4>. QED  BY <4>1 DEF Ending
    <3>4. Contents'
      BY <1>1, <2>1, <3>1, <3>3 DEF Contents
    <3>. QED  BY <2>3, <3>4 DEF Writing
  <2>4. CASE UNCHANGED << out, outs, unwritten, kept >> /\ pc' = "drop"
    BY <2>1, <2>4 DEF Written, Contents, Writing, Ends
  <2>5. CASE UNCHANGED << out, outs, kept >> /\ pc' = "off"
    BY <2>1, <2>5, QuietStep
  <2>. QED  BY <1>7, <2>2, <2>3, <2>4, <2>5 DEF Flush, DropWriter, Exit, output
<1>8. CASE Kill
  BY <1>8, QuietStep DEF Kill, Exit
<1>9. CASE Settle
  <2>1. outs' = {out} /\ UNCHANGED << run, pc, out, unwritten, kept >>
    BY <1>9 DEF Settle
  <2>. QED  BY <1>1, <2>1 DEF Written, Contents, Writing, Ends
<1>10. CASE PowerLoss
  <2>1. /\ out' \in outs /\ outs' = {out'} /\ kept' \subseteq Ending(out')
        /\ run' = run /\ pc' = "off"
    BY <1>10 DEF PowerLoss
  <2>. QED  BY <1>1, <2>1 DEF Contents, Writing
<1>. QED
  BY <1>3, <1>4, <1>5, <1>6, <1>7, <1>8, <1>9, <1>10 DEF Next

-----------------------------------------------------------------------------
LEMMA InitIInv == Init => IInv
<1>. SUFFICES ASSUME Init PROVE IInv
  OBVIOUS
<1>1. Lines(<< >>) /\ Len(<< >>) = 0
  BY DEF Lines
<1>2. Contents /\ Writing
  BY <1>1 DEF Init, Contents, Writing
<1>3. Running /\ Saving /\ Whole
  BY DEF Init, Running, Saving, Whole, WholeFile
<1>. QED  BY <1>2, <1>3, InitTypes DEF IInv

LEMMA NextIInv == IInv /\ [Next]_vars => IInv'
<1>. SUFFICES ASSUME IInv, [Next]_vars PROVE IInv'
  OBVIOUS
<1>1. CASE UNCHANGED vars
  BY <1>1 DEF vars, search, save, output, IInv, TypeOK, Running, Saving, IsSaved,
              Whole, WholeFile, Contents, Writing
<1>2. CASE Next
  <2>1. TypeOK /\ Closest /\ Written /\ Running /\ Saving
    BY DEF IInv, Closest, Written
  <2>2. TypeOK' /\ Closest'
    BY <1>2, <2>1, SaveTypes, OtherTypes, SaveSteps, OtherSteps DEF Next
  <2>3. Contents' /\ Writing'
    BY <1>2, <2>1, <2>2, WrittenSteps DEF Closest
  <2>. QED  BY <2>2, <2>3 DEF IInv, Closest
<1>. QED  BY <1>1, <1>2

(* IInv is inductive: it holds however the saves, the writes, the kills    *)
(* and the power losses of all runs follow each other.                     *)
THEOREM Invariance == Spec => []IInv
  BY InitIInv, NextIInv, PTL DEF Spec

-----------------------------------------------------------------------------
(* save_closest, its use after the join, and the exit status of main.      *)
THEOREM ClosestIsBest == Spec => []LeavesOnlyItsBest
<1>1. IInv => LeavesOnlyItsBest
  BY DEF IInv, Running, Saving, IsSaved, LeavesOnlyItsBest
<1>. QED  BY <1>1, Invariance, PTL

(* The opening of the output file and the flush of the record: what a run  *)
(* has reported stays one line, in every file a power loss may leave.      *)
THEOREM HitsStay == Spec => []HitsKeepTheirLines
<1>1. IInv => HitsKeepTheirLines
  <2>. SUFFICES ASSUME IInv, NEW r \in kept
                PROVE  \E i \in 1 .. Len(out) - 2 :
                         /\ \A k \in 1 .. 3 : out[i + k - 1] = [run |-> r, part |-> k]
                         /\ i > 1 => out[i - 1].part = 3 \/ out[i - 1].run \notin kept
    BY DEF HitsKeepTheirLines
  <2>1. out \in Seq(Piece) /\ Lines(out) /\ kept \subseteq Ending(out)
    BY DEF IInv, TypeOK, Contents
  <2>2. \A i \in 1 .. Len(out) : out[i].run \in Nat /\ out[i].part \in 1 .. 3
    <3>1. \A i \in 1 .. Len(out) : out[i] \in Piece
      BY <2>1
    <3>. QED  BY <3>1, Constants DEF Piece
  <2>3. ASSUME NEW q \in Ending(out)
        PROVE  \E j \in 1 .. Len(out) : out[j].run = q /\ out[j].part = 3
    <3>1. DOMAIN out = 1 .. Len(out)
      BY <2>1
    <3>. QED  BY <3>1 DEF Ending
  <2>4. PICK j \in 1 .. Len(out) : out[j].run = r /\ out[j].part = 3
    BY <2>1, <2>3
  <2>5. j > 1 /\ out[j - 1] = [run |-> r, part |-> 2]
    <3>1. j > 1 /\ out[j - 1] = [run |-> out[j].run, part |-> out[j].part - 1]
      BY <2>1, <2>4 DEF Lines
    <3>. QED  BY <2>4, <3>1
  <2>6. j > 2 /\ out[j - 2] = [run |-> r, part |-> 1]
    <3>1. j - 1 \in 1 .. Len(out) /\ out[j - 1].part = 2 /\ out[j - 1].run = r
      BY <2>5
    <3>2. j - 1 > 1 /\ out[(j - 1) - 1] = [run |-> out[j - 1].run,
                                            part |-> out[j - 1].part - 1]
      BY <2>1, <3>1 DEF Lines
    <3>. QED  BY <3>1, <3>2
  <2>7. out[j] = [run |-> r, part |-> 3]
    <3>1. out[j] \in Piece
      BY <2>1
    <3>. QED  BY <2>4, <3>1 DEF Piece
  <2>. DEFINE i == j - 2
  <2>8. /\ i \in 1 .. Len(out) - 2
        /\ i + 1 - 1 = j - 2 /\ i + 2 - 1 = j - 1 /\ i + 3 - 1 = j
    BY <2>1, <2>6
  <2>9. \A k \in 1 .. 3 : out[i + k - 1] = [run |-> r, part |-> k]
    <3>1. ASSUME NEW k \in 1 .. 3 PROVE out[i + k - 1] = [run |-> r, part |-> k]
      <4>1. k = 1 \/ k = 2 \/ k = 3
        OBVIOUS
      <4>2. CASE k = 1
        BY <2>6, <2>8, <4>2
      <4>3. CASE k = 2
        BY <2>5, <2>8, <4>3
      <4>4. CASE k = 3
        BY <2>7, <2>8, <4>4
      <4>. QED  BY <4>1, <4>2, <4>3, <4>4
    <3>. QED  BY <3>1
  <2>10. ASSUME i > 1, out[i - 1].part # 3, out[i - 1].run \in kept
         PROVE  FALSE
    <3>1. /\ i \in Nat /\ i - 1 \in 1 .. Len(out) /\ i \in 1 .. Len(out) /\ i - 1 < i
          /\ out[i].run = r /\ out[i].part = 1
      BY <2>1, <2>6, <2>8, <2>10
    <3>2. out[i - 1].run < r
      <4>1. Before(out[i - 1], out[i])
        BY <2>1, <3>1 DEF Lines
      <4>2. out[i - 1].part >= 1 /\ out[i - 1].part \in Nat
        BY <2>2, <3>1
      <4>. QED  BY <3>1, <4>1, <4>2 DEF Before
    <3>3. PICK l \in 1 .. Len(out) : out[l].run = out[i - 1].run /\ out[l].part = 3
      BY <2>1, <2>3, <2>10
    <3>4. CASE l > i
      <4>1. Before(out[i], out[l])
        BY <2>1, <3>1, <3>4 DEF Lines
      <4>. QED  BY <2>2, <3>1, <3>2, <3>3, <4>1 DEF Before
    <3>5. CASE l = i
      BY <2>2, <3>1, <3>2, <3>3, <3>5
    <3>6. CASE l < i - 1
      <4>1. Before(out[l], out[i - 1])
        BY <2>1, <3>1, <3>6 DEF Lines
      <4>2. out[i - 1].part \in 1 .. 3 /\ out[i - 1].run \in Nat
        BY <2>2, <3>1
      <4>. QED  BY <3>3, <4>1, <4>2 DEF Before
    <3>7. CASE l = i - 1
      BY <2>10, <3>3, <3>7
    <3>. QED  BY <2>8, <3>3, <3>4, <3>5, <3>6, <3>7
  <2>. QED  BY <2>8, <2>9, <2>10
<1>. QED  BY <1>1, Invariance, PTL

(* write_closest_candidate: whatever fails and whenever, a reader finds an *)
(* old or a new content, never one in between.                             *)
LEMMA Recoverable ==
  ASSUME IInv
  PROVE  {Shown(f) : f \in UNION {Remains(e) : e \in entries}}
           = {Shown(e) : e \in entries}
<1>1. \A e \in entries : Remains(e) = {e}
  BY WholeRemains DEF IInv, Whole
<1>2. UNION {Remains(e) : e \in entries} = entries
  BY <1>1
<1>. QED  BY <1>2

THEOREM Refinement == Spec => ImplementsAtomicFile
<1>. DEFINE recoverable == {Shown(f) : f \in UNION {Remains(e) : e \in entries}}
<1>1. Init => Atomic!Init
  <2>. SUFFICES ASSUME Init PROVE Atomic!Init
    OBVIOUS
  <2>1. closest = None /\ entries = {None}
    BY DEF Init
  <2>2. Shown(closest) = NoFile
    BY <2>1 DEF Shown
  <2>3. recoverable = {NoFile}
    BY <2>1, <2>2 DEF Remains
  <2>. QED  BY <2>2, <2>3 DEF Atomic!Init
<1>2. IInv /\ IInv' /\ [Next]_vars => [Atomic!Next]_Atomic!vars
  <2>. SUFFICES ASSUME IInv, IInv', [Next]_vars PROVE [Atomic!Next]_Atomic!vars
    OBVIOUS
  <2>1. recoverable = {Shown(e) : e \in entries}
    BY Recoverable
  <2>2. recoverable' = {Shown(e) : e \in entries'}
    <3>1. \A e \in entries' : Remains(e) = {e}
      BY WholeRemains DEF IInv, Whole, WholeFile
    <3>2. UNION {Remains(e) : e \in entries'} = entries'
      BY <3>1
    <3>3. recoverable' = {Shown(f) : f \in UNION {Remains(e) : e \in entries'}}
      OBVIOUS
    <3>. QED  BY <3>2, <3>3
  <2>. DEFINE content == Shown(closest)
  <2>3. content' = Shown(closest')
    OBVIOUS
  <2>4. ASSUME NEW f \in {None, temp}, closest' = f, entries' = entries \union {f},
               f # None => f \in Inode /\ f.data = "whole"
        PROVE  Atomic!Next
    <3>1. content' = Shown(f) /\ recoverable' = recoverable \union {Shown(f)}
      BY <2>1, <2>2, <2>3, <2>4
    <3>2. Shown(f) \in [run : 1 .. MaxRuns, score : Score] \union {NoFile}
      BY <2>4 DEF Shown, Inode
    <3>. QED  BY <3>1, <3>2 DEF Atomic!Next, Atomic!Write
  <2>5. ASSUME UNCHANGED << closest, entries >>
        PROVE  UNCHANGED Atomic!vars
    BY <2>1, <2>2, <2>3, <2>5 DEF Atomic!vars
  <2>6. CASE BeginSave
    <3>1. \/ closest' = None /\ entries' = entries \union {None}
          \/ UNCHANGED << closest, entries >>
      BY <2>6 DEF BeginSave, save
    <3>. QED  BY <2>4, <2>5, <3>1
  <2>7. CASE Persist
    <3>1. temp # None => temp \in Inode /\ temp.data = "whole"
      BY <2>7 DEF IInv, TypeOK, Saving, Persist
    <3>. QED  BY <2>4, <2>5, <2>7, <3>1 DEF Persist
  <2>8. CASE Settle
    <3>1. closest' = closest /\ entries' = {closest}
      BY <2>8, WholeRemains DEF IInv, Whole, Settle
    <3>2. content' = content /\ recoverable' = {content}
      BY <2>2, <2>3, <3>1
    <3>. QED  BY <3>2 DEF Atomic!Next, Atomic!Settle
  <2>9. CASE PowerLoss
    <3>1. closest' \in entries /\ entries' = {closest'}
      BY <2>9, WholeRemains DEF IInv, Whole, PowerLoss
    <3>2. content' \in recoverable /\ recoverable' = {content'}
      BY <2>1, <2>2, <2>3, <3>1
    <3>. QED  BY <3>2 DEF Atomic!Next, Atomic!PowerLoss
  <2>10. CASE \/ Start \/ OpenOutput \/ Improve \/ Join \/ WriteTemp \/ SyncTemp
              \/ Decide \/ Flush \/ DropWriter \/ Kill \/ UNCHANGED vars
    <3>1. UNCHANGED << closest, entries >>
      BY <2>10 DEF Start, OpenOutput, Improve, Join, WriteTemp, SyncTemp, Decide,
                   Flush, DropWriter, Kill, vars, save
    <3>. QED  BY <2>5, <3>1
  <2>. QED  BY <2>6, <2>7, <2>8, <2>9, <2>10 DEF Next
<1>. QED  BY <1>1, <1>2, Invariance, PTL DEF Spec, ImplementsAtomicFile, Atomic!Spec
=============================================================================
