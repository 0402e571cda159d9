------------------------------- MODULE History -------------------------------
(***************************************************************************)
(* The workspace history on a Bot's machine (cmd/silo-worker/history.go):  *)
(* checkpoints of the workspace's tree, how old ones expire, and the       *)
(* restore that puts files back while programs go on writing.  histMu      *)
(* makes checkpoints, looks and restores take turns.                       *)
(*                                                                         *)
(* A path is its number in the order of the paths.  A content is a model   *)
(* value: "none" when the file is not there, "large" when it is over the   *)
(* size cap, of which the history keeps a stub at most.                    *)
(***************************************************************************)
EXTENDS Sequences, FiniteSets, Integers

CONSTANTS Files,      \* paths of the workspace
          Contents,   \* what a small file may hold
          Budget,     \* files one checkpoint adds (checkpointMaxFiles)
          MaxLarge,   \* large files it has stubs for (checkpointMaxLarge)
          KeepLast,   \* checkpoints kept (HistoryLimits.keep)
          MaxAddFails, \* adds of git that fail
          MaxWrites,  \* writes of programs
          MaxRestores \* restores the owner asks for

ASSUME HistoryBounds ==
  /\ Files \subseteq Nat /\ IsFiniteSet(Files)
  /\ "none" \notin Contents /\ "large" \notin Contents
  /\ {Budget, MaxLarge, KeepLast} \subseteq Nat \ {0}
  /\ {MaxAddFails, MaxWrites, MaxRestores} \subseteq Nat

Held == Contents \union {"none"}
Sizes == Held \union {"large"}
Tree == [Files -> Sizes]

VARIABLES disk,    \* the workspace
          index,   \* the store's index: small files as last added
          refs,    \* checkpoints, newest first: tree and whether partial
          stage,   \* where the restore stands
          target,  \* the tree it puts back
          named,   \* the paths it was asked for
          todo,    \* the ones it still has to put back
          undo,    \* the tree it took just before
          raced,   \* paths written since, while it runs
          addFails, writes, restores, \* bounds
          unkept,  \* history: paths whose content that tree should hold and does not
          gone     \* history: paths it replaced a content of no checkpoint holds

historyVars == <<disk, index, refs, stage, target, named, todo, undo, raced,
                 addFails, writes, restores, unkept, gone>>

Empty == [f \in Files |-> "none"]

HistoryInit ==
  /\ disk = Empty /\ index = Empty /\ refs = << >>
  /\ stage = "no" /\ target = Empty /\ named = {} /\ todo = {}
  /\ undo = Empty /\ raced = {} /\ unkept = {} /\ gone = {}
  /\ addFails = 0 /\ writes = 0 /\ restores = 0

-----------------------------------------------------------------------------
(* stage: files that are gone or grown over the cap leave the index.  New  *)
(* and changed ones are listed in their order, one at least, up to the     *)
(* budget of files or of bytes; the rest waits.                            *)
Small(f)  == IF disk[f] = "large" THEN "none" ELSE disk[f]
Behind    == {f \in Files : index[f] # Small(f)}
Dropped   == {f \in Behind : Small(f) = "none"}
ToAdd     == Behind \ Dropped
Listed(s) ==
  /\ s \subseteq ToAdd /\ Cardinality(s) <= Budget /\ (s = ToAdd \/ s # {})
  /\ \A f \in s, g \in ToAdd : g < f => g \in s

(* git add adds them, and where it fails fewer: none of them when a listed *)
(* path vanished a second time, all but the unreadable ones otherwise.     *)
(* The snapshot only warns of it.                                          *)
StagedWithGone(a) == [f \in Files |-> IF f \in a THEN Small(f) ELSE index[f]]
Staged(a) == [f \in Files |-> IF f \in a \union Dropped THEN Small(f) ELSE index[f]]
Added(s, a) ==
  /\ Listed(s) /\ a \subseteq s
  /\ a # s => addFails < MaxAddFails
  /\ addFails' = IF a = s THEN addFails ELSE addFails + 1
  /\ index' = Staged(a)

(* snap: the tree is the index with a stub for each large file, the first  *)
(* MaxLarge of them; one beyond is not in the tree at all.                 *)
LargeFiles == {f \in Files : disk[f] = "large"}
Stubbed    == {f \in LargeFiles : Cardinality({g \in LargeFiles : g < f}) < MaxLarge}
TreeOf(i)  == [f \in Files |-> IF f \in Stubbed THEN "large" ELSE i[f]]
Snap(s, a) == [tree |-> TreeOf(Staged(a)), partial |-> s # ToAdd]

(* expire: past the count the oldest go, and over the size budget half of  *)
(* what is left; two always stay.                                          *)
Larger(a, b) == IF a < b THEN b ELSE a
Smaller(a, b) == IF a < b THEN a ELSE b
ExpiredBySize(n, over) == IF over /\ n > 2 THEN Larger(2, n \div 2) ELSE n
ExpiredToOne(n, over) == IF over THEN 1 ELSE Smaller(n, KeepLast)
Expired(n, over) == LET k == IF n > 2 THEN Larger(2, Smaller(n, KeepLast)) ELSE n
                    IN  IF over /\ k > 2 THEN Larger(2, k \div 2) ELSE k

(* take: the same tree again makes no checkpoint, but a partial one is     *)
(* closed by a full one.                                                   *)
Taken(s, over) ==
  IF refs # << >> /\ Head(refs).tree = s.tree /\ ~Head(refs).partial
  THEN refs
  ELSE LET all == <<s>> \o refs IN SubSeq(all, 1, Expired(Len(all), over))

-----------------------------------------------------------------------------
(* A program of the Bot writes, removes or grows a file, at any time.      *)
ProgramWrites(f, c) ==
  /\ writes < MaxWrites /\ writes' = writes + 1 /\ disk[f] # c
  /\ disk' = [disk EXCEPT ![f] = c]
  /\ raced' = IF stage = "no" THEN raced ELSE raced \union {f}
  /\ UNCHANGED <<index, refs, stage, target, named, todo, undo, addFails, restores, unkept, gone>>

(* checkpoint takes what snap found.                                       *)
Checkpoint(s, a, over) ==
  /\ stage = "no" /\ Added(s, a)
  /\ refs' = Taken(Snap(s, a), over)
  /\ UNCHANGED <<disk, stage, target, named, todo, undo, raced, writes, restores, unkept, gone>>

(* changes looks: it brings the index up to date, and takes a checkpoint   *)
(* only when there is none yet or the last is partial.                     *)
LooksAtChanges(s, a, over) ==
  /\ stage = "no" /\ Added(s, a)
  /\ refs' = IF refs = << >> \/ Head(refs).partial THEN Taken(Snap(s, a), over) ELSE refs
  /\ UNCHANGED <<disk, stage, target, named, todo, undo, raced, writes, restores, unkept, gone>>

(* restore: a checkpoint of what is there first, then the paths asked for  *)
(* that differ from it now.  A large file on either side is skipped.  A    *)
(* tree that expired and was pruned is no longer there to put back.        *)
Differing(t, now) == {f \in Files : t[f] # now[f]}
SkipsLarge(t, now) == {f \in Files : "large" \in {t[f], now[f]}}
SkipsNone(t, now)  == {}
Skipped(t, now)    == SkipsLarge(t, now)
RestoreBegins(k, ps, a, over) ==
  LET s == Snap(ToAdd, a) IN
  /\ stage = "no" /\ restores < MaxRestores /\ k \in 1..Len(refs) /\ ps # {}
  /\ Added(ToAdd, a)
  /\ refs' = Taken(s, over)
  /\ restores' = restores + 1 /\ raced' = {} /\ gone' = {}
  /\ unkept' = (ToAdd \ a) \union (LargeFiles \ Stubbed)
  /\ target' = refs[k].tree /\ named' = ps /\ undo' = s.tree
  /\ IF over /\ \A i \in 1..Len(refs') : refs'[i].tree # refs[k].tree
     THEN stage' = "no" /\ UNCHANGED todo
     ELSE /\ stage' = "puts"
          /\ todo' = (ps \intersect Differing(refs[k].tree, s.tree)) \ Skipped(refs[k].tree, s.tree)
  /\ UNCHANGED <<disk, writes>>

(* A snapshot that is partial refuses the restore.                         *)
RestoreRefused(s, a) ==
  /\ stage = "no" /\ refs # << >> /\ Added(s, a) /\ s # ToAdd
  /\ UNCHANGED <<disk, refs, stage, target, named, todo, undo, raced, writes, restores, unkept,
                 gone>>

(* A path that was not there then is removed first.                        *)
Removals == {f \in todo : target[f] = "none"}
HistoryHolds(f) == disk[f] # "large" /\ \E i \in 1..Len(refs) : refs[i].tree[f] = disk[f]
RestoreFile(f) ==
  /\ stage = "puts" /\ f \in todo /\ (Removals # {} => f \in Removals)
  /\ todo' = todo \ {f}
  /\ disk' = [disk EXCEPT ![f] = target[f]]
  /\ gone' = IF f \in raced \/ HistoryHolds(f) THEN gone ELSE gone \union {f}
  /\ UNCHANGED <<index, refs, stage, target, named, undo, raced, addFails, writes, restores, unkept>>

(* Something that is not the history's is in the way, or git fails.        *)
RestoreSkips(f) ==
  /\ stage = "puts" /\ f \in todo
  /\ todo' = todo \ {f} /\ raced' = raced \union {f}
  /\ UNCHANGED <<disk, index, refs, stage, target, named, undo, addFails, writes, restores, unkept,
                 gone>>

(* Then a checkpoint of its own, if anything was put back.                 *)
RestoreEnds(s, a, over) ==
  /\ stage = "puts" /\ todo = {} /\ Added(s, a)
  /\ stage' = "done" /\ refs' = Taken(Snap(s, a), over)
  /\ UNCHANGED <<disk, target, named, todo, undo, raced, writes, restores, unkept, gone>>

(* It returns, and what it knew is gone with it.                           *)
HistoryUnlocks ==
  /\ stage = "done" /\ stage' = "no"
  /\ target' = Empty /\ undo' = Empty
  /\ named' = {} /\ raced' = {} /\ unkept' = {} /\ gone' = {}
  /\ UNCHANGED <<disk, index, refs, todo, addFails, writes, restores>>

-----------------------------------------------------------------------------
HistoryNext ==
  \/ \E f \in Files : RestoreFile(f) \/ RestoreSkips(f) \/ \E c \in Sizes : ProgramWrites(f, c)
  \/ \E over \in BOOLEAN :
       \/ \E s \in SUBSET Files : \E a \in SUBSET s :
            \/ Checkpoint(s, a, over) \/ LooksAtChanges(s, a, over)
            \/ RestoreEnds(s, a, over) \/ RestoreRefused(s, a)
       \/ \E k \in 1..Len(refs), ps, a \in SUBSET Files : RestoreBegins(k, ps, a, over)
  \/ HistoryUnlocks

HistorySpec == HistoryInit /\ [][HistoryNext]_historyVars

-----------------------------------------------------------------------------
(* Every variable of the history keeps its type; checkpoints are bounded.  *)
HistoryTypeOK ==
  /\ disk \in Tree /\ index \in [Files -> Held]
  /\ refs \in Seq([tree : Tree, partial : BOOLEAN]) /\ Len(refs) <= Larger(2, KeepLast)
  /\ stage \in {"no", "puts", "done"} /\ target \in Tree /\ undo \in Tree
  /\ named \subseteq Files /\ todo \subseteq Files /\ raced \subseteq Files
  /\ addFails \in 0..MaxAddFails /\ writes \in 0..MaxWrites /\ restores \in 0..MaxRestores
  /\ unkept \subseteq Files /\ gone \subseteq Files

(* Nothing a restore replaces is lost: what it overwrites or removes is in *)
(* a checkpoint, with its content, unless a program wrote the file after   *)
(* the restore looked, or the snapshot the restore took did not get it: an *)
(* add that failed, a large file without a stub.                           *)
NothingIsLost == gone \subseteq unkept

(* A restore is a change of its own that can be undone: until it is over   *)
(* the checkpoint taken before it is kept, however old ones expire.        *)
CanBeUndone ==
  stage # "no" => \E i \in 1..Len(refs) : refs[i].tree = undo /\ ~refs[i].partial

(* A restore that is over has put back every path it was asked for whose   *)
(* content the history kept, unless somebody wrote it meanwhile or its own *)
(* snapshot did not get what is there.                                     *)
PutBack ==
  stage = "done" =>
    \A f \in named \ (raced \union unkept) : disk[f] = target[f] \/ f \in SkipsLarge(target, undo)

(* What the code says of a restore without that exception: what it is      *)
(* about to replace is in the history first, so that it can be undone.     *)
RestoreKeeps == gone = {}

(* What holds of checkpoints and a restore in every state.                 *)
HistorySafe == HistoryTypeOK /\ NothingIsLost /\ CanBeUndone /\ PutBack
=============================================================================
