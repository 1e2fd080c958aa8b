----------------------------- MODULE Blockstore -----------------------------
(***************************************************************************)
(* The badger blockstore (blockstore/badger) behind the identity store     *)
(* (blockstore/idstore.go): reads, writes and deletes by concurrent        *)
(* callers, a key iterator, Close, and the full garbage collection that    *)
(* copies the database to a new directory while the store stays in use.    *)
(* A database is the set of keys it holds.  moveMx is held only inside one *)
(* action; a caller asleep in moveCond.Wait is in asleep until a           *)
(* Broadcast.  rlock and viewers are counted from where the callers are.   *)
(***************************************************************************)
EXTENDS Naturals, FiniteSets

CONSTANTS
  Keys,          \* multihashes kept in the database
  InlineKeys,    \* identity multihashes, which carry their block
  Callers,       \* goroutines that use the store
  StoreFaults,   \* what may fail: "put", "open", "copy", "path", "crash"
  MaxCalls, MaxMoves, MaxFaults,
  None

ASSUME BlockstoreAssumption ==
  /\ Keys \cap InlineKeys = {} /\ None \notin Callers
  /\ IsFiniteSet(Callers) /\ \A ks \in SUBSET Keys : None # ks
  /\ MaxCalls \in Nat /\ MaxMoves \in Nat /\ MaxFaults \in Nat

VARIABLES
  bsState,    \* stateOpen, stateClosing, stateClosed
  moveState,  \* bsMoveState
  db, dbNext, \* the databases in use; dbNext is None when there is none
  dbOld,      \* the database replaced by a move, until it is deleted
  onPath,     \* the database opts.Dir names: "db", "old" or "void"
  snap,       \* keys the stream of doCopy has still to send
  gc,         \* where movingGC stands
  op,         \* Callers -> [kind, keys, phase]
  asleep,     \* who waits in moveCond.Wait; None stands for movingGC
  iter,       \* the goroutine of AllKeysChan runs
  limbo,      \* history: keys deleted, or put with an error, while copying
  calls, moves, faults

bsVars == <<bsState, moveState, db, dbNext, dbOld, onPath, snap, gc, op, asleep, iter, limbo,
            calls, moves, faults>>

Kinds == {"put", "delete", "read"}
Phases == {"idle", "called", "waiting", "locked", "half", "applied", "failed", "ok", "error"}
AtRest == {"idle", "ok", "error"}
GCPhases == {"idle", "begin", "open", "next", "stream", "copy", "swap", "rename", "symlink",
             "defer", "drop", "last"}

BlockstoreTypeOK ==
  /\ bsState \in {"open", "closing", "closed"}
  /\ moveState \in {"None", "Moving", "Cleanup", "Lock"}
  /\ db \subseteq Keys /\ (dbNext = None \/ dbNext \subseteq Keys)
  /\ (dbOld = None \/ dbOld \subseteq Keys)
  /\ onPath \in {"db", "old", "void"}
  /\ snap \subseteq Keys /\ limbo \subseteq Keys
  /\ gc \in GCPhases
  /\ op \in [Callers -> [kind : Kinds, keys : SUBSET Keys, phase : Phases]]
  /\ asleep \subseteq Callers \cup {None}
  /\ iter \in BOOLEAN
  /\ calls \in 0..MaxCalls /\ moves \in 0..MaxMoves /\ faults \in 0..MaxFaults

BlockstoreInit ==
  /\ bsState = "open" /\ moveState = "None"
  /\ db = {} /\ dbNext = None /\ dbOld = None /\ onPath = "db" /\ snap = {}
  /\ gc = "idle" /\ asleep = {} /\ iter = FALSE /\ limbo = {}
  /\ op = [c \in Callers |-> [kind |-> "read", keys |-> {}, phase |-> "idle"]]
  /\ calls = 0 /\ moves = 0 /\ faults = 0

rlock == Cardinality({c \in Callers : op[c].phase \in {"locked", "half", "applied", "failed"}})

viewers ==
  Cardinality({c \in Callers : op[c].phase \notin AtRest})
  + (IF gc = "idle" THEN 0 ELSE 1) + (IF iter THEN 1 ELSE 0)

Fault(f) == f \in StoreFaults /\ faults < MaxFaults /\ faults' = faults + 1

storeVars == <<db, dbNext, dbOld, onPath, snap, limbo>>

\* A call through the identity store: inline keys are answered without the
\* database, the others go on once access() has found the store open.
Call(c, kind, ks) ==
  /\ op[c].phase \in AtRest /\ calls < MaxCalls
  /\ calls' = calls + 1
  /\ op' = [op EXCEPT ![c] =
       IF ks \subseteq InlineKeys THEN [kind |-> "read", keys |-> {}, phase |-> "ok"]
       ELSE IF bsState # "open" THEN [kind |-> "read", keys |-> {}, phase |-> "error"]
       ELSE [kind |-> kind, keys |-> ks \ InlineKeys, phase |-> "called"]]
  /\ UNCHANGED <<storeVars, bsState, moveState, gc, asleep, iter, moves, faults>>

\* lockDB: only the first holder waits for an exclusive lock to end.
LockDB(c) ==
  /\ op[c].phase \in {"called", "waiting"} /\ c \notin asleep
  /\ IF moveState = "Lock" /\ (rlock = 0 \/ op[c].phase = "waiting")
     THEN op' = [op EXCEPT ![c].phase = "waiting"] /\ asleep' = asleep \cup {c}
     ELSE op' = [op EXCEPT ![c].phase = "locked"] /\ UNCHANGED asleep
  /\ UNCHANGED <<storeVars, bsState, moveState, gc, iter, calls, moves, faults>>

\* Mutant: unlockDB wakes nobody.
MutantWokenByUnlock(c) == asleep

\* unlockDB: the last holder wakes whoever waits.
WokenByUnlock(c) ==
  IF rlock = 1 /\ moveState = "Lock" THEN {} ELSE asleep

UnlockDB(c) ==
  /\ op[c].phase \in {"applied", "failed"}
  /\ asleep' = WokenByUnlock(c)
  /\ op' = [op EXCEPT ![c].phase = IF @ = "applied" THEN "ok" ELSE "error"]
  /\ UNCHANGED <<storeVars, bsState, moveState, gc, iter, calls, moves, faults>>

\* View, Has, Get and GetSize: the keys asked for that the database holds.
Read(c) ==
  /\ op[c].phase = "locked" /\ op[c].kind = "read"
  /\ op' = [op EXCEPT ![c].phase = "applied", ![c].keys = @ \cap db]
  /\ UNCHANGED <<storeVars, bsState, moveState, gc, asleep, iter, calls, moves, faults>>

\* Mutant: Put forgets the database being built.
MutantPutDB(c) ==
  /\ op[c].phase = "locked" /\ op[c].kind = "put"
  /\ db' = db \cup op[c].keys
  /\ limbo' = limbo \ op[c].keys
  /\ op' = [op EXCEPT ![c].phase = "applied"]
  /\ UNCHANGED <<dbNext, dbOld, onPath, snap, bsState, moveState, gc, asleep, iter, calls, moves, faults>>

\* Put and PutMany write to db and then, while a move copies, to dbNext.
PutDB(c) ==
  /\ op[c].phase = "locked" /\ op[c].kind = "put"
  /\ db' = db \cup op[c].keys
  /\ limbo' = limbo \ op[c].keys
  /\ op' = [op EXCEPT ![c].phase = IF dbNext = None THEN "applied" ELSE "half"]
  /\ UNCHANGED <<dbNext, dbOld, onPath, snap, bsState, moveState, gc, asleep, iter, calls, moves, faults>>

PutNext(c) ==
  /\ op[c].phase = "half"
  /\ dbNext' = dbNext \cup op[c].keys
  /\ op' = [op EXCEPT ![c].phase = "applied"]
  /\ UNCHANGED <<db, dbOld, onPath, snap, limbo, bsState, moveState, gc, asleep, iter, calls, moves, faults>>

\* A batch that does not flush may have written some of its keys.
WriteFails(c) ==
  /\ Fault("put")
  /\ \E some \in SUBSET op[c].keys :
       \/ /\ op[c].phase = "locked" /\ op[c].kind = "put"
          /\ db' = db \cup some /\ UNCHANGED dbNext
       \/ /\ op[c].phase = "locked" /\ op[c].kind = "delete"
          /\ db' = db \ some /\ UNCHANGED dbNext
       \/ /\ op[c].phase = "half"
          /\ dbNext' = dbNext \cup some /\ UNCHANGED db
  /\ limbo' = IF dbNext = None THEN limbo ELSE limbo \cup op[c].keys
  /\ op' = [op EXCEPT ![c].phase = "failed"]
  /\ UNCHANGED <<dbOld, onPath, snap, bsState, moveState, gc, asleep, iter, calls, moves>>

\* DeleteBlock and DeleteMany know only db.
Delete(c) ==
  /\ op[c].phase = "locked" /\ op[c].kind = "delete"
  /\ db' = db \ op[c].keys
  /\ limbo' = IF dbNext = None THEN limbo ELSE limbo \cup op[c].keys
  /\ op' = [op EXCEPT ![c].phase = "applied"]
  /\ UNCHANGED <<dbNext, dbOld, onPath, snap, bsState, moveState, gc, asleep, iter, calls, moves, faults>>

\* AllKeysChan leaves a goroutine that counts as a viewer and holds no lock;
\* it ends when its reader has read all, has gone, or the store is closing.
AllKeysChan ==
  /\ ~iter /\ bsState = "open" /\ calls < MaxCalls
  /\ moveState = "Lock" => rlock > 0
  /\ iter' = TRUE /\ calls' = calls + 1
  /\ UNCHANGED <<storeVars, bsState, moveState, gc, op, asleep, moves, faults>>

AllKeysChanEnds ==
  /\ iter /\ iter' = FALSE
  /\ UNCHANGED <<storeVars, bsState, moveState, gc, op, asleep, calls, moves, faults>>

\* lockMove and unlockMove: take the lock state and sleep until no holder is
\* left; what the holder of the lock does is one step with its release.
LockMove(next) ==
  /\ gc' = next /\ moveState' = "Lock"
  /\ asleep' = IF rlock > 0 THEN asleep \cup {None} ELSE asleep

Exclusive == None \notin asleep /\ rlock = 0

UnlockMove(next, state) == gc' = next /\ moveState' = state /\ asleep' = {}

\* CollectGarbage with WithFullGC; a second move is refused.
CollectGarbage ==
  /\ gc = "idle" /\ bsState = "open" /\ moveState = "None" /\ moves < MaxMoves
  /\ moves' = moves + 1
  /\ LockMove("begin")
  /\ UNCHANGED <<storeVars, bsState, op, iter, calls, faults>>

MoveBegins ==
  /\ gc = "begin" /\ Exclusive /\ UnlockMove("open", "Moving")
  /\ UNCHANGED <<storeVars, bsState, op, iter, calls, moves, faults>>

MoveOpens ==
  /\ gc = "open"
  /\ \/ LockMove("next") /\ UNCHANGED faults
     \/ Fault("open") /\ LockMove("defer")
  /\ UNCHANGED <<storeVars, bsState, op, iter, calls, moves>>

MoveSetsNext ==
  /\ gc = "next" /\ Exclusive /\ UnlockMove("stream", "Moving")
  /\ dbNext' = {} /\ limbo' = {}
  /\ UNCHANGED <<db, dbOld, onPath, snap, bsState, op, iter, calls, moves, faults>>

\* doCopy streams the keys of a transaction begun here.
CopyStarts ==
  /\ gc = "stream" /\ gc' = "copy" /\ snap' = db
  /\ UNCHANGED <<db, dbNext, dbOld, onPath, limbo, bsState, moveState, op, asleep, iter, calls, moves, faults>>

CopyKeys ==
  /\ gc = "copy" /\ snap # {}
  /\ \E ks \in SUBSET snap : ks # {} /\ dbNext' = dbNext \cup ks /\ snap' = snap \ ks
  /\ UNCHANGED <<db, dbOld, onPath, limbo, bsState, moveState, gc, op, asleep, iter, calls, moves, faults>>

CopyEnds ==
  /\ gc = "copy"
  /\ \/ snap = {} /\ LockMove("swap") /\ UNCHANGED faults
     \/ Fault("copy") /\ LockMove("defer")
  /\ snap' = {}
  /\ UNCHANGED <<db, dbNext, dbOld, onPath, limbo, bsState, op, iter, calls, moves>>

MoveSwaps ==
  /\ gc = "swap" /\ Exclusive /\ UnlockMove("rename", "Cleanup")
  /\ dbOld' = db /\ db' = dbNext /\ dbNext' = None /\ onPath' = "old" /\ limbo' = {}
  /\ UNCHANGED <<snap, bsState, op, iter, calls, moves, faults>>

MoveRenames ==
  /\ gc = "rename" /\ gc' = "symlink" /\ onPath' = "void"
  /\ UNCHANGED <<db, dbNext, dbOld, snap, limbo, bsState, moveState, op, asleep, iter, calls, moves, faults>>

MoveSymlinks ==
  /\ gc = "symlink" /\ LockMove("defer")
  /\ onPath' = "db" /\ dbOld' = None
  /\ UNCHANGED <<db, dbNext, snap, limbo, bsState, op, iter, calls, moves, faults>>

\* The deferred function: forget a database that is left, delete it, be idle.
MoveCleans ==
  /\ gc = "defer" /\ Exclusive
  /\ IF dbNext = None THEN UnlockMove("idle", "None") ELSE UnlockMove("drop", "Cleanup")
  /\ dbNext' = None /\ limbo' = {}
  /\ UNCHANGED <<db, dbOld, onPath, snap, bsState, op, iter, calls, moves, faults>>

MoveDrops ==
  /\ gc = "drop" /\ LockMove("last")
  /\ UNCHANGED <<storeVars, bsState, op, iter, calls, moves, faults>>

MoveEnds ==
  /\ gc = "last" /\ Exclusive /\ UnlockMove("idle", "None")
  /\ UNCHANGED <<storeVars, bsState, op, iter, calls, moves, faults>>

\* Close stops new accesses, then waits for the viewers.
Close ==
  /\ bsState = "open" /\ bsState' = "closing" /\ calls < MaxCalls
  /\ calls' = calls + 1
  /\ UNCHANGED <<storeVars, moveState, gc, op, asleep, iter, moves, faults>>

CloseEnds ==
  /\ bsState = "closing" /\ viewers = 0 /\ bsState' = "closed"
  /\ UNCHANGED <<storeVars, moveState, gc, op, asleep, iter, calls, moves, faults>>

\* The database that Open finds at the path; Open makes one where none is.
Reopened == CASE onPath = "db" -> db [] onPath = "old" -> dbOld [] onPath = "void" -> {}

\* The process ends (a crash, or the panic after a failed rename or symlink)
\* and opens the store again.
Restart ==
  /\ \/ Fault("crash")
     \/ gc \in {"rename", "symlink"} /\ Fault("path")
     \/ bsState = "closed" /\ UNCHANGED faults
  /\ bsState' = "open" /\ moveState' = "None"
  /\ db' = Reopened /\ dbNext' = None /\ dbOld' = None /\ onPath' = "db" /\ snap' = {}
  /\ gc' = "idle" /\ asleep' = {} /\ iter' = FALSE /\ limbo' = {}
  /\ op' = [c \in Callers |->
       IF op[c].phase \in AtRest THEN op[c] ELSE [op[c] EXCEPT !.phase = "error"]]
  /\ UNCHANGED <<calls, moves>>

\* What the running goroutines do by themselves.
BlockstoreProgress ==
  \/ \E c \in Callers :
       LockDB(c) \/ UnlockDB(c) \/ Read(c) \/ PutDB(c) \/ PutNext(c) \/ Delete(c)
  \/ MoveBegins \/ MoveOpens \/ MoveSetsNext \/ CopyStarts \/ CopyKeys \/ CopyEnds
  \/ MoveSwaps \/ MoveRenames \/ MoveSymlinks \/ MoveCleans \/ MoveDrops \/ MoveEnds

BlockstoreNext ==
  \/ BlockstoreProgress
  \/ \E c \in Callers :
       \/ WriteFails(c)
       \/ \E kind \in Kinds, ks \in SUBSET (Keys \cup InlineKeys) : ks # {} /\ Call(c, kind, ks)
  \/ AllKeysChan \/ AllKeysChanEnds \/ CollectGarbage \/ Close \/ CloseEnds \/ Restart

BlockstoreSpec == BlockstoreInit /\ [][BlockstoreNext]_bsVars

\* The abstract store: a call is applied once db shows its effect, and the
\* path is settled once it names the database in use.
AbsPhase(ph) ==
  CASE ph \in {"waiting", "locked"} -> "called" [] ph = "half" -> "applied" [] OTHER -> ph
absCall == [c \in Callers |-> [op[c] EXCEPT !.phase = AbsPhase(@)]]
absBackup == IF onPath = "db" THEN None ELSE dbOld

Abs == INSTANCE AbstractBlockstore WITH
  blocks <- db, moving <- dbNext # None, backup <- absBackup, call <- absCall

\* The blockstore implements the abstract store: calls take effect once,
\* between start and return, whatever movingGC does meanwhile, new writes
\* are not lost by the move, and only deleted or failed keys are unsettled
\* ("the blockstore must not lose data from new writes during the move").
ImplementsAbstractStore == Abs!AbsInit /\ [][Abs!AbsNext]_Abs!absVars

\* No caller and no move sleeps for ever in moveCond.Wait: each call returns
\* and each full collection ends, whoever else holds or wants the lock, so
\* that all are at rest once the callers stop.
StoreCallsReturn ==
  []<>(gc = "idle" /\ \A c \in Callers : op[c].phase \in AtRest)
=============================================================================
