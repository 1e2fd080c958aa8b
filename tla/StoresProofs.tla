---------------------------- MODULE StoresProofs ----------------------------
(***************************************************************************)
(* Proofs about the provider's storage: the badger blockstore, the piece   *)
(* storages and their readers, and the assignment of deals to sectors, for *)
(* any number of keys, callers, calls, storages, deals, sectors, faults    *)
(* and crashes.                                                            *)
(*                                                                         *)
(* The blockstore with its moving garbage collection implements the        *)
(* abstract store.  The step that needs an argument is the switch to the   *)
(* database that was copied while the store was in use.  The invariant     *)
(* says what that database and the rest of the copy hold: nothing that is  *)
(* not stored or in limbo (CopyHoldsOnly), and from the start of the       *)
(* stream on all that is stored and not in limbo, but for what a writer    *)
(* between its two databases is about to add (CopyMisses).  The switch has *)
(* the lock to itself, and then there is no such writer.                   *)
(*                                                                         *)
(* A piece is served as its payload and then zeros: a reader knows the     *)
(* length that it found when it opened the file, and every wrong byte      *)
(* comes from that length or from an inner read that came back short.      *)
(*                                                                         *)
(* What a sealer gets is a sector.  nextAlignedPiece and fillersFromRem    *)
(* take the bits of the space that is left: those below a size make up the *)
(* remainder by it (FillersFill), so that zero pieces bring a layout to a  *)
(* multiple of the next size.  By induction over the loop of pickAndAlign  *)
(* (LoopAt) the layout is aligned, holds the first deals of the order, and *)
(* ends where the space begins; the zero pieces behind it take the rest.   *)
(* The loop ends at a deal that does not fit, and the order is by size.    *)
(*                                                                         *)
(* A deal goes to one sector.  The layout of a call holds only deals that  *)
(* the call was given; these were free when the call read them, so a deal  *)
(* that is saved from a record that is still stored is held by nobody else.*)
(***************************************************************************)
EXTENDS Blockstore, DealAssign, PieceServing, Integers, SumLemmas, FiniteSetTheorems,
        SequenceTheorems, TLAPS

-----------------------------------------------------------------------------
(* The blockstore implements the abstract store.                             *)

\* Which databases there are while movingGC is at each of its steps.
Copying == gc \in {"stream", "copy", "swap"}
MoveShape ==
  /\ Copying => dbNext # None
  /\ dbNext # None => Copying \/ gc = "defer"
  /\ gc = "rename" => onPath = "old"
  /\ gc = "symlink" => onPath = "void"
  /\ gc \notin {"rename", "symlink"} => onPath = "db"
  /\ onPath # "db" => dbOld # None
  /\ gc # "copy" => snap = {}

\* A writer between its two databases is a Put, and there are two databases.
HalfIsPut ==
  \A c \in Callers : op[c].phase = "half" => op[c].kind = "put" /\ dbNext # None

\* Keys are unsettled only while a copy is made.
LimboSettled == dbNext = None => limbo = {}

\* The copy, and what will yet be added to it, are stored or in limbo.
CopyHoldsOnly ==
  /\ dbNext # None => dbNext \subseteq db \cup limbo
  /\ snap \subseteq db \cup limbo
  /\ \A c \in Callers : op[c].phase = "half" => op[c].keys \subseteq db \cup limbo

\* A writer is about to add the key to the copy.
Coming(k) == \E c \in Callers : op[c].phase = "half" /\ k \in op[c].keys

\* What is stored and settled is in the copy, or on its way into it.
CopyMisses ==
  gc \in {"copy", "swap"} => \A k \in db : k \in limbo \cup dbNext \cup snap \/ Coming(k)

StoreInv ==
  /\ BlockstoreTypeOK /\ MoveShape /\ HalfIsPut /\ LimboSettled /\ CopyHoldsOnly /\ CopyMisses

-----------------------------------------------------------------------------
(* The callers.                                                              *)

CallType == [kind : Kinds, keys : SUBSET Keys, phase : Phases]

\* With the lock taken by the move, no caller is between lockDB and unlockDB.
LEMMA ExclusiveAlone ==
  ASSUME BlockstoreTypeOK, Exclusive
  PROVE  \A c \in Callers : op[c].phase \notin {"locked", "half", "applied", "failed"}
<1> DEFINE holders == {c \in Callers : op[c].phase \in {"locked", "half", "applied", "failed"}}
<1>1. IsFiniteSet(holders)
  BY BlockstoreAssumption, FS_Subset
<1>2. holders = {}
  BY <1>1, FS_EmptySet DEF Exclusive, rlock
<1> QED BY <1>2

\* A union of keys with a database is a database.
LEMMA NextNotNone ==
  ASSUME NEW S \in SUBSET Keys
  PROVE  S # None
  BY BlockstoreAssumption

\* What the abstract store sees of a call.
LEMMA AbsOpIs ==
  ASSUME NEW r \in CallType
  PROVE  [r EXCEPT !.phase = AbsPhase(@)] = [kind |-> r.kind, keys |-> r.keys, phase |-> AbsPhase(r.phase)]
<1>1. r = [kind |-> r.kind, keys |-> r.keys, phase |-> r.phase]
  BY DEF CallType
<1>2. PICK ph : ph = AbsPhase(r.phase)
  OBVIOUS
<1>3. [r EXCEPT !.phase = ph] = [kind |-> r.kind, keys |-> r.keys, phase |-> ph]
  BY <1>1
<1> QED BY <1>2, <1>3

\* The abstract calls, field by field.
LEMMA AbsCallIs ==
  ASSUME op \in [Callers -> CallType]
  PROVE  /\ absCall = [c \in Callers |-> [kind |-> op[c].kind, keys |-> op[c].keys,
                                          phase |-> AbsPhase(op[c].phase)]]
         /\ \A c \in Callers : /\ absCall[c].kind = op[c].kind /\ absCall[c].keys = op[c].keys
                               /\ absCall[c].phase = AbsPhase(op[c].phase)
<1>1. absCall = [c \in Callers |-> [kind |-> op[c].kind, keys |-> op[c].keys,
                                    phase |-> AbsPhase(op[c].phase)]]
  BY AbsOpIs DEF absCall
<1> QED BY <1>1

\* A step of one caller changes its abstract call and no other.
LEMMA AbsCallStep ==
  ASSUME op \in [Callers -> CallType], NEW c \in Callers, NEW r \in CallType,
         op' = [op EXCEPT ![c] = r]
  PROVE  absCall' = [absCall EXCEPT ![c] = [kind |-> r.kind, keys |-> r.keys, phase |-> AbsPhase(r.phase)]]
<1>1. op' \in [Callers -> CallType]
  OBVIOUS
<1>2. absCall' = [d \in Callers |-> [kind |-> op'[d].kind, keys |-> op'[d].keys,
                                     phase |-> AbsPhase(op'[d].phase)]]
  BY <1>1, AbsOpIs DEF absCall
<1>3. absCall = [d \in Callers |-> [kind |-> op[d].kind, keys |-> op[d].keys,
                                    phase |-> AbsPhase(op[d].phase)]]
  BY AbsCallIs
<1>4. op'[c] = r /\ \A d \in Callers \ {c} : op'[d] = op[d]
  OBVIOUS
<1> QED BY <1>2, <1>3, <1>4

\* The abstract phases.
LEMMA Phased ==
  /\ AbsPhase("called") = "called" /\ AbsPhase("waiting") = "called" /\ AbsPhase("locked") = "called"
  /\ AbsPhase("half") = "applied" /\ AbsPhase("applied") = "applied" /\ AbsPhase("failed") = "failed"
  /\ AbsPhase("ok") = "ok" /\ AbsPhase("error") = "error" /\ AbsPhase("idle") = "idle"
  /\ \A ph \in Phases : AbsPhase(ph) \in {"idle", "ok", "error"} <=> ph \in AtRest
  BY DEF AbsPhase, Phases, AtRest

-----------------------------------------------------------------------------
(* Types.                                                                    *)

\* The phases of a call that holds the lock, waits for it or has returned.
LEMMA PhaseNames == {"waiting", "locked", "half", "applied", "failed", "ok", "error"} \subseteq Phases
  BY DEF Phases

\* A phase that changes leaves a call.
LEMMA PhaseStep ==
  ASSUME op \in [Callers -> CallType], NEW c \in Callers, NEW ph \in Phases,
         op' = [op EXCEPT ![c].phase = ph]
  PROVE  LET r == [kind |-> op[c].kind, keys |-> op[c].keys, phase |-> ph]
         IN  r \in CallType /\ op' = [op EXCEPT ![c] = r] /\ op' \in [Callers -> CallType]
<1>1. op[c] \in CallType
  OBVIOUS
<1>2. op[c] = [kind |-> op[c].kind, keys |-> op[c].keys, phase |-> op[c].phase]
  BY <1>1 DEF CallType
<1>3. [op[c] EXCEPT !.phase = ph] = [kind |-> op[c].kind, keys |-> op[c].keys, phase |-> ph]
  BY <1>2
<1>4. [kind |-> op[c].kind, keys |-> op[c].keys, phase |-> ph] \in CallType
  BY <1>1 DEF CallType
<1> QED BY <1>3, <1>4

\* The counters stay within their bounds.
LEMMA Counters ==
  /\ calls \in 0..MaxCalls /\ calls < MaxCalls => calls + 1 \in 0..MaxCalls
  /\ moves \in 0..MaxMoves /\ moves < MaxMoves => moves + 1 \in 0..MaxMoves
  /\ faults \in 0..MaxFaults /\ faults < MaxFaults => faults + 1 \in 0..MaxFaults
  BY BlockstoreAssumption

\* What a step of one caller does to the calls and to the abstract calls.
LEMMA OneCaller ==
  ASSUME op \in [Callers -> CallType], NEW c \in Callers, NEW r \in CallType,
         op' = [op EXCEPT ![c] = r]
  PROVE  /\ op' \in [Callers -> CallType] /\ op'[c] = r /\ \A d \in Callers \ {c} : op'[d] = op[d]
         /\ absCall' = [absCall EXCEPT ![c] = [kind |-> r.kind, keys |-> r.keys, phase |-> AbsPhase(r.phase)]]
  BY AbsCallStep

\* The same for a step that changes the phase of a call and nothing else of it.
LEMMA PhaseMove ==
  ASSUME op \in [Callers -> CallType], NEW c \in Callers, NEW ph \in Phases,
         op' = [op EXCEPT ![c].phase = ph]
  PROVE  /\ op' \in [Callers -> CallType] /\ \A d \in Callers \ {c} : op'[d] = op[d]
         /\ op'[c] = [kind |-> op[c].kind, keys |-> op[c].keys, phase |-> ph]
         /\ absCall' = [absCall EXCEPT ![c] = [kind |-> op[c].kind, keys |-> op[c].keys, phase |-> AbsPhase(ph)]]
<1>1. PICK r : r = [kind |-> op[c].kind, keys |-> op[c].keys, phase |-> ph]
  OBVIOUS
<1>2. r \in CallType /\ op' = [op EXCEPT ![c] = r]
  BY <1>1, PhaseStep
<1>3. r.kind = op[c].kind /\ r.keys = op[c].keys /\ r.phase = ph
  BY <1>1
<1>4. /\ op' \in [Callers -> CallType] /\ op'[c] = r /\ \A d \in Callers \ {c} : op'[d] = op[d]
      /\ absCall' = [absCall EXCEPT ![c] = [kind |-> r.kind, keys |-> r.keys, phase |-> AbsPhase(r.phase)]]
  BY <1>2, OneCaller
<1> QED BY <1>1, <1>3, <1>4

\* The abstract calls when the effect of call c, with keys ks, has been applied.
AbsApplied(c, ks) == [absCall EXCEPT ![c].phase = "applied", ![c].keys = ks]

\* An abstract call whose phase changes.
LEMMA AbsPhaseStep ==
  ASSUME op \in [Callers -> CallType], NEW c \in Callers, NEW ph
  PROVE  [absCall EXCEPT ![c].phase = ph]
           = [absCall EXCEPT ![c] = [kind |-> op[c].kind, keys |-> op[c].keys, phase |-> ph]]
<1>1. absCall = [d \in Callers |-> absCall[d]]
      /\ absCall[c] = [kind |-> op[c].kind, keys |-> op[c].keys, phase |-> AbsPhase(op[c].phase)]
  BY AbsCallIs
<1>2. [absCall[c] EXCEPT !.phase = ph] = [kind |-> op[c].kind, keys |-> op[c].keys, phase |-> ph]
  BY <1>1
<1> QED BY <1>1, <1>2

\* An abstract call that has been applied.
LEMMA AbsAppliedStep ==
  ASSUME op \in [Callers -> CallType], NEW c \in Callers, NEW ks
  PROVE  AbsApplied(c, ks) = [absCall EXCEPT ![c] = [kind |-> op[c].kind, keys |-> ks, phase |-> "applied"]]
<1> DEFINE x == [kind |-> op[c].kind, keys |-> op[c].keys, phase |-> "applied"]
           y == [absCall EXCEPT ![c].phase = "applied"]
<1>1. absCall = [d \in Callers |-> absCall[d]]
  BY AbsCallIs
<1>2. y = [absCall EXCEPT ![c] = x]
  BY AbsPhaseStep
<1>3. y[c] = x /\ y = [d \in Callers |-> y[d]] /\ \A d \in Callers \ {c} : y[d] = absCall[d]
  BY <1>1, <1>2
<1>4. AbsApplied(c, ks) = [y EXCEPT ![c].keys = ks]
  BY DEF AbsApplied
<1>5. [y[c] EXCEPT !.keys = ks] = [kind |-> op[c].kind, keys |-> ks, phase |-> "applied"]
  BY <1>3
<1> HIDE DEF y
<1>6. [y EXCEPT ![c].keys = ks]
        = [absCall EXCEPT ![c] = [kind |-> op[c].kind, keys |-> ks, phase |-> "applied"]]
  BY <1>1, <1>3, <1>5
<1> QED BY <1>4, <1>6

\* A caller that is not between its two databases before and after a step that
\* leaves the databases alone does not disturb the copy.
LEMMA CallerAside ==
  ASSUME StoreInv, NEW c \in Callers, NEW r \in CallType, op' = [op EXCEPT ![c] = r],
         op[c].phase # "half", r.phase # "half",
         UNCHANGED <<storeVars, gc>>, BlockstoreTypeOK'
  PROVE  StoreInv'
<1>1. op \in [Callers -> CallType]
  BY DEF StoreInv, BlockstoreTypeOK, CallType
<1>2. op'[c] = r /\ \A d \in Callers \ {c} : op'[d] = op[d]
  BY <1>1
<1>3. MoveShape' /\ LimboSettled'
  BY DEF StoreInv, MoveShape, LimboSettled, Copying, storeVars
<1>4. HalfIsPut' /\ CopyHoldsOnly'
  BY <1>2 DEF StoreInv, HalfIsPut, CopyHoldsOnly, storeVars
<1>5. \A k : Coming(k) => Coming(k)'
  BY <1>2 DEF Coming
<1>6. CopyMisses'
  BY <1>5 DEF StoreInv, CopyMisses, storeVars
<1> QED BY <1>3, <1>4, <1>6 DEF StoreInv

\* A new call keeps the invariant; the abstract store takes it, or answers it.
LEMMA CallStep ==
  ASSUME StoreInv, NEW c \in Callers, NEW kind \in Kinds, NEW ks \in SUBSET (Keys \cup InlineKeys),
         Call(c, kind, ks)
  PROVE  StoreInv' /\ Abs!AbsNext
<1> DEFINE r == IF ks \subseteq InlineKeys THEN [kind |-> "read", keys |-> {}, phase |-> "ok"]
                ELSE IF bsState # "open" THEN [kind |-> "read", keys |-> {}, phase |-> "error"]
                ELSE [kind |-> kind, keys |-> ks \ InlineKeys, phase |-> "called"]
<1>1. /\ op \in [Callers -> CallType] /\ op[c].phase \in AtRest /\ op[c].phase \in Phases
      /\ UNCHANGED <<storeVars, bsState, moveState, gc, asleep, iter, moves, faults>>
  BY DEF StoreInv, BlockstoreTypeOK, CallType, Call
<1>2. r \in CallType /\ r.phase \in {"ok", "error", "called"} /\ op' = [op EXCEPT ![c] = r]
  BY DEF CallType, Kinds, Phases, Call
<1>3. /\ op' \in [Callers -> CallType]
      /\ absCall' = [absCall EXCEPT ![c] = [kind |-> r.kind, keys |-> r.keys, phase |-> AbsPhase(r.phase)]]
  BY <1>1, <1>2, OneCaller
<1>4. absCall[c].phase \in {"idle", "ok", "error"}
  BY <1>1, AbsCallIs, Phased
<1>5. UNCHANGED <<db, dbNext # None, limbo, absBackup>>
  BY <1>1 DEF storeVars, absBackup
<1>6. calls' \in 0..MaxCalls
  BY Counters DEF StoreInv, BlockstoreTypeOK, Call
<1>7. BlockstoreTypeOK'
  BY <1>1, <1>3, <1>6 DEF StoreInv, BlockstoreTypeOK, CallType, storeVars
<1>8. StoreInv'
  BY <1>1, <1>2, <1>7, CallerAside DEF AtRest
<1>9. CASE ks \subseteq InlineKeys
  <2>1. absCall' = [absCall EXCEPT ![c] = [kind |-> "read", keys |-> {}, phase |-> "ok"]]
    BY <1>3, <1>9, Phased
  <2>2. Abs!AbsAnswer(c)
    BY <2>1, <1>4, <1>5 DEF Abs!AbsAnswer, Abs!Resting
  <2> QED BY <1>8, <2>2 DEF Abs!AbsNext
<1>10. CASE ~(ks \subseteq InlineKeys) /\ bsState # "open"
  <2>1. absCall' = [absCall EXCEPT ![c] = [kind |-> "read", keys |-> {}, phase |-> "error"]]
    BY <1>3, <1>10, Phased
  <2>2. Abs!AbsAnswer(c)
    BY <2>1, <1>4, <1>5 DEF Abs!AbsAnswer, Abs!Resting
  <2> QED BY <1>8, <2>2 DEF Abs!AbsNext
<1>11. CASE ~(ks \subseteq InlineKeys) /\ bsState = "open"
  <2>1. absCall' = [absCall EXCEPT ![c] = [kind |-> kind, keys |-> ks \ InlineKeys, phase |-> "called"]]
    BY <1>3, <1>11, Phased
  <2>2. Abs!AbsCall(c, kind, ks \ InlineKeys)
    BY <2>1, <1>4, <1>5 DEF Abs!AbsCall, Abs!Resting
  <2>3. kind \in Abs!AbsKinds /\ ks \ InlineKeys \in SUBSET Keys
    BY DEF Abs!AbsKinds, Kinds
  <2> QED BY <1>8, <2>2, <2>3 DEF Abs!AbsNext
<1> QED BY <1>9, <1>10, <1>11

\* lockDB, asleep or not, is nothing to the abstract store.
LEMMA LockStep ==
  ASSUME StoreInv, NEW c \in Callers, LockDB(c)
  PROVE  StoreInv' /\ UNCHANGED Abs!absVars
<1>1. /\ op \in [Callers -> CallType] /\ op[c].phase \in {"called", "waiting"}
      /\ UNCHANGED <<storeVars, bsState, moveState, gc, iter, calls, moves, faults>>
      /\ asleep' \subseteq asleep \cup {c}
  BY DEF StoreInv, BlockstoreTypeOK, CallType, LockDB
<1>2. PICK ph \in {"waiting", "locked"} : op' = [op EXCEPT ![c].phase = ph]
  BY DEF LockDB
<1> ph \in Phases
  BY PhaseNames
<1>3. LET r == [kind |-> op[c].kind, keys |-> op[c].keys, phase |-> ph]
      IN  r \in CallType /\ op' = [op EXCEPT ![c] = r]
  BY <1>1, <1>2, PhaseStep
<1>4. op' \in [Callers -> CallType]
      /\ absCall' = [absCall EXCEPT ![c] = [kind |-> op[c].kind, keys |-> op[c].keys, phase |-> AbsPhase(ph)]]
  BY <1>1, <1>2, PhaseMove
<1>5. absCall = [d \in Callers |-> absCall[d]]
      /\ absCall[c] = [kind |-> op[c].kind, keys |-> op[c].keys, phase |-> AbsPhase(op[c].phase)]
  BY <1>1, AbsCallIs
<1>6. AbsPhase(op[c].phase) = "called" /\ AbsPhase(ph) = "called"
  BY <1>1, <1>2, Phased
<1>7. UNCHANGED absCall
  BY <1>4, <1>5, <1>6
<1>8. BlockstoreTypeOK'
  BY <1>1, <1>4 DEF StoreInv, BlockstoreTypeOK, CallType, storeVars
<1>9. StoreInv'
  BY <1>1, <1>2, <1>3, <1>8, CallerAside
<1> QED BY <1>1, <1>7, <1>9 DEF Abs!absVars, storeVars, absBackup

\* unlockDB is the abstract return.
LEMMA UnlockStep ==
  ASSUME StoreInv, NEW c \in Callers, UnlockDB(c)
  PROVE  StoreInv' /\ Abs!AbsNext
<1> DEFINE ph == IF op[c].phase = "applied" THEN "ok" ELSE "error"
           r == [kind |-> op[c].kind, keys |-> op[c].keys, phase |-> ph]
<1>1. /\ op \in [Callers -> CallType] /\ op[c].phase \in {"applied", "failed"}
      /\ UNCHANGED <<storeVars, bsState, moveState, gc, iter, calls, moves, faults>>
      /\ asleep' \subseteq asleep
  BY DEF StoreInv, BlockstoreTypeOK, CallType, UnlockDB, WokenByUnlock
<1>2. ph \in Phases /\ op' = [op EXCEPT ![c].phase = ph]
  BY DEF UnlockDB, Phases
<1>3. r \in CallType /\ op' = [op EXCEPT ![c] = r]
  BY <1>1, <1>2, PhaseStep
<1>4. op' \in [Callers -> CallType]
      /\ absCall' = [absCall EXCEPT ![c] = [kind |-> op[c].kind, keys |-> op[c].keys, phase |-> AbsPhase(ph)]]
  BY <1>1, <1>2, PhaseMove
<1>5. AbsPhase(ph) = ph /\ absCall[c].phase = op[c].phase
  BY <1>1, Phased, AbsCallIs
<1>6. absCall' = [absCall EXCEPT ![c].phase = ph]
  BY <1>1, <1>4, <1>5, AbsPhaseStep
<1>7. Abs!AbsReturn(c)
  BY <1>1, <1>5, <1>6 DEF Abs!AbsReturn, storeVars, absBackup
<1>8. BlockstoreTypeOK'
  BY <1>1, <1>4 DEF StoreInv, BlockstoreTypeOK, CallType, storeVars
<1>9. StoreInv'
  BY <1>1, <1>3, <1>8, CallerAside
<1> QED BY <1>7, <1>9 DEF Abs!AbsNext

\* A read is the abstract effect of a read: it finds the keys that are stored.
LEMMA ReadStep ==
  ASSUME StoreInv, NEW c \in Callers, Read(c)
  PROVE  StoreInv' /\ Abs!AbsNext
<1> DEFINE r == [kind |-> op[c].kind, keys |-> op[c].keys \cap db, phase |-> "applied"]
<1>1. /\ op \in [Callers -> CallType] /\ op[c].phase = "locked" /\ op[c].kind = "read" /\ op[c] \in CallType
      /\ UNCHANGED <<storeVars, bsState, moveState, gc, asleep, iter, calls, moves, faults>>
  BY DEF StoreInv, BlockstoreTypeOK, CallType, Read
<1>2. r \in CallType
  BY <1>1 DEF CallType, Phases
<1>3. op' = [op EXCEPT ![c] = r]
  <2> DEFINE x == [op EXCEPT ![c].phase = "applied"]
             y == [kind |-> op[c].kind, keys |-> op[c].keys, phase |-> "applied"]
  <2>1. op[c] = [kind |-> op[c].kind, keys |-> op[c].keys, phase |-> op[c].phase]
    BY <1>1 DEF CallType
  <2>2. [op[c] EXCEPT !.phase = "applied"] = y
    BY <2>1
  <2>3. x = [op EXCEPT ![c] = y]
    BY <1>1, <2>2
  <2>4. x[c] = y /\ x = [d \in Callers |-> x[d]] /\ \A d \in Callers \ {c} : x[d] = op[d]
    BY <1>1, <2>3
  <2>5. op' = [x EXCEPT ![c].keys = @ \cap db]
    BY DEF Read
  <2>6. PICK k : k = x[c].keys \cap db
    OBVIOUS
  <2>7. [x[c] EXCEPT !.keys = k] = [kind |-> op[c].kind, keys |-> k, phase |-> "applied"]
    BY <2>4
  <2>8. k = op[c].keys \cap db
    BY <2>4, <2>6
  <2> HIDE DEF x
  <2>9. op' = [x EXCEPT ![c] = r]
    BY <2>4, <2>5, <2>6, <2>7, <2>8
  <2> QED BY <1>1, <2>4, <2>9
<1>4. op' \in [Callers -> CallType]
      /\ absCall' = [absCall EXCEPT ![c] = [kind |-> op[c].kind, keys |-> op[c].keys \cap db,
                                           phase |-> AbsPhase("applied")]]
  <2>1. r.kind = op[c].kind /\ r.keys = op[c].keys \cap db /\ r.phase = "applied"
    OBVIOUS
  <2> HIDE DEF r
  <2>2. op' \in [Callers -> CallType]
        /\ absCall' = [absCall EXCEPT ![c] = [kind |-> r.kind, keys |-> r.keys, phase |-> AbsPhase(r.phase)]]
    BY <1>1, <1>2, <1>3, OneCaller
  <2> QED BY <2>1, <2>2
<1>5. /\ absCall[c].phase = "called" /\ absCall[c].keys = op[c].keys /\ absCall[c].kind = "read"
      /\ AbsPhase("applied") = "applied"
  BY <1>1, Phased, AbsCallIs
<1>6. absCall' = AbsApplied(c, op[c].keys \cap db)
  BY <1>1, <1>4, <1>5, AbsAppliedStep
<1>7. Abs!AbsApply(c)
  BY <1>1, <1>5, <1>6 DEF Abs!AbsApply, AbsApplied, storeVars, absBackup
<1>8. BlockstoreTypeOK'
  BY <1>1, <1>4 DEF StoreInv, BlockstoreTypeOK, CallType, storeVars
<1>9. StoreInv'
  BY <1>1, <1>2, <1>3, <1>8, CallerAside
<1> QED BY <1>7, <1>9 DEF Abs!AbsNext

\* Put in the database in use is the abstract effect of a put.
LEMMA PutStep ==
  ASSUME StoreInv, NEW c \in Callers, PutDB(c)
  PROVE  StoreInv' /\ Abs!AbsNext
<1> DEFINE ph == IF dbNext = None THEN "applied" ELSE "half"
           ks == op[c].keys
           r == [kind |-> op[c].kind, keys |-> op[c].keys, phase |-> ph]
<1>1. /\ op \in [Callers -> CallType] /\ op[c].phase = "locked" /\ op[c].kind = "put" /\ ks \subseteq Keys
      /\ db' = db \cup ks /\ limbo' = limbo \ ks
      /\ UNCHANGED <<dbNext, dbOld, onPath, snap, bsState, moveState, gc, asleep, iter, calls, moves, faults>>
  BY DEF StoreInv, BlockstoreTypeOK, CallType, PutDB
<1>2. ph \in Phases /\ op' = [op EXCEPT ![c].phase = ph]
  BY DEF PutDB, Phases
<1>3. r \in CallType /\ op' = [op EXCEPT ![c] = r]
  BY <1>1, <1>2, PhaseStep
<1>4. /\ op' \in [Callers -> CallType] /\ op'[c] = r /\ \A d \in Callers \ {c} : op'[d] = op[d]
      /\ absCall' = [absCall EXCEPT ![c] = [kind |-> op[c].kind, keys |-> op[c].keys, phase |-> AbsPhase(ph)]]
  BY <1>1, <1>2, PhaseMove
<1>5. AbsPhase(ph) = "applied" /\ absCall[c].phase = "called" /\ absCall[c].keys = ks /\ absCall[c].kind = "put"
  BY <1>1, Phased, AbsCallIs
<1>6. absCall' = AbsApplied(c, ks)
  <2>1. absCall' = [absCall EXCEPT ![c] = [kind |-> op[c].kind, keys |-> op[c].keys, phase |-> "applied"]]
    BY <1>4, <1>5
  <2>2. AbsApplied(c, ks) = [absCall EXCEPT ![c] = [kind |-> op[c].kind, keys |-> ks, phase |-> "applied"]]
    BY <1>1, AbsAppliedStep
  <2> QED BY <2>1, <2>2
<1>7. Abs!AbsApply(c)
  BY <1>1, <1>5, <1>6 DEF Abs!AbsApply, AbsApplied, absBackup
<1>8. BlockstoreTypeOK'
  BY <1>1, <1>4 DEF StoreInv, BlockstoreTypeOK, CallType
<1>9. MoveShape' /\ LimboSettled'
  BY <1>1 DEF StoreInv, MoveShape, LimboSettled, Copying
<1>10. HalfIsPut' /\ CopyHoldsOnly'
  <2>1. r.kind = "put" /\ r.keys = ks /\ (r.phase = "half" => dbNext # None)
    BY <1>1
  <2> HIDE DEF r
  <2> QED BY <1>1, <1>4, <2>1 DEF StoreInv, HalfIsPut, CopyHoldsOnly
<1>11. CopyMisses'
  <2> SUFFICES ASSUME gc \in {"copy", "swap"}, NEW k \in db'
               PROVE  k \in (limbo \cup dbNext \cup snap)' \/ Coming(k)'
    BY <1>1 DEF CopyMisses
  <2>1. CASE k \in ks
    <3>1. r.phase = "half" /\ r.keys = ks
      BY DEF StoreInv, MoveShape, Copying
    <3> QED BY <2>1, <3>1, <1>4 DEF Coming
  <2>2. CASE k \notin ks
    <3>1. k \in limbo' \cup dbNext' \cup snap' \/ Coming(k)
      BY <2>2, <1>1 DEF StoreInv, CopyMisses
    <3>2. Coming(k) => Coming(k)'
      BY <1>1, <1>4 DEF Coming
    <3> QED BY <3>1, <3>2
  <2> QED BY <2>1, <2>2
<1> QED BY <1>7, <1>8, <1>9, <1>10, <1>11 DEF Abs!AbsNext, StoreInv

\* The second write of a put, to the copy, is nothing to the abstract store.
LEMMA PutNextStep ==
  ASSUME StoreInv, NEW c \in Callers, PutNext(c)
  PROVE  StoreInv' /\ UNCHANGED Abs!absVars
<1> DEFINE r == [kind |-> op[c].kind, keys |-> op[c].keys, phase |-> "applied"]
<1>1. /\ op \in [Callers -> CallType] /\ op[c].phase = "half" /\ op[c].keys \subseteq Keys
      /\ dbNext' = dbNext \cup op[c].keys /\ op' = [op EXCEPT ![c].phase = "applied"]
      /\ UNCHANGED <<db, dbOld, onPath, snap, limbo, bsState, moveState, gc, asleep, iter, calls, moves, faults>>
  BY DEF StoreInv, BlockstoreTypeOK, CallType, PutNext
<1>2. r \in CallType /\ op' = [op EXCEPT ![c] = r]
  BY <1>1, PhaseStep, PhaseNames
<1>3. /\ op' \in [Callers -> CallType] /\ op'[c] = r /\ \A d \in Callers \ {c} : op'[d] = op[d]
      /\ absCall' = [absCall EXCEPT ![c] = [kind |-> op[c].kind, keys |-> op[c].keys, phase |-> AbsPhase("applied")]]
  BY <1>1, PhaseMove, PhaseNames
<1>4. absCall = [d \in Callers |-> absCall[d]]
      /\ absCall[c] = [kind |-> op[c].kind, keys |-> op[c].keys, phase |-> AbsPhase(op[c].phase)]
  BY <1>1, AbsCallIs
<1>5. UNCHANGED absCall
  BY <1>1, <1>3, <1>4, Phased
<1>6. dbNext # None /\ dbNext \subseteq Keys /\ dbNext' \subseteq Keys
  BY <1>1 DEF StoreInv, HalfIsPut, BlockstoreTypeOK
<1>7. dbNext' # None
  BY <1>6, NextNotNone
<1>8. BlockstoreTypeOK'
  BY <1>1, <1>3, <1>6 DEF StoreInv, BlockstoreTypeOK, CallType
<1>9. MoveShape' /\ LimboSettled' /\ HalfIsPut'
  BY <1>1, <1>3, <1>6, <1>7 DEF StoreInv, MoveShape, LimboSettled, Copying, HalfIsPut
<1>10. CopyHoldsOnly'
  BY <1>1, <1>3, <1>6 DEF StoreInv, CopyHoldsOnly
<1>11. CopyMisses'
  <2>1. \A k : Coming(k) => k \in op[c].keys \/ Coming(k)'
    BY <1>1, <1>3 DEF Coming
  <2> QED BY <2>1, <1>1 DEF StoreInv, CopyMisses
<1> QED
  BY <1>1, <1>5, <1>6, <1>7, <1>8, <1>9, <1>10, <1>11 DEF Abs!absVars, absBackup, StoreInv

\* Delete is the abstract effect of a delete: while a copy is made the keys are
\* unsettled.
LEMMA DeleteStep ==
  ASSUME StoreInv, NEW c \in Callers, Delete(c)
  PROVE  StoreInv' /\ Abs!AbsNext
<1> DEFINE ks == op[c].keys
           r == [kind |-> op[c].kind, keys |-> op[c].keys, phase |-> "applied"]
<1>1. /\ op \in [Callers -> CallType] /\ op[c].phase = "locked" /\ op[c].kind = "delete" /\ ks \subseteq Keys
      /\ db' = db \ ks /\ limbo' = (IF dbNext = None THEN limbo ELSE limbo \cup ks)
      /\ op' = [op EXCEPT ![c].phase = "applied"]
      /\ UNCHANGED <<dbNext, dbOld, onPath, snap, bsState, moveState, gc, asleep, iter, calls, moves, faults>>
  BY DEF StoreInv, BlockstoreTypeOK, CallType, Delete
<1>2. r \in CallType /\ op' = [op EXCEPT ![c] = r]
  BY <1>1, PhaseStep, PhaseNames
<1>3. /\ op' \in [Callers -> CallType] /\ op'[c] = r /\ \A d \in Callers \ {c} : op'[d] = op[d]
      /\ absCall' = [absCall EXCEPT ![c] = [kind |-> op[c].kind, keys |-> op[c].keys, phase |-> AbsPhase("applied")]]
  BY <1>1, PhaseMove, PhaseNames
<1>4. /\ AbsPhase("applied") = "applied" /\ absCall[c].phase = "called" /\ absCall[c].keys = ks
      /\ absCall[c].kind = "delete"
  BY <1>1, Phased, AbsCallIs
<1>5. absCall' = AbsApplied(c, ks)
  <2>1. absCall' = [absCall EXCEPT ![c] = [kind |-> op[c].kind, keys |-> op[c].keys, phase |-> "applied"]]
    BY <1>3, <1>4
  <2>2. AbsApplied(c, ks) = [absCall EXCEPT ![c] = [kind |-> op[c].kind, keys |-> ks, phase |-> "applied"]]
    BY <1>1, AbsAppliedStep
  <2> QED BY <2>1, <2>2
<1>6. Abs!AbsApply(c)
  BY <1>1, <1>4, <1>5 DEF Abs!AbsApply, AbsApplied, absBackup
<1>7. BlockstoreTypeOK'
  BY <1>1, <1>3 DEF StoreInv, BlockstoreTypeOK, CallType
<1>8. MoveShape' /\ LimboSettled' /\ HalfIsPut'
  BY <1>1, <1>3 DEF StoreInv, MoveShape, LimboSettled, Copying, HalfIsPut
<1>9. CopyHoldsOnly'
  <2>1. dbNext = None => snap = {} /\ \A d \in Callers : op[d].phase # "half"
    BY DEF StoreInv, MoveShape, HalfIsPut, Copying
  <2>2. db \cup limbo \subseteq db' \cup limbo' \/ dbNext = None
    BY <1>1
  <2> QED BY <1>1, <1>3, <2>1, <2>2 DEF StoreInv, CopyHoldsOnly
<1>10. CopyMisses'
  <2>1. \A k : Coming(k) => Coming(k)'
    BY <1>1, <1>3 DEF Coming
  <2> QED BY <2>1, <1>1 DEF StoreInv, CopyMisses
<1> QED BY <1>6, <1>7, <1>8, <1>9, <1>10 DEF Abs!AbsNext, StoreInv

\* A write that fails has applied some of its keys; while a copy is made all of
\* them are unsettled.
LEMMA FailStep ==
  ASSUME StoreInv, NEW c \in Callers, WriteFails(c)
  PROVE  StoreInv' /\ Abs!AbsNext
<1> DEFINE ks == op[c].keys
           r == [kind |-> op[c].kind, keys |-> op[c].keys, phase |-> "failed"]
<1>1. /\ op \in [Callers -> CallType] /\ ks \subseteq Keys
      /\ limbo' = (IF dbNext = None THEN limbo ELSE limbo \cup ks)
      /\ op' = [op EXCEPT ![c].phase = "failed"]
      /\ UNCHANGED <<dbOld, onPath, snap, bsState, moveState, gc, asleep, iter, calls, moves>>
  BY DEF StoreInv, BlockstoreTypeOK, CallType, WriteFails
<1>2. r \in CallType /\ op' = [op EXCEPT ![c] = r]
  BY <1>1, PhaseStep, PhaseNames
<1>3. /\ op' \in [Callers -> CallType] /\ op'[c] = r /\ \A d \in Callers \ {c} : op'[d] = op[d]
      /\ absCall' = [absCall EXCEPT ![c] = [kind |-> op[c].kind, keys |-> op[c].keys, phase |-> AbsPhase("failed")]]
  BY <1>1, PhaseMove, PhaseNames
<1>4. absCall' = [absCall EXCEPT ![c].phase = "failed"]
  <2>1. absCall' = [absCall EXCEPT ![c] = [kind |-> op[c].kind, keys |-> op[c].keys, phase |-> "failed"]]
    BY <1>3, Phased
  <2>2. [absCall EXCEPT ![c].phase = "failed"]
          = [absCall EXCEPT ![c] = [kind |-> op[c].kind, keys |-> op[c].keys, phase |-> "failed"]]
    BY <1>1, AbsPhaseStep
  <2> QED BY <2>1, <2>2
<1>5. faults' \in 0..MaxFaults
  BY Counters DEF StoreInv, BlockstoreTypeOK, WriteFails, Fault
<1>6. PICK some \in SUBSET ks :
        \/ op[c].phase = "locked" /\ op[c].kind = "put" /\ db' = db \cup some /\ UNCHANGED dbNext
        \/ op[c].phase = "locked" /\ op[c].kind = "delete" /\ db' = db \ some /\ UNCHANGED dbNext
        \/ op[c].phase = "half" /\ dbNext' = dbNext \cup some /\ UNCHANGED db
  BY DEF WriteFails
<1>7. /\ absCall[c].keys = ks /\ absCall[c].kind = op[c].kind
      /\ op[c].phase = "locked" => absCall[c].phase = "called"
      /\ op[c].phase = "half" => absCall[c].phase = "applied" /\ op[c].kind = "put" /\ dbNext # None
  BY <1>1, Phased, AbsCallIs DEF StoreInv, HalfIsPut
<1>8. /\ db' \subseteq Keys /\ (dbNext' = None \/ dbNext' \subseteq Keys)
      /\ dbNext = None => dbNext' = None /\ dbNext \notin SUBSET Keys
      /\ dbNext # None => dbNext' # None /\ dbNext \subseteq Keys
  <2>1. /\ db \subseteq Keys /\ (dbNext = None \/ dbNext \subseteq Keys) /\ some \subseteq Keys
    BY <1>1 DEF StoreInv, BlockstoreTypeOK
  <2>2. CASE op[c].phase = "locked"
    BY <2>1, <2>2, <1>6, NextNotNone
  <2>3. CASE op[c].phase = "half"
    <3>1. dbNext' = dbNext \cup some /\ UNCHANGED db /\ dbNext # None
      BY <1>6, <1>7, <2>3
    <3>2. dbNext' \in SUBSET Keys
      BY <3>1, <2>1
    <3> QED BY <3>1, <3>2, <2>1, NextNotNone
  <2> QED BY <2>2, <2>3, <1>6
<1>9. Abs!AbsFail(c)
  <2>1. CASE op[c].phase = "locked"
    BY <2>1, <1>1, <1>4, <1>6, <1>7, <1>8 DEF Abs!AbsFail, absBackup
  <2>2. CASE op[c].phase = "half"
    BY <2>2, <1>1, <1>4, <1>6, <1>7, <1>8 DEF Abs!AbsFail, absBackup
  <2> QED BY <2>1, <2>2, <1>6
<1>10. BlockstoreTypeOK'
  BY <1>1, <1>3, <1>5, <1>8 DEF StoreInv, BlockstoreTypeOK, CallType
<1>11. MoveShape' /\ LimboSettled' /\ HalfIsPut'
  BY <1>1, <1>3, <1>8 DEF StoreInv, MoveShape, LimboSettled, Copying, HalfIsPut
<1>12. dbNext = None => snap = {} /\ \A d \in Callers : op[d].phase # "half"
  BY DEF StoreInv, MoveShape, HalfIsPut, Copying
<1>13. CopyHoldsOnly'
  <2>1. CASE dbNext = None
    BY <2>1, <1>1, <1>3, <1>8, <1>12 DEF CopyHoldsOnly
  <2>2. CASE dbNext # None
    <3>1. db \cup limbo \subseteq db' \cup limbo' /\ some \subseteq limbo'
      BY <2>2, <1>1, <1>6
    <3>2. dbNext' \subseteq dbNext \cup some
      BY <1>6
    <3> QED BY <2>2, <3>1, <3>2, <1>1, <1>3 DEF StoreInv, CopyHoldsOnly
  <2> QED BY <2>1, <2>2
<1>14. CopyMisses'
  <2> SUFFICES ASSUME gc \in {"copy", "swap"}, NEW k \in db'
               PROVE  k \in (limbo \cup dbNext \cup snap)' \/ Coming(k)'
    BY <1>1 DEF CopyMisses
  <2>1. dbNext # None /\ limbo' = limbo \cup ks
    BY <1>1 DEF StoreInv, MoveShape, Copying
  <2>2. CASE k \in ks
    BY <2>1, <2>2
  <2>3. CASE k \notin ks
    <3>1. k \in db /\ dbNext \subseteq dbNext'
      BY <2>3, <1>6
    <3>2. Coming(k) => Coming(k)'
      BY <2>3, <1>3 DEF Coming
    <3> QED BY <2>1, <3>1, <3>2, <1>1 DEF StoreInv, CopyMisses
  <2> QED BY <2>2, <2>3
<1> QED BY <1>9, <1>10, <1>11, <1>13, <1>14 DEF Abs!AbsNext, StoreInv

-----------------------------------------------------------------------------
(* The move, Close and crashes.                                              *)

\* A step that leaves the databases and the calls alone keeps the invariant when
\* movingGC goes to a step that expects the databases there are.
LEMMA MoveAside ==
  ASSUME StoreInv, UNCHANGED <<storeVars, op>>, BlockstoreTypeOK', MoveShape',
         gc' \in {"copy", "swap"} => gc \in {"copy", "swap"}
  PROVE  StoreInv' /\ UNCHANGED Abs!absVars
<1>1. HalfIsPut' /\ LimboSettled' /\ CopyHoldsOnly'
  BY DEF StoreInv, HalfIsPut, LimboSettled, CopyHoldsOnly, storeVars
<1>2. \A k : Coming(k)' <=> Coming(k)
  BY DEF Coming
<1>3. CopyMisses'
  BY <1>2 DEF StoreInv, CopyMisses, storeVars
<1>4. UNCHANGED absCall
  BY DEF absCall
<1>5. UNCHANGED Abs!absVars
  BY <1>4 DEF Abs!absVars, storeVars, absBackup
<1> QED BY <1>1, <1>3, <1>5 DEF StoreInv

\* Steps of the move, of the iterator and of Close that change no database.
LEMMA QuietSteps ==
  ASSUME StoreInv,
         \/ AllKeysChan \/ AllKeysChanEnds \/ CollectGarbage \/ MoveBegins \/ MoveOpens
         \/ MoveDrops \/ MoveEnds \/ Close \/ CloseEnds
  PROVE  StoreInv' /\ UNCHANGED Abs!absVars
<1> USE DEF StoreInv, BlockstoreTypeOK, MoveShape, Copying, storeVars
<1>1. CASE AllKeysChan
  <2>1. BlockstoreTypeOK' /\ MoveShape' /\ gc' = gc
    BY <1>1, Counters DEF AllKeysChan
  <2> QED BY <1>1, <2>1, MoveAside DEF AllKeysChan
<1>2. CASE AllKeysChanEnds
  <2>1. BlockstoreTypeOK' /\ MoveShape' /\ gc' = gc
    BY <1>2 DEF AllKeysChanEnds
  <2> QED BY <1>2, <2>1, MoveAside DEF AllKeysChanEnds
<1>3. CASE CollectGarbage
  <2>1. BlockstoreTypeOK' /\ MoveShape' /\ gc' = "begin"
    BY <1>3, Counters DEF CollectGarbage, LockMove, GCPhases
  <2> QED BY <1>3, <2>1, MoveAside DEF CollectGarbage
<1>4. CASE MoveBegins
  <2>1. BlockstoreTypeOK' /\ MoveShape' /\ gc' = "open"
    BY <1>4 DEF MoveBegins, UnlockMove, GCPhases
  <2> QED BY <1>4, <2>1, MoveAside DEF MoveBegins
<1>5. CASE MoveOpens
  <2>1. gc' \in {"next", "defer"} /\ moveState' = "Lock" /\ asleep' \subseteq asleep \cup {None}
    BY <1>5 DEF MoveOpens, LockMove
  <2>2. faults' \in 0..MaxFaults
    BY <1>5, Counters DEF MoveOpens, Fault
  <2>3. BlockstoreTypeOK' /\ MoveShape'
    BY <1>5, <2>1, <2>2 DEF MoveOpens, GCPhases
  <2> QED BY <1>5, <2>1, <2>3, MoveAside DEF MoveOpens
<1>6. CASE MoveDrops
  <2>1. BlockstoreTypeOK' /\ MoveShape' /\ gc' = "last"
    BY <1>6 DEF MoveDrops, LockMove, GCPhases
  <2> QED BY <1>6, <2>1, MoveAside DEF MoveDrops
<1>7. CASE MoveEnds
  <2>1. BlockstoreTypeOK' /\ MoveShape' /\ gc' = "idle"
    BY <1>7 DEF MoveEnds, UnlockMove, GCPhases
  <2> QED BY <1>7, <2>1, MoveAside DEF MoveEnds
<1>8. CASE Close
  <2>1. BlockstoreTypeOK' /\ MoveShape' /\ gc' = gc
    BY <1>8, Counters DEF Close
  <2> QED BY <1>8, <2>1, MoveAside DEF Close
<1>9. CASE CloseEnds
  <2>1. BlockstoreTypeOK' /\ MoveShape' /\ gc' = gc
    BY <1>9 DEF CloseEnds
  <2> QED BY <1>9, <2>1, MoveAside DEF CloseEnds
<1> QED BY <1>1, <1>2, <1>3, <1>4, <1>5, <1>6, <1>7, <1>8, <1>9

\* The new database is put in use as a copy: the abstract collection begins.
LEMMA BeginStep ==
  ASSUME StoreInv, MoveSetsNext
  PROVE  StoreInv' /\ Abs!AbsNext
<1>1. /\ gc = "next" /\ gc' = "stream" /\ moveState' = "Moving" /\ asleep' = {}
      /\ dbNext' = {} /\ limbo' = {}
      /\ UNCHANGED <<db, dbOld, onPath, snap, bsState, op, iter, calls, moves, faults>>
  BY DEF MoveSetsNext, UnlockMove
<1>2. dbNext = None /\ dbNext' # None /\ snap = {}
  BY <1>1, NextNotNone DEF StoreInv, MoveShape, Copying
<1>3. \A c \in Callers : op[c].phase # "half"
  BY <1>2 DEF StoreInv, HalfIsPut
<1>4. BlockstoreTypeOK' /\ MoveShape' /\ LimboSettled'
  BY <1>1, <1>2 DEF StoreInv, BlockstoreTypeOK, GCPhases, MoveShape, Copying, LimboSettled
<1>5. HalfIsPut' /\ CopyHoldsOnly' /\ CopyMisses'
  BY <1>1, <1>2, <1>3 DEF HalfIsPut, CopyHoldsOnly, CopyMisses
<1>6. UNCHANGED absCall
  BY <1>1 DEF absCall
<1>7. Abs!AbsBegin
  BY <1>1, <1>2, <1>6 DEF Abs!AbsBegin, absBackup
<1> QED BY <1>4, <1>5, <1>7 DEF Abs!AbsNext, StoreInv

\* The stream and its end are nothing to the abstract store.
LEMMA CopySteps ==
  ASSUME StoreInv, CopyStarts \/ CopyKeys \/ CopyEnds
  PROVE  StoreInv' /\ UNCHANGED Abs!absVars
<1>1. UNCHANGED <<db, dbOld, onPath, limbo, bsState, op, iter, calls, moves>>
  BY DEF CopyStarts, CopyKeys, CopyEnds
<1>2. UNCHANGED absCall /\ \A k : Coming(k)' <=> Coming(k)
  BY <1>1 DEF absCall, Coming
<1>3. dbNext # None /\ dbNext \subseteq Keys
  BY DEF CopyStarts, CopyKeys, CopyEnds, StoreInv, MoveShape, Copying, BlockstoreTypeOK
<1>4. CASE CopyStarts
  <2>1. /\ gc = "stream" /\ gc' = "copy" /\ snap' = db
        /\ UNCHANGED <<dbNext, moveState, asleep, faults>>
    BY <1>4 DEF CopyStarts
  <2>2. BlockstoreTypeOK' /\ MoveShape'
    BY <1>1, <1>3, <2>1 DEF StoreInv, BlockstoreTypeOK, GCPhases, MoveShape, Copying
  <2>3. HalfIsPut' /\ LimboSettled' /\ CopyHoldsOnly' /\ CopyMisses'
    BY <1>1, <1>2, <2>1 DEF StoreInv, HalfIsPut, LimboSettled, CopyHoldsOnly, CopyMisses
  <2> QED BY <1>1, <1>2, <2>1, <2>2, <2>3 DEF StoreInv, Abs!absVars, absBackup
<1>5. CASE CopyKeys
  <2>1. PICK ks \in SUBSET snap : dbNext' = dbNext \cup ks /\ snap' = snap \ ks
    BY <1>5 DEF CopyKeys
  <2>2. gc = "copy" /\ UNCHANGED <<gc, moveState, asleep, faults>>
    BY <1>5 DEF CopyKeys
  <2>3. dbNext' \in SUBSET Keys /\ snap' \subseteq Keys
    BY <1>3, <2>1 DEF StoreInv, BlockstoreTypeOK
  <2>4. dbNext' # None
    BY <2>3, NextNotNone
  <2>5. BlockstoreTypeOK' /\ MoveShape' /\ HalfIsPut' /\ LimboSettled'
    BY <1>1, <2>2, <2>3, <2>4
       DEF StoreInv, BlockstoreTypeOK, MoveShape, Copying, HalfIsPut, LimboSettled
  <2>6. CopyHoldsOnly' /\ CopyMisses'
    BY <1>1, <1>2, <1>3, <2>1, <2>2 DEF StoreInv, CopyHoldsOnly, CopyMisses
  <2> QED BY <1>1, <1>2, <1>3, <2>4, <2>5, <2>6 DEF StoreInv, Abs!absVars, absBackup
<1>6. CASE CopyEnds
  <2>1. /\ gc = "copy" /\ gc' \in {"swap", "defer"} /\ (gc' = "swap" => snap = {}) /\ snap' = {}
        /\ moveState' = "Lock" /\ asleep' \subseteq asleep \cup {None} /\ UNCHANGED dbNext
    BY <1>6 DEF CopyEnds, LockMove
  <2>2. faults' \in 0..MaxFaults
    BY <1>6, Counters DEF CopyEnds, Fault, StoreInv, BlockstoreTypeOK
  <2>3. BlockstoreTypeOK' /\ MoveShape'
    BY <1>1, <1>3, <2>1, <2>2 DEF StoreInv, BlockstoreTypeOK, GCPhases, MoveShape, Copying
  <2>4. HalfIsPut' /\ LimboSettled' /\ CopyHoldsOnly'
    BY <1>1, <2>1 DEF StoreInv, HalfIsPut, LimboSettled, CopyHoldsOnly
  <2>5. CopyMisses'
    BY <1>1, <1>2, <2>1 DEF StoreInv, CopyMisses
  <2> QED BY <1>1, <1>2, <2>1, <2>3, <2>4, <2>5 DEF StoreInv, Abs!absVars, absBackup
<1> QED BY <1>4, <1>5, <1>6

\* The switch: the copy that comes into use holds all that is stored and settled,
\* and nothing that is neither stored nor unsettled.
LEMMA SwitchStep ==
  ASSUME StoreInv, MoveSwaps
  PROVE  StoreInv' /\ Abs!AbsNext
<1>1. /\ gc = "swap" /\ gc' = "rename" /\ moveState' = "Cleanup" /\ asleep' = {}
      /\ dbOld' = db /\ db' = dbNext /\ dbNext' = None /\ onPath' = "old" /\ limbo' = {}
      /\ UNCHANGED <<snap, bsState, op, iter, calls, moves, faults>>
  BY DEF MoveSwaps, UnlockMove
<1>2. \A c \in Callers : op[c].phase # "half"
  BY ExclusiveAlone DEF MoveSwaps, StoreInv
<1>3. dbNext # None /\ dbNext \subseteq Keys /\ db \in SUBSET Keys /\ snap = {}
  BY <1>1 DEF StoreInv, BlockstoreTypeOK, MoveShape, Copying
<1>4. db # None
  BY <1>3, NextNotNone
<1>5. db \ limbo \subseteq dbNext /\ dbNext \subseteq db \cup limbo
  <2>1. \A k \in db : k \in limbo \cup dbNext
    BY <1>1, <1>2, <1>3 DEF StoreInv, CopyMisses, Coming
  <2> QED BY <2>1, <1>3 DEF StoreInv, CopyHoldsOnly
<1>6. BlockstoreTypeOK' /\ MoveShape' /\ LimboSettled'
  BY <1>1, <1>3, <1>4 DEF StoreInv, BlockstoreTypeOK, GCPhases, MoveShape, Copying, LimboSettled
<1>7. HalfIsPut' /\ CopyHoldsOnly' /\ CopyMisses'
  BY <1>1, <1>2, <1>3 DEF HalfIsPut, CopyHoldsOnly, CopyMisses
<1>8. UNCHANGED absCall
  BY <1>1 DEF absCall
<1>9. dbNext = (db \ limbo) \cup (dbNext \cap limbo) /\ dbNext \cap limbo \in SUBSET limbo
  BY <1>5
<1>10. absBackup' = db
  BY <1>1 DEF absBackup
<1>11. Abs!AbsSwitch
  BY <1>1, <1>3, <1>8, <1>9, <1>10 DEF Abs!AbsSwitch
<1> QED BY <1>6, <1>7, <1>11 DEF Abs!AbsNext, StoreInv

\* After the switch the path is renamed and then names the new database: the
\* abstract store is settled.
LEMMA PathSteps ==
  ASSUME StoreInv, MoveRenames \/ MoveSymlinks
  PROVE  StoreInv' /\ (Abs!AbsNext \/ UNCHANGED Abs!absVars)
<1>1. CASE MoveRenames
  <2>1. /\ gc = "rename" /\ gc' = "symlink" /\ onPath' = "void"
        /\ UNCHANGED <<db, dbNext, dbOld, snap, limbo, bsState, moveState, op, asleep, iter, calls, moves, faults>>
    BY <1>1 DEF MoveRenames
  <2>2. onPath = "old" /\ dbOld # None
    BY <2>1 DEF StoreInv, MoveShape
  <2>3. BlockstoreTypeOK' /\ MoveShape' /\ HalfIsPut' /\ LimboSettled' /\ CopyHoldsOnly' /\ CopyMisses'
    BY <2>1, <2>2
       DEF StoreInv, BlockstoreTypeOK, GCPhases, MoveShape, Copying, HalfIsPut, LimboSettled,
                      CopyHoldsOnly, CopyMisses
  <2>4. UNCHANGED <<absCall, absBackup>>
    BY <2>1, <2>2 DEF absCall, absBackup
  <2> QED BY <2>1, <2>3, <2>4 DEF StoreInv, Abs!absVars
<1>2. CASE MoveSymlinks
  <2>1. /\ gc = "symlink" /\ gc' = "defer" /\ onPath' = "db" /\ dbOld' = None
        /\ moveState' = "Lock" /\ asleep' \subseteq asleep \cup {None}
        /\ UNCHANGED <<db, dbNext, snap, limbo, bsState, op, iter, calls, moves, faults>>
    BY <1>2 DEF MoveSymlinks, LockMove
  <2>2. onPath = "void" /\ dbOld # None
    BY <2>1 DEF StoreInv, MoveShape
  <2>3. BlockstoreTypeOK' /\ MoveShape' /\ HalfIsPut' /\ LimboSettled' /\ CopyHoldsOnly' /\ CopyMisses'
    BY <2>1, <2>2
       DEF StoreInv, BlockstoreTypeOK, GCPhases, MoveShape, Copying, HalfIsPut, LimboSettled,
                      CopyHoldsOnly, CopyMisses
  <2>4. UNCHANGED absCall /\ absBackup # None /\ absBackup' = None
    BY <2>1, <2>2 DEF absCall, absBackup
  <2>5. Abs!AbsSettle
    BY <2>1, <2>4 DEF Abs!AbsSettle
  <2> QED BY <2>3, <2>5 DEF StoreInv, Abs!AbsNext
<1> QED BY <1>1, <1>2

\* The deferred function gives up a copy that did not come into use.
LEMMA CleanStep ==
  ASSUME StoreInv, MoveCleans
  PROVE  StoreInv' /\ (Abs!AbsNext \/ UNCHANGED Abs!absVars)
<1>1. /\ gc = "defer" /\ gc' \in {"idle", "drop"} /\ moveState' \in {"None", "Cleanup"} /\ asleep' = {}
      /\ dbNext' = None /\ limbo' = {}
      /\ UNCHANGED <<db, dbOld, onPath, snap, bsState, op, iter, calls, moves, faults>>
  BY DEF MoveCleans, UnlockMove
<1>2. \A c \in Callers : op[c].phase # "half"
  BY ExclusiveAlone DEF MoveCleans, StoreInv
<1>3. BlockstoreTypeOK' /\ MoveShape' /\ LimboSettled'
  BY <1>1 DEF StoreInv, BlockstoreTypeOK, GCPhases, MoveShape, Copying, LimboSettled
<1>4. snap = {}
  BY <1>1 DEF StoreInv, MoveShape
<1>5. HalfIsPut' /\ CopyHoldsOnly' /\ CopyMisses'
  BY <1>1, <1>2, <1>4 DEF HalfIsPut, CopyHoldsOnly, CopyMisses
<1>6. UNCHANGED <<absCall, absBackup>>
  BY <1>1 DEF absCall, absBackup
<1>7. CASE dbNext = None
  BY <1>1, <1>3, <1>5, <1>6, <1>7 DEF StoreInv, LimboSettled, Abs!absVars
<1>8. CASE dbNext # None
  <2>1. Abs!AbsAbort
    BY <1>1, <1>6, <1>8 DEF Abs!AbsAbort
  <2> QED BY <2>1, <1>3, <1>5 DEF StoreInv, Abs!AbsNext
<1> QED BY <1>7, <1>8

\* A crash or a restart opens the database that the path names: the one in use,
\* the one that was replaced, or an empty one.
LEMMA RestartStep ==
  ASSUME StoreInv, Restart
  PROVE  StoreInv' /\ Abs!AbsNext
<1>1. /\ bsState' = "open" /\ moveState' = "None" /\ db' = Reopened
      /\ dbNext' = None /\ dbOld' = None /\ onPath' = "db" /\ snap' = {}
      /\ gc' = "idle" /\ asleep' = {} /\ iter' = FALSE /\ limbo' = {} /\ UNCHANGED <<calls, moves>>
      /\ op' = [c \in Callers |->
            IF op[c].phase \in AtRest THEN op[c] ELSE [op[c] EXCEPT !.phase = "error"]]
  BY DEF Restart
<1>2. op \in [Callers -> CallType] /\ onPath \in {"db", "old", "void"}
  BY DEF StoreInv, BlockstoreTypeOK, CallType
<1>3. ASSUME NEW c \in Callers
      PROVE  /\ op'[c] \in CallType /\ op'[c].kind = op[c].kind /\ op'[c].keys = op[c].keys
             /\ op'[c].phase = IF op[c].phase \in AtRest THEN op[c].phase ELSE "error"
  <2>1. op[c] \in CallType
    BY <1>2
  <2>2. op[c] = [kind |-> op[c].kind, keys |-> op[c].keys, phase |-> op[c].phase]
    BY <2>1 DEF CallType
  <2>3. [op[c] EXCEPT !.phase = "error"] = [kind |-> op[c].kind, keys |-> op[c].keys, phase |-> "error"]
    BY <2>2
  <2>4. CASE op[c].phase \in AtRest
    BY <1>1, <2>1, <2>4
  <2>5. CASE op[c].phase \notin AtRest
    <3>1. op'[c] = [kind |-> op[c].kind, keys |-> op[c].keys, phase |-> "error"]
      BY <1>1, <2>3, <2>5
    <3> QED BY <3>1, <2>1, <2>5 DEF CallType, Phases
  <2> QED BY <2>4, <2>5
<1>4. op' \in [Callers -> CallType]
  BY <1>1, <1>3
<1>5. faults' \in 0..MaxFaults
  BY Counters DEF StoreInv, BlockstoreTypeOK, Restart, Fault
<1>6. /\ onPath = "db" => absBackup = None /\ Reopened = db
      /\ onPath = "old" => absBackup # None /\ Reopened = absBackup
      /\ onPath = "void" => absBackup # None /\ Reopened = {}
  BY DEF StoreInv, MoveShape, absBackup, Reopened
<1>7. Reopened \subseteq Keys
  BY <1>2, <1>6 DEF StoreInv, BlockstoreTypeOK, MoveShape, absBackup
<1>8. BlockstoreTypeOK'
  BY <1>1, <1>4, <1>5, <1>7 DEF StoreInv, BlockstoreTypeOK, CallType, GCPhases
<1>9. \A c \in Callers : op'[c].phase # "half"
  BY <1>3 DEF AtRest
<1>10. MoveShape' /\ HalfIsPut' /\ LimboSettled' /\ CopyHoldsOnly' /\ CopyMisses'
  BY <1>1, <1>9 DEF MoveShape, Copying, HalfIsPut, LimboSettled, CopyHoldsOnly, CopyMisses
<1>11. absCall' = [c \in Callers |-> IF Abs!Resting(c) THEN absCall[c] ELSE [absCall[c] EXCEPT !.phase = "error"]]
  <2>1. absCall' = [c \in Callers |-> [kind |-> op'[c].kind, keys |-> op'[c].keys,
                                       phase |-> AbsPhase(op'[c].phase)]]
    BY <1>4, AbsOpIs DEF absCall
  <2>2. ASSUME NEW c \in Callers
        PROVE  [kind |-> op'[c].kind, keys |-> op'[c].keys, phase |-> AbsPhase(op'[c].phase)]
                 = IF Abs!Resting(c) THEN absCall[c] ELSE [absCall[c] EXCEPT !.phase = "error"]
    <3>1. absCall[c] = [kind |-> op[c].kind, keys |-> op[c].keys, phase |-> AbsPhase(op[c].phase)]
      BY <1>2, AbsCallIs
    <3>2. [absCall[c] EXCEPT !.phase = "error"] = [kind |-> op[c].kind, keys |-> op[c].keys, phase |-> "error"]
      BY <3>1
    <3>3. Abs!Resting(c) <=> op[c].phase \in AtRest
      BY <1>2, <3>1, Phased DEF Abs!Resting, CallType
    <3> QED BY <1>3, <3>1, <3>2, <3>3, Phased
  <2> QED BY <2>1, <2>2
<1>12. Abs!AbsCrash
  BY <1>1, <1>2, <1>6, <1>11 DEF Abs!AbsCrash, absBackup
<1> QED BY <1>8, <1>10, <1>12 DEF StoreInv, Abs!AbsNext

-----------------------------------------------------------------------------
(* The refinement.                                                           *)

\* The first state is that of an empty abstract store.
LEMMA InitStep == BlockstoreInit => StoreInv /\ Abs!AbsInit
<1> SUFFICES ASSUME BlockstoreInit
             PROVE  StoreInv /\ Abs!AbsInit
  OBVIOUS
<1>1. op \in [Callers -> CallType] /\ \A c \in Callers : op[c] = [kind |-> "read", keys |-> {}, phase |-> "idle"]
  BY DEF BlockstoreInit, CallType, Kinds, Phases
<1>2. BlockstoreTypeOK
  <2>1. 0 \in 0..MaxCalls /\ 0 \in 0..MaxMoves /\ 0 \in 0..MaxFaults
    BY BlockstoreAssumption
  <2>2. op \in [Callers -> [kind : Kinds, keys : SUBSET Keys, phase : Phases]]
    BY <1>1 DEF CallType
  <2>3. calls \in 0..MaxCalls /\ moves \in 0..MaxMoves /\ faults \in 0..MaxFaults
    BY <2>1 DEF BlockstoreInit
  <2>4. /\ bsState = "open" /\ moveState = "None" /\ db = {} /\ dbNext = None /\ dbOld = None
        /\ onPath = "db" /\ snap = {} /\ gc = "idle" /\ asleep = {} /\ iter = FALSE /\ limbo = {}
    BY DEF BlockstoreInit
  <2> QED BY <2>2, <2>3, <2>4 DEF BlockstoreTypeOK, GCPhases
<1>3. MoveShape /\ HalfIsPut /\ LimboSettled /\ CopyHoldsOnly /\ CopyMisses
  BY <1>1 DEF BlockstoreInit, MoveShape, Copying, HalfIsPut, LimboSettled, CopyHoldsOnly, CopyMisses
<1>4. absCall = [c \in Callers |-> [kind |-> "read", keys |-> {}, phase |-> "idle"]]
  BY <1>1, AbsCallIs, Phased
<1>5. Abs!AbsInit
  BY <1>4 DEF BlockstoreInit, Abs!AbsInit, absBackup
<1> QED BY <1>2, <1>3, <1>5 DEF StoreInv

\* Every step of the blockstore keeps the invariant and is a step of the abstract
\* store, or nothing to it.
LEMMA StepRefines ==
  ASSUME StoreInv, [BlockstoreNext]_bsVars
  PROVE  StoreInv' /\ (Abs!AbsNext \/ UNCHANGED Abs!absVars)
<1>1. CASE UNCHANGED bsVars
  <2>1. BlockstoreTypeOK' /\ MoveShape' /\ UNCHANGED <<storeVars, op, gc>>
    BY <1>1 DEF bsVars, StoreInv, BlockstoreTypeOK, MoveShape, Copying, storeVars
  <2> QED BY <2>1, MoveAside
<1>2. ASSUME NEW c \in Callers, LockDB(c) \/ UnlockDB(c) \/ Read(c) \/ PutDB(c) \/ PutNext(c) \/ Delete(c)
      PROVE  StoreInv' /\ (Abs!AbsNext \/ UNCHANGED Abs!absVars)
  BY <1>2, LockStep, UnlockStep, ReadStep, PutStep, PutNextStep, DeleteStep
<1>3. ASSUME MoveBegins \/ MoveOpens \/ MoveSetsNext \/ CopyStarts \/ CopyKeys \/ CopyEnds
             \/ MoveSwaps \/ MoveRenames \/ MoveSymlinks \/ MoveCleans \/ MoveDrops \/ MoveEnds
      PROVE  StoreInv' /\ (Abs!AbsNext \/ UNCHANGED Abs!absVars)
  BY <1>3, QuietSteps, BeginStep, CopySteps, SwitchStep, PathSteps, CleanStep
<1>4. ASSUME NEW c \in Callers, WriteFails(c)
      PROVE  StoreInv' /\ (Abs!AbsNext \/ UNCHANGED Abs!absVars)
  BY <1>4, FailStep
<1>5. ASSUME NEW c \in Callers, NEW kind \in Kinds, NEW ks \in SUBSET (Keys \cup InlineKeys), Call(c, kind, ks)
      PROVE  StoreInv' /\ (Abs!AbsNext \/ UNCHANGED Abs!absVars)
  BY <1>5, CallStep
<1>6. CASE AllKeysChan \/ AllKeysChanEnds \/ CollectGarbage \/ Close \/ CloseEnds \/ Restart
  BY <1>6, QuietSteps, RestartStep
<1> QED BY <1>1, <1>2, <1>3, <1>4, <1>5, <1>6 DEF BlockstoreNext, BlockstoreProgress

\* Every variable of the blockstore keeps its type: the database in use, the copy
\* and the replaced one are sets of keys.
THEOREM StoreTypeCorrect == BlockstoreSpec => []BlockstoreTypeOK
<1>1. StoreInv => BlockstoreTypeOK
  BY DEF StoreInv
<1>2. StoreInv /\ [BlockstoreNext]_bsVars => StoreInv'
  BY StepRefines
<1> QED BY InitStep, <1>1, <1>2, PTL DEF BlockstoreSpec

\* The badger blockstore implements the abstract store: every call takes effect
\* once, a full collection loses no write and changes nothing but what was
\* deleted or failed while it copied, and a crash finds what the path names.
THEOREM StoreRefines == BlockstoreSpec => ImplementsAbstractStore
<1>1. StoreInv /\ [BlockstoreNext]_bsVars => StoreInv'
  BY StepRefines
<1>2. StoreInv /\ [BlockstoreNext]_bsVars => [Abs!AbsNext]_Abs!absVars
  BY StepRefines
<1> QED BY InitStep, <1>1, <1>2, PTL DEF BlockstoreSpec, ImplementsAbstractStore

-----------------------------------------------------------------------------
(* The piece that is served.                                                 *)

\* Where a reader or a saver can point to; without storages it points nowhere.
Places == Stores \cup {CHOOSE st \in Stores : TRUE}
Reader == [pc : {"idle", "sized", "reading", "served", "failed"}, st : Places, len : Nat,
           pos : Nat, bad : BOOLEAN, part : BOOLEAN, short : BOOLEAN]

FilesShape == file \in [Stores -> Nat] /\ attached \subseteq Stores
ReadersShape == reader \in [Consumers -> Reader]

\* A wrong byte has a cause, and a reader at work knows whether what it opened
\* was still being copied.
Explained(r) ==
  /\ r.bad => r.part \/ r.short
  /\ r.pc \in {"sized", "reading"} /\ r.len < Payload => r.part

ServingInv == FilesShape /\ ReadersShape /\ \A c \in Consumers : Explained(reader[c])

\* A reader that has read nothing.
LEMMA FreshReader ==
  ASSUME NEW pc \in {"idle", "served", "failed"}
  PROVE  /\ NoReader \in Reader /\ Explained(NoReader) /\ NoReader.pc = "idle"
         /\ [NoReader EXCEPT !.pc = pc] \in Reader /\ Explained([NoReader EXCEPT !.pc = pc])
<1>1. NoReader \in Reader
  BY DEF NoReader, Reader, Places
<1>2. ~NoReader.bad /\ NoReader.pc = "idle"
  BY DEF NoReader
<1>. QED
  BY <1>1, <1>2 DEF Reader, Explained

\* A reader that has opened a file.
LEMMA OpenedReader ==
  ASSUME FilesShape, NEW st \in Stores, NEW pc \in {"sized", "reading"}, NEW r,
         r = [NoReader EXCEPT !.pc = pc, !.st = st, !.len = file[st], !.part = file[st] < Payload]
  PROVE  r \in Reader /\ Explained(r)
<1>1. file[st] \in Nat
  BY DEF FilesShape
<1>2. NoReader \in Reader /\ ~NoReader.bad
  BY FreshReader DEF NoReader
<1>3. PICK part : part = (file[st] < Payload)
  OBVIOUS
<1>4. r = [NoReader EXCEPT !.pc = pc, !.st = st, !.len = file[st], !.part = part]
  BY <1>3, Zenon
<1>5. part \in BOOLEAN
  BY <1>1, <1>3, PieceServingAssumption
<1>6. r \in Reader /\ r.bad = NoReader.bad /\ r.part = part /\ r.len = file[st]
  BY <1>1, <1>2, <1>4, <1>5 DEF Reader, Places
<1>. QED
  BY <1>2, <1>3, <1>6 DEF Explained

\* A step that gives one consumer a reader that is right.
LEMMA OneReader ==
  ASSUME ServingInv, FilesShape', NEW c \in Consumers, NEW r \in Reader, Explained(r),
         reader' = [reader EXCEPT ![c] = r]
  PROVE  ServingInv'
<1>1. ReadersShape'
  BY DEF ServingInv, ReadersShape
<1>2. \A d \in Consumers : reader'[d] = IF d = c THEN r ELSE reader[d]
  BY DEF ServingInv, ReadersShape
<1>. QED
  BY <1>1, <1>2 DEF ServingInv, Explained

\* A step that touches no reader.
LEMMA NoReaderMoves ==
  ASSUME ServingInv, FilesShape', reader' = reader
  PROVE  ServingInv'
BY DEF ServingInv, ReadersShape, Explained

\* What an inner read may return.
LEMMA InnerReadsType ==
  ASSUME NEW r \in Reader, NEW n \in Nat, NEW got \in InnerReads(r, n)
  PROVE  got \in Nat
<1>1. r.pos \in Nat /\ r.len \in Nat /\ Payload \in Nat
  BY PieceServingAssumption DEF Reader
<1>. QED
  BY <1>1 DEF InnerReads

\* The padding reader: a byte that it gets wrong comes from a file that was
\* being copied when it was opened, or from an inner read that came back short.
LEMMA AlignedExplained ==
  ASSUME NEW r \in Reader, Explained(r), r.pc = "reading", NEW n \in Nat, NEW got \in Nat
  PROVE  ReadAligned(r, n, got) \in Reader /\ Explained(ReadAligned(r, n, got))
<1>1. r.pos \in Nat /\ r.len \in Nat /\ Payload \in Nat /\ PieceLen \in Nat /\ Payload <= PieceLen
  BY PieceServingAssumption DEF Reader
<1>2. PICK end : end = MinOf(r.pos + n, PieceLen)
  OBVIOUS
<1>3. PICK bad : bad = (r.bad \/ r.pos + got < MinOf(end, Payload))
  OBVIOUS
<1>4. PICK short : short = (r.short \/ got < MinOf(n, r.len - r.pos))
  OBVIOUS
<1>5. PICK pc : pc = IF end = PieceLen THEN "served" ELSE "reading"
  OBVIOUS
<1>6. PICK q : q = ReadAligned(r, n, got)
  OBVIOUS
<1>7. q = [r EXCEPT !.pos = end, !.bad = bad, !.short = short, !.pc = pc]
  BY <1>2, <1>3, <1>4, <1>5, <1>6 DEF ReadAligned
<1>8. end \in Nat /\ bad \in BOOLEAN /\ short \in BOOLEAN /\ pc \in {"served", "reading"}
  BY <1>1, <1>2, <1>3, <1>4, <1>5 DEF MinOf, Reader
<1>9. /\ q \in Reader /\ q.bad = bad /\ q.short = short /\ q.part = r.part /\ q.len = r.len
  BY <1>7, <1>8 DEF Reader
<1>10. ASSUME r.pos + got < MinOf(end, Payload), ~(r.len < Payload) PROVE got < MinOf(n, r.len - r.pos)
  BY <1>1, <1>2, <1>10 DEF MinOf
<1>11. q.bad => q.part \/ q.short
  <2>1. CASE r.len < Payload
    BY <1>9, <2>1 DEF Explained
  <2>2. CASE ~(r.len < Payload)
    <3>1. bad => r.bad \/ short
      BY <1>3, <1>4, <1>10, <2>2
    <3>2. r.bad => r.part \/ r.short
      BY DEF Explained
    <3>. QED
      BY <1>4, <1>9, <3>1, <3>2
  <2>. QED
    BY <2>1, <2>2
<1>12. q.len < Payload => q.part
  BY <1>9 DEF Explained
<1>. QED
  BY <1>6, <1>9, <1>11, <1>12 DEF Explained

\* The stream: only what is past the end of the file is filled with zeros.
LEMMA StreamExplained ==
  ASSUME NEW r \in Reader, Explained(r), r.pc = "reading", NEW n \in Nat, NEW got \in Nat
  PROVE  ReadStream(r, n, got) \in Reader /\ Explained(ReadStream(r, n, got))
<1>1. r.pos \in Nat /\ r.len \in Nat /\ Payload \in Nat /\ PieceLen \in Nat
  BY PieceServingAssumption DEF Reader
<1>2. PICK end : end = IF r.pos < r.len THEN r.pos + got ELSE MinOf(r.pos + n, PieceLen)
  OBVIOUS
<1>3. PICK bad : bad = (r.bad \/ (r.pos >= r.len /\ r.pos < Payload))
  OBVIOUS
<1>4. PICK pc : pc = IF end = PieceLen THEN "served" ELSE "reading"
  OBVIOUS
<1>5. PICK q : q = ReadStream(r, n, got)
  OBVIOUS
<1>6. q = [r EXCEPT !.pos = end, !.bad = bad, !.pc = pc]
  BY <1>2, <1>3, <1>4, <1>5 DEF ReadStream
<1>7. end \in Nat /\ bad \in BOOLEAN /\ pc \in {"served", "reading"}
  BY <1>1, <1>2, <1>3, <1>4 DEF MinOf, Reader
<1>8. q \in Reader /\ q.bad = bad /\ q.short = r.short /\ q.part = r.part /\ q.len = r.len
  BY <1>6, <1>7 DEF Reader
<1>9. (r.pos >= r.len /\ r.pos < Payload) => r.len < Payload
  BY <1>1
<1>10. (q.bad => q.part \/ q.short) /\ (q.len < Payload => q.part)
  BY <1>3, <1>8, <1>9 DEF Explained
<1>. QED
  BY <1>5, <1>8, <1>10 DEF Explained

\* The saves: a file grows, and nobody reads in these steps.
LEMMA SaverServing ==
  ASSUME ServingInv, NEW s \in Savers,
         SaveBegins(s) \/ SaveTo(s) \/ MoveCopies(s) \/ HandoffRegisters(s)
  PROVE  ServingInv'
<1>1. reader' = reader
  BY DEF SaveBegins, SaveTo, MoveCopies, HandoffRegisters, SaveRest
<1>2. file \in [Stores -> Nat] /\ Payload \in Nat /\ attached \subseteq Stores
  BY PieceServingAssumption DEF ServingInv, FilesShape
<1>3. attached' = attached
  BY DEF SaveBegins, SaveTo, MoveCopies, HandoffRegisters, SaveRest
<1>4. \/ file' = file
      \/ \E n \in Nat : file' = [file EXCEPT ![saver[s].st] = n]
  <2>1. CASE SaveTo(s)
    BY <1>2, <2>1 DEF SaveTo
  <2>2. CASE MoveCopies(s)
    <3>1. PICK n \in file[saver[s].st] + 1 .. Payload : file' = [file EXCEPT ![saver[s].st] = n]
      BY <2>2 DEF MoveCopies
    <3>2. CASE saver[s].st \in Stores
      <4>1. n \in Nat
        BY <1>2, <3>1, <3>2
      <4>. QED
        BY <3>1, <4>1
    <3>3. CASE saver[s].st \notin Stores
      BY <1>2, <3>1, <3>3
    <3>. QED
      BY <3>2, <3>3
  <2>3. CASE SaveBegins(s) \/ HandoffRegisters(s)
    BY <2>3 DEF SaveBegins, HandoffRegisters
  <2>. QED
    BY <2>1, <2>2, <2>3
<1>5. FilesShape'
  BY <1>3, <1>2, <1>4 DEF FilesShape
<1>. QED
  BY <1>1, <1>5, NoReaderMoves

\* The DAG store opens, reads and closes the piece.
LEMMA DagServing ==
  ASSUME ServingInv, FetchUnsealedPiece \/ DagReads \/ ShardInitialized
  PROVE  ServingInv'
<1>1. FilesShape'
  BY DEF FetchUnsealedPiece, DagReads, ShardInitialized, ReaderRest, ServingInv, FilesShape
<1>2. /\ reader["dag"] \in Reader /\ Explained(reader["dag"]) /\ "dag" \in Consumers
      /\ reader \in [Consumers -> Reader]
  BY DEF ServingInv, ReadersShape, Consumers
<1>3. CASE FetchUnsealedPiece
  <2>1. CASE \E st \in FindStorageForRead : reader' = [reader EXCEPT !["dag"] =
               [NoReader EXCEPT !.pc = "reading", !.st = st, !.len = file[st], !.part = file[st] < Payload]]
    <3>1. PICK st \in FindStorageForRead : reader' = [reader EXCEPT !["dag"] =
               [NoReader EXCEPT !.pc = "reading", !.st = st, !.len = file[st], !.part = file[st] < Payload]]
      BY <2>1
    <3>2. st \in Stores
      BY <3>1 DEF FindStorageForRead, ServingInv, FilesShape
    <3>. QED
      BY <1>1, <1>2, <3>1, <3>2, OpenedReader, OneReader DEF ServingInv
  <2>2. CASE reader' = [reader EXCEPT !["dag"].pc = "failed"]
    <3>1. PICK r : r = [reader["dag"] EXCEPT !.pc = "failed"]
      OBVIOUS
    <3>2. r \in Reader /\ Explained(r)
      BY <1>2, <3>1 DEF Reader, Explained
    <3>3. reader' = [reader EXCEPT !["dag"] = r]
      BY <2>2, <3>1
    <3>. QED
      BY <1>1, <1>2, <3>2, <3>3, OneReader
  <2>. QED
    BY <1>3, <2>1, <2>2 DEF FetchUnsealedPiece
<1>4. CASE DagReads
  <2>1. PICK n \in Buffers : \E got \in InnerReads(reader["dag"], n) :
          reader' = [reader EXCEPT !["dag"] = ReadPiece(reader["dag"], n, got)]
    BY <1>4 DEF DagReads
  <2>0. PICK got \in InnerReads(reader["dag"], n) :
          reader' = [reader EXCEPT !["dag"] = ReadPiece(reader["dag"], n, got)]
    BY <2>1
  <2>2. n \in Nat /\ reader["dag"].pc = "reading"
    BY <1>4, PieceServingAssumption DEF DagReads
  <2>3. got \in Nat
    BY <1>2, <2>0, <2>2, InnerReadsType
  <2>4. PICK r : r = ReadPiece(reader["dag"], n, got)
    OBVIOUS
  <2>5. r \in Reader /\ Explained(r)
    BY <1>2, <2>2, <2>3, <2>4, AlignedExplained, StreamExplained DEF ReadPiece
  <2>. QED
    BY <1>1, <1>2, <2>0, <2>4, <2>5, OneReader
<1>5. CASE ShardInitialized
  <2>1. reader' = [reader EXCEPT !["dag"] = NoReader]
    BY <1>5 DEF ShardInitialized
  <2>. QED
    BY <1>1, <1>2, <2>1, FreshReader, OneReader
<1>. QED
  BY <1>3, <1>4, <1>5

\* The piece server announces a file and copies it, or answers at once.
LEMMA HTTPServing ==
  ASSUME ServingInv, ServeHTTP \/ HTTPCopies
  PROVE  ServingInv'
<1>1. FilesShape'
  BY DEF ServeHTTP, HTTPCopies, ReaderRest, ServingInv, FilesShape
<1>2. reader["http"] \in Reader /\ Explained(reader["http"]) /\ "http" \in Consumers
  BY DEF ServingInv, ReadersShape, Consumers
<1>3. CASE ServeHTTP
  <2>1. CASE \E pc \in {"failed", "served"} : reader' = [reader EXCEPT !["http"] = [NoReader EXCEPT !.pc = pc]]
    BY <1>1, <1>2, <2>1, FreshReader, OneReader
  <2>2. CASE \E st \in FindStorageForRead : reader' = [reader EXCEPT !["http"] =
               [NoReader EXCEPT !.pc = "sized", !.st = st, !.len = file[st], !.part = file[st] < Payload]]
    <3>1. PICK st \in FindStorageForRead : reader' = [reader EXCEPT !["http"] =
               [NoReader EXCEPT !.pc = "sized", !.st = st, !.len = file[st], !.part = file[st] < Payload]]
      BY <2>2
    <3>2. st \in Stores
      BY <3>1 DEF FindStorageForRead, ServingInv, FilesShape
    <3>. QED
      BY <1>1, <1>2, <3>1, <3>2, OpenedReader, OneReader DEF ServingInv
  <2>. QED
    BY <1>3, <2>1, <2>2 DEF ServeHTTP
<1>4. CASE HTTPCopies
  <2>1. PICK r : r = reader["http"]
    OBVIOUS
  <2>2. r.pc = "sized" /\ r \in Reader /\ Explained(r)
    BY <1>2, <1>4, <2>1 DEF HTTPCopies
  <2>3. CASE reader' = [reader EXCEPT !["http"] = [NoReader EXCEPT !.pc = "failed"]]
    BY <1>1, <1>2, <2>3, FreshReader, OneReader
  <2>4. PICK bad : bad = (MinOf(r.len, file[r.st]) < Payload)
    OBVIOUS
  <2>5. PICK part : part = (r.part \/ file[r.st] < Payload)
    OBVIOUS
  <2>6. CASE /\ file[r.st] # 0
             /\ reader' = [reader EXCEPT !["http"] = [NoReader EXCEPT !.pc = "served", !.bad = bad, !.part = part]]
    <3>1. PICK q : q = [NoReader EXCEPT !.pc = "served", !.bad = bad, !.part = part]
      OBVIOUS
    <3>2. bad \in BOOLEAN /\ part \in BOOLEAN
      BY <2>2, <2>4, <2>5 DEF Reader
    <3>3. q \in Reader /\ q.bad = bad /\ q.part = part /\ q.pc = "served"
      BY <3>1, <3>2, FreshReader DEF Reader
    <3>4. bad => part
      <4>1. r.len < Payload => r.part
        BY <2>2 DEF Explained
      <4>. QED
        BY <2>4, <2>5, <4>1 DEF MinOf
    <3>5. Explained(q)
      BY <3>3, <3>4 DEF Explained
    <3>. QED
      BY <1>1, <1>2, <2>6, <3>1, <3>3, <3>5, OneReader
  <2>. QED
    BY <1>4, <2>1, <2>3, <2>4, <2>5, <2>6 DEF HTTPCopies
<1>. QED
  BY <1>3, <1>4

\* Every step explains what is served wrong.
LEMMA ServingStep == ServingInv /\ [PieceNext]_pieceVars => ServingInv'
<1>. SUFFICES ASSUME ServingInv, [PieceNext]_pieceVars PROVE ServingInv'
  OBVIOUS
<1>1. ASSUME NEW s \in Savers, SaveBegins(s) \/ SaveTo(s) \/ MoveCopies(s) \/ HandoffRegisters(s)
      PROVE  ServingInv'
  BY <1>1, SaverServing
<1>2. CASE FetchUnsealedPiece \/ DagReads \/ ShardInitialized
  BY <1>2, DagServing
<1>3. CASE ServeHTTP \/ HTTPCopies
  BY <1>3, HTTPServing
<1>4. CASE PieceCrash
  <2>1. file' = file /\ attached' = attached /\ reader' = [r \in Consumers |-> NoReader]
    BY <1>4 DEF PieceCrash
  <2>. QED
    BY <2>1, FreshReader DEF ServingInv, FilesShape, ReadersShape
<1>5. CASE \/ RecoverImmediately \/ MigrateBegins \/ MigrateRegisters \/ MigrateEnds \/ UNCHANGED pieceVars
           \/ \E l \in Loaders : LoadReRegisters(l) \/ LoadShard(l) \/ LoadCancelled(l)
           \/ \E st \in Stores : RemovePieceStorage(st) \/ AddPieceStorage(st)
  <2>1. file' = file /\ reader' = reader /\ attached' \subseteq attached \cup Stores
    BY <1>5 DEF RecoverImmediately, MigrateBegins, MigrateRegisters, MigrateEnds, pieceVars, LoadReRegisters,
                LoadShard, LoadCancelled, RemovePieceStorage, AddPieceStorage, ReaderRest, MigrateRest
  <2>2. FilesShape'
    BY <2>1 DEF ServingInv, FilesShape
  <2>. QED
    BY <2>1, <2>2, NoReaderMoves
<1>. QED
  BY <1>1, <1>2, <1>3, <1>4, <1>5 DEF PieceNext, PieceProgress

\* Whoever reads a piece to its end gets the payload and then zeros, for any
\* sizes, buffers, storages and interleaving of saves with reads; only a file
\* that mv was still copying when it was opened, or a short read, breaks it.
THEOREM PieceIsServed == PieceSpec => []PieceServed
<1>1. PieceInit => ServingInv
  BY FreshReader DEF PieceInit, ServingInv, FilesShape, ReadersShape
<1>2. ServingInv => PieceServed
  BY DEF ServingInv, Explained, PieceServed
<1>. QED
  BY <1>1, <1>2, ServingStep, PTL DEF PieceSpec

-----------------------------------------------------------------------------
(* Powers of two.                                                            *)

\* Division with remainder.
LEMMA DivMod ==
  ASSUME NEW n \in Int, NEW p \in Nat \ {0}
  PROVE  n % p = n - p * (n \div p) /\ n % p \in 0..p - 1 /\ n \div p \in Int
<1>1. n % p = n - p * (n \div p)
  OBVIOUS
<1>2. n % p \in 0..p - 1
  OBVIOUS
<1>3. n \div p \in Int
  OBVIOUS
<1>. QED
  BY <1>1, <1>2, <1>3

\* A multiple that is smaller than what it is a multiple of is zero.
LEMMA SmallMultiple ==
  ASSUME NEW a \in Int, NEW p \in Nat \ {0}, -p < a * p, a * p < p
  PROVE  a = 0
<1>1. a >= 1 => a * p >= p
  OBVIOUS
<1>2. a <= -1 => a * p <= -p
  OBVIOUS
<1>. QED
  BY <1>1, <1>2

\* Quotient and remainder are unique.
LEMMA DivModIs ==
  ASSUME NEW n \in Int, NEW p \in Nat \ {0}, NEW q \in Int, NEW r \in 0..p - 1, n = q * p + r
  PROVE  n \div p = q /\ n % p = r
<1>1. PICK s \in Int : s = n \div p
  BY DivMod
<1>2. PICK t \in 0..p - 1 : t = n % p
  BY DivMod
<1>3. t = n - p * s
  BY <1>1, <1>2, DivMod
<1>4. PICK a \in Int : a = q - s
  BY <1>1
<1>5. a * p = t - r
  BY <1>3, <1>4
<1>6. -p < a * p /\ a * p < p
  BY <1>5
<1>7. a = 0
  BY <1>6, SmallMultiple
<1>. QED
  BY <1>1, <1>2, <1>4, <1>5, <1>7

\* A multiple leaves no remainder.
LEMMA MultipleMod ==
  ASSUME NEW p \in Nat \ {0}, NEW k \in Int, NEW n, n = k * p
  PROVE  n % p = 0
<1>1. n \in Int /\ 0 \in 0..p - 1 /\ n = k * p + 0
  OBVIOUS
<1>. QED
  BY <1>1, DivModIs

\* The remainder by 2p: that by p, and the bit p of n.
LEMMA NextBit ==
  ASSUME NEW n \in Nat, NEW p \in Nat \ {0}
  PROVE  n % (2 * p) = (n % p) + (IF (n \div p) % 2 = 1 THEN p ELSE 0)
<1>1. PICK q \in Int : q = n \div p
  BY DivMod
<1>2. PICK r \in 0..p - 1 : r = n % p
  BY DivMod
<1>3. n = q * p + r
  BY <1>1, <1>2, DivMod
<1>4. PICK h \in Int : h = q \div 2
  BY DivMod
<1>5. PICK b \in {0, 1} : b = q % 2
  <2>1. q % 2 \in 0..2 - 1
    BY DivMod
  <2>. QED
    BY <2>1
<1>6. q = 2 * h + b
  BY <1>4, <1>5, DivMod
<1>7. PICK P \in Nat \ {0} : P = 2 * p
  OBVIOUS
<1>8. n = h * P + (b * p + r)
  BY <1>3, <1>6, <1>7
<1>9. PICK c \in 0..P - 1 : c = b * p + r
  <2>1. CASE b = 0
    BY <1>7, <2>1
  <2>2. CASE b = 1
    BY <1>7, <2>2
  <2>. QED
    BY <2>1, <2>2
<1>10. n % P = c
  BY <1>8, <1>9, DivModIs
<1>11. c = r + (IF b = 1 THEN p ELSE 0)
  <2>1. CASE b = 0
    BY <1>9, <2>1
  <2>2. CASE b = 1
    BY <1>9, <2>2
  <2>. QED
    BY <2>1, <2>2
<1>. QED
  BY <1>1, <1>2, <1>5, <1>7, <1>10, <1>11

\* A number whose bit p is set is p or more.
LEMMA BitFits ==
  ASSUME NEW n \in Nat, NEW p \in Nat \ {0}, (n \div p) % 2 = 1
  PROVE  p <= n
<1>1. PICK q \in Int : q = n \div p
  BY DivMod
<1>2. PICK r \in 0..p - 1 : r = n % p
  BY DivMod
<1>3. n = q * p + r
  BY <1>2, <1>1, DivMod
<1>4. q # 0
  <2>. SUFFICES ASSUME q = 0 PROVE FALSE
    OBVIOUS
  <2>1. 0 % 2 = 0
    OBVIOUS
  <2>. QED
    BY <1>1, <2>1
<1>5. q >= 1
  <2>. SUFFICES ASSUME q <= -1 PROVE FALSE
    BY <1>4
  <2>1. q * p <= -p
    OBVIOUS
  <2>. QED
    BY <1>3, <2>1
<1>6. q * p >= p
  BY <1>5
<1>. QED
  BY <1>3, <1>6

\* The equation of Pow2 up to n.
PowTo(g, n) == g = [j \in 0..n |-> IF j = 0 THEN 1 ELSE 2 * g[j - 1]]

\* One more power.
LEMMA PowExtends ==
  ASSUME NEW n \in Nat, NEW g, PowTo(g, n)
  PROVE  \E h : PowTo(h, n + 1)
<1>1. PICK h : h = [j \in 0..n + 1 |-> IF j = n + 1 THEN 2 * g[n] ELSE g[j]]
  OBVIOUS
<1>2. \A j \in 0..n : g[j] = IF j = 0 THEN 1 ELSE 2 * g[j - 1]
  BY DEF PowTo
<1>3. \A j \in 0..n : h[j] = g[j]
  BY <1>1
<1>4. ASSUME NEW j \in 0..n + 1 PROVE h[j] = IF j = 0 THEN 1 ELSE 2 * h[j - 1]
  <2>1. CASE j = n + 1
    <3>1. j # 0 /\ j - 1 = n /\ n \in 0..n
      BY <2>1
    <3>2. h[j - 1] = g[n] /\ h[j] = 2 * g[n]
      BY <1>1, <1>3, <2>1, <3>1
    <3>. QED
      BY <3>1, <3>2
  <2>2. CASE j \in 0..n /\ j # 0
    <3>1. j - 1 \in 0..n
      BY <2>2
    <3>. QED
      BY <1>2, <1>3, <2>2, <3>1
  <2>3. CASE j = 0
    <3>1. 0 \in 0..n
      OBVIOUS
    <3>. QED
      BY <1>2, <1>3, <2>3, <3>1
  <2>. QED
    BY <2>1, <2>2, <2>3
<1>5. h = [j \in 0..n + 1 |-> h[j]]
  BY <1>1
<1>6. PowTo(h, n + 1)
  BY <1>4, <1>5 DEF PowTo
<1>. QED
  BY <1>6

\* There are as many as one wants.
LEMMA PowExists ==
  ASSUME NEW n \in Nat
  PROVE  \E g : PowTo(g, n)
<1>. DEFINE Missing == {k \in Nat : ~\E g : PowTo(g, k)}
<1>1. 0 \notin Missing
  <2>1. PICK z : z = [i \in 0..0 |-> 1]
    OBVIOUS
  <2>2. PowTo(z, 0)
    BY <2>1 DEF PowTo
  <2>. QED
    BY <2>2
<1>2. Missing = {}
  <2>. SUFFICES ASSUME Missing # {} PROVE FALSE
    OBVIOUS
  <2>1. Missing \subseteq Nat
    OBVIOUS
  <2>2. PICK k \in Missing : \A m \in Missing : ~(m < k)
    <3>. HIDE DEF Missing
    <3>. QED
      BY <2>1, LeastNatural
  <2>3. k - 1 \in Nat /\ k - 1 \notin Missing
    <3>. HIDE DEF Missing
    <3>. QED
      BY <1>1, <2>1, <2>2
  <2>4. PICK g : PowTo(g, k - 1)
    BY <2>3
  <2>5. \E h : PowTo(h, (k - 1) + 1)
    BY <2>3, <2>4, PowExtends
  <2>6. (k - 1) + 1 = k
    BY <2>1
  <2>. QED
    BY <2>5, <2>6
<1>. QED
  BY <1>2

\* Powers of two are positive, and each is twice the one before.
LEMMA Powers ==
  /\ \A j \in 0..MaxBit + 1 : Pow2[j] \in Nat \ {0}
  /\ Pow2[0] = 1
  /\ \A j \in 0..MaxBit : Pow2[j + 1] = 2 * Pow2[j]
<1>0. PICK n \in Nat : n = MaxBit + 1
  BY DealAssignAssumption
<1>1. Pow2 = CHOOSE g : PowTo(g, n)
  BY <1>0 DEF Pow2, PowTo
<1>2. PowTo(Pow2, n)
  BY <1>1, PowExists
<1>3. PICK g : g = Pow2
  OBVIOUS
<1>4. \A j \in 0..n : g[j] = IF j = 0 THEN 1 ELSE 2 * g[j - 1]
  BY <1>2, <1>3 DEF PowTo
<1>5. g[0] = 1
  <2>1. 0 \in 0..n
    OBVIOUS
  <2>. QED
    BY <1>4, <2>1
<1>6. ASSUME NEW j \in 0..MaxBit PROVE g[j + 1] = 2 * g[j]
  <2>1. j + 1 \in 0..n /\ j + 1 # 0 /\ (j + 1) - 1 = j
    BY <1>0, DealAssignAssumption
  <2>. QED
    BY <1>4, <2>1
<1>. DEFINE Wrong == {j \in 0..n : g[j] \notin Nat \ {0}}
<1>7. Wrong = {}
  <2>. SUFFICES ASSUME Wrong # {} PROVE FALSE
    OBVIOUS
  <2>1. Wrong \subseteq Nat /\ Wrong \subseteq 0..n /\ 0 \notin Wrong
    BY <1>5
  <2>2. PICK i \in Wrong : \A j \in Wrong : ~(j < i)
    <3>. HIDE DEF Wrong
    <3>. QED
      BY <2>1, LeastNatural
  <2>3. i \in 1..n /\ i - 1 \in 0..n /\ i - 1 \notin Wrong
    <3>. HIDE DEF Wrong
    <3>. QED
      BY <2>1, <2>2
  <2>4. g[i - 1] \in Nat \ {0}
    BY <2>3
  <2>5. g[i] = 2 * g[i - 1]
    <3>1. i \in 0..n /\ i # 0
      BY <2>3
    <3>. QED
      BY <1>4, <3>1
  <2>6. g[i] \in Nat \ {0}
    BY <2>4, <2>5
  <2>. QED
    BY <2>6
<1>8. \A j \in 0..MaxBit + 1 : g[j] \in Nat \ {0}
  BY <1>0, <1>7
<1>. QED
  BY <1>3, <1>5, <1>6, <1>8

\* A power divides the ones after it.
LEMMA PowDivides ==
  ASSUME NEW i \in 0..MaxBit + 1, NEW j \in 0..MaxBit + 1, i <= j
  PROVE  \E k \in Nat \ {0} : Pow2[j] = k * Pow2[i]
<1>0. MaxBit \in Nat /\ i \in Nat
  BY DealAssignAssumption
<1>. DEFINE Wrong == {x \in Nat : i <= x /\ x <= MaxBit + 1 /\ ~\E k \in Nat \ {0} : Pow2[x] = k * Pow2[i]}
<1>1. i \notin Wrong
  <2>1. Pow2[i] = 1 * Pow2[i] /\ 1 \in Nat \ {0}
    BY Powers
  <2>. QED
    BY <2>1
<1>2. Wrong = {}
  <2>. SUFFICES ASSUME Wrong # {} PROVE FALSE
    OBVIOUS
  <2>1. Wrong \subseteq Nat /\ \A x \in Wrong : i <= x /\ x <= MaxBit + 1
    OBVIOUS
  <2>2. PICK x \in Wrong : \A y \in Wrong : ~(y < x)
    <3>. HIDE DEF Wrong
    <3>. QED
      BY <2>1, LeastNatural
  <2>3. x - 1 \in Nat /\ i <= x - 1 /\ x - 1 \in 0..MaxBit /\ x - 1 <= MaxBit + 1 /\ x - 1 \notin Wrong
    <3>. HIDE DEF Wrong
    <3>. QED
      BY <1>0, <1>1, <2>1, <2>2
  <2>4. PICK k \in Nat \ {0} : Pow2[x - 1] = k * Pow2[i]
    BY <2>3
  <2>5. Pow2[x] = 2 * Pow2[x - 1]
    <3>1. (x - 1) + 1 = x
      BY <2>1
    <3>. QED
      BY <2>3, <3>1, Powers
  <2>6. PICK p \in Nat \ {0} : p = Pow2[i]
    BY Powers
  <2>7. PICK m \in Nat \ {0} : m = 2 * k
    OBVIOUS
  <2>8. Pow2[x] = m * p
    BY <2>4, <2>5, <2>6, <2>7
  <2>. QED
    BY <2>6, <2>8
<1>3. j \in Nat /\ j <= MaxBit + 1 /\ j \notin Wrong
  BY <1>0, <1>2
<1>. QED
  BY <1>3

\* Powers grow.
LEMMA PowOrder ==
  ASSUME NEW i \in 0..MaxBit + 1, NEW j \in 0..MaxBit + 1
  PROVE  Pow2[i] < Pow2[j] <=> i < j
<1>0. MaxBit \in Nat
  BY DealAssignAssumption
<1>1. ASSUME NEW a \in 0..MaxBit + 1, NEW b \in 0..MaxBit + 1, a <= b PROVE Pow2[a] <= Pow2[b]
  <2>1. PICK k \in Nat \ {0} : Pow2[b] = k * Pow2[a]
    BY <1>1, PowDivides
  <2>2. PICK p \in Nat \ {0} : p = Pow2[a]
    BY Powers
  <2>3. k * p >= p
    OBVIOUS
  <2>. QED
    BY <2>1, <2>2, <2>3
<1>2. ASSUME i < j PROVE Pow2[i] < Pow2[j]
  <2>1. i + 1 \in 0..MaxBit + 1 /\ i + 1 <= j /\ i \in 0..MaxBit
    BY <1>0, <1>2
  <2>2. Pow2[i + 1] <= Pow2[j] /\ Pow2[i + 1] = 2 * Pow2[i] /\ Pow2[i] \in Nat \ {0} /\ Pow2[j] \in Nat
    BY <1>1, <2>1, Powers
  <2>. QED
    BY <2>2
<1>3. ASSUME ~(i < j) PROVE ~(Pow2[i] < Pow2[j])
  <2>1. Pow2[j] <= Pow2[i] /\ Pow2[i] \in Nat /\ Pow2[j] \in Nat
    BY <1>1, <1>3, Powers
  <2>. QED
    BY <2>1
<1>. QED
  BY <1>2, <1>3

-----------------------------------------------------------------------------
(* Zero pieces: the bits of a number below a limit.                          *)

\* The bit j of n, below limit, as a sequence of at most one size.
BitAt(j, n, limit) == IF (n \div Pow2[j]) % 2 = 1 /\ Pow2[j] < limit THEN <<Pow2[j]>> ELSE <<>>

\* The equation of the loop of Fillers over the first m bits.
BitsTo(g, m, n, limit) ==
  g = [j \in 0..m |-> IF j = 0 THEN <<>> ELSE g[j - 1] \o BitAt(j - 1, n, limit)]

\* The result of the loop.
LEMMA BitsResult ==
  ASSUME NEW n, NEW limit
  PROVE  Fillers(n, limit) = (CHOOSE g : BitsTo(g, MaxBit + 1, n, limit))[MaxBit + 1]
BY DEF Fillers, BitsTo, BitAt

\* One more bit.
LEMMA BitsExtend ==
  ASSUME NEW n, NEW limit, NEW m \in Nat, NEW g, BitsTo(g, m, n, limit)
  PROVE  \E h : BitsTo(h, m + 1, n, limit)
<1>1. PICK h : h = [j \in 0..m + 1 |-> IF j = m + 1 THEN g[m] \o BitAt(m, n, limit) ELSE g[j]]
  OBVIOUS
<1>2. \A j \in 0..m : g[j] = IF j = 0 THEN <<>> ELSE g[j - 1] \o BitAt(j - 1, n, limit)
  BY DEF BitsTo
<1>3. \A j \in 0..m : h[j] = g[j]
  BY <1>1
<1>4. ASSUME NEW j \in 0..m + 1 PROVE h[j] = IF j = 0 THEN <<>> ELSE h[j - 1] \o BitAt(j - 1, n, limit)
  <2>1. CASE j = m + 1
    <3>1. j # 0 /\ j - 1 = m /\ m \in 0..m
      BY <2>1
    <3>2. h[j - 1] = g[m] /\ h[j] = g[m] \o BitAt(m, n, limit)
      BY <1>1, <1>3, <2>1, <3>1
    <3>. QED
      BY <3>1, <3>2
  <2>2. CASE j \in 0..m /\ j # 0
    <3>1. j - 1 \in 0..m
      BY <2>2
    <3>2. h[j] = g[j - 1] \o BitAt(j - 1, n, limit) /\ h[j - 1] = g[j - 1]
      BY <1>2, <1>3, <2>2, <3>1
    <3>. QED
      BY <2>2, <3>2
  <2>3. CASE j = 0
    <3>1. 0 \in 0..m
      OBVIOUS
    <3>. QED
      BY <1>2, <1>3, <2>3, <3>1
  <2>. QED
    BY <2>1, <2>2, <2>3
<1>5. h = [j \in 0..m + 1 |-> h[j]]
  BY <1>1
<1>6. BitsTo(h, m + 1, n, limit)
  BY <1>4, <1>5 DEF BitsTo
<1>. QED
  BY <1>6

\* The loop over any number of bits has a result.
LEMMA BitsExist ==
  ASSUME NEW n, NEW limit, NEW m \in Nat
  PROVE  \E g : BitsTo(g, m, n, limit)
<1>. DEFINE Missing == {k \in Nat : ~\E g : BitsTo(g, k, n, limit)}
<1>1. 0 \notin Missing
  <2>1. PICK z : z = [i \in 0..0 |-> <<>>]
    OBVIOUS
  <2>2. BitsTo(z, 0, n, limit)
    BY <2>1 DEF BitsTo
  <2>. QED
    BY <2>2
<1>2. Missing = {}
  <2>. SUFFICES ASSUME Missing # {} PROVE FALSE
    OBVIOUS
  <2>1. Missing \subseteq Nat
    OBVIOUS
  <2>2. PICK k \in Missing : \A j \in Missing : ~(j < k)
    <3>. HIDE DEF Missing
    <3>. QED
      BY <2>1, LeastNatural
  <2>3. k - 1 \in Nat /\ k - 1 \notin Missing
    <3>. HIDE DEF Missing
    <3>. QED
      BY <1>1, <2>1, <2>2
  <2>4. PICK g : BitsTo(g, k - 1, n, limit)
    BY <2>3
  <2>5. \E h : BitsTo(h, (k - 1) + 1, n, limit)
    BY <2>3, <2>4, BitsExtend
  <2>6. (k - 1) + 1 = k
    BY <2>1
  <2>. QED
    BY <2>5, <2>6
<1>. QED
  BY <1>2

\* The sum of the first i of a sequence of numbers.
FirstSum(z, i) == SumFunctionOnSet(z, 1..i)

\* It grows by one number at a time.
LEMMA FirstSums ==
  ASSUME NEW z \in Seq(Nat)
  PROVE  /\ FirstSum(z, 0) = 0
         /\ \A i \in 0..Len(z) : FirstSum(z, i) \in Nat
         /\ \A i \in 1..Len(z) : FirstSum(z, i) = FirstSum(z, i - 1) + z[i]
<1>1. Len(z) \in Nat /\ \A i \in 1..Len(z) : z[i] \in Nat
  OBVIOUS
<1>2. FirstSum(z, 0) = 0
  <2>1. 1..0 = {}
    OBVIOUS
  <2>. QED
    BY <2>1, SumEmpty DEF FirstSum
<1>3. ASSUME NEW i \in 0..Len(z) PROVE NatOn(z, 1..i) /\ IntOn(z, 1..i)
  <2>1. i \in Nat /\ 1..i \subseteq 1..Len(z)
    BY <1>1
  <2>2. IsFiniteSet(1..i)
    BY <2>1, FS_Interval
  <2>. QED
    BY <1>1, <2>1, <2>2 DEF NatOn, IntOn
<1>4. \A i \in 0..Len(z) : FirstSum(z, i) \in Nat
  BY <1>3, SumNat DEF FirstSum
<1>5. ASSUME NEW i \in 1..Len(z) PROVE FirstSum(z, i) = FirstSum(z, i - 1) + z[i]
  <2>1. i - 1 \in 0..Len(z) /\ i \notin 1..i - 1 /\ z[i] \in Int /\ 1..i = (1..i - 1) \cup {i}
    BY <1>1
  <2>2. IntOn(z, 1..i - 1)
    BY <1>3, <2>1
  <2>. QED
    BY <2>1, <2>2, SumAddOne DEF FirstSum
<1>. QED
  BY <1>2, <1>4, <1>5

\* Sequences that agree have the same sums.
LEMMA SameSums ==
  ASSUME NEW z, NEW y, NEW i \in Nat, \A j \in 1..i : z[j] = y[j]
  PROVE  FirstSum(z, i) = FirstSum(y, i)
<1>1. IsFiniteSet(1..i)
  BY FS_Interval
<1>. QED
  BY <1>1, SumSame DEF FirstSum

\* The bits of n: they are sizes that fit, and those before one make up the
\* remainder by it.
Filling(z, n) ==
  /\ z \in Seq(Sizes)
  /\ \A i \in 1..Len(z) : z[i] <= n /\ FirstSum(z, i - 1) = n % z[i]

\* Sizes are positive.
LEMMA SizesAre == Sizes \subseteq Nat \ {0} /\ \A j \in 0..MaxBit : Pow2[j] \in Sizes
BY Powers, DealAssignAssumption DEF Sizes

\* A larger set of elements.
LEMMA WiderSeq ==
  ASSUME NEW S, NEW T, S \subseteq T, NEW z \in Seq(S)
  PROVE  z \in Seq(T)
OBVIOUS

\* One more element at the end.
LEMMA AppendOne ==
  ASSUME NEW S, NEW z \in Seq(S), NEW p \in S, NEW y, y = z \o <<p>>
  PROVE  /\ y \in Seq(S) /\ Len(y) = Len(z) + 1 /\ y[Len(z) + 1] = p
         /\ \A i \in 1..Len(z) : y[i] = z[i]
<1>1. PICK e : e = <<p>>
  OBVIOUS
<1>2. e \in Seq(S) /\ Len(e) = 1 /\ e[1] = p
  BY <1>1
<1>3. /\ y \in Seq(S) /\ Len(y) = Len(z) + 1
      /\ \A i \in 1..Len(z) + 1 : y[i] = IF i <= Len(z) THEN z[i] ELSE e[i - Len(z)]
  BY <1>1, <1>2, ConcatProperties
<1>4. Len(z) \in Nat
  OBVIOUS
<1>5. y[Len(z) + 1] = p /\ \A i \in 1..Len(z) : y[i] = z[i]
  BY <1>2, <1>3, <1>4
<1>. QED
  BY <1>3, <1>5

\* The sums of a sequence with one more number.
LEMMA AppendSums ==
  ASSUME NEW z \in Seq(Nat), NEW y \in Seq(Nat), Len(y) = Len(z) + 1, \A i \in 1..Len(z) : y[i] = z[i]
  PROVE  /\ \A i \in 0..Len(z) : FirstSum(y, i) = FirstSum(z, i)
         /\ FirstSum(y, Len(y)) = FirstSum(z, Len(z)) + y[Len(y)]
<1>1. Len(z) \in Nat
  OBVIOUS
<1>2. ASSUME NEW i \in 0..Len(z) PROVE FirstSum(y, i) = FirstSum(z, i)
  <2>1. i \in Nat /\ \A j \in 1..i : j \in 1..Len(z)
    BY <1>1
  <2>2. \A j \in 1..i : y[j] = z[j]
    BY <2>1, Zenon
  <2>. QED
    BY <2>1, <2>2, SameSums, Zenon
<1>3. FirstSum(y, Len(y)) = FirstSum(z, Len(z)) + y[Len(y)]
  <2>1. Len(y) \in 1..Len(y) /\ Len(y) - 1 = Len(z) /\ Len(z) \in 0..Len(z)
    BY <1>1
  <2>2. FirstSum(y, Len(y)) = FirstSum(y, Len(y) - 1) + y[Len(y)]
    BY <2>1, FirstSums
  <2>. QED
    <3>1. FirstSum(y, Len(y) - 1) = FirstSum(z, Len(z))
      BY <1>2, <2>1
    <3>. QED
      BY <2>2, <3>1
<1>. QED
  BY <1>2, <1>3

\* After j bits the sum is the remainder by the power of j, or by the limit.
AfterBits(z, j, n, k) ==
  Filling(z, n) /\ FirstSum(z, Len(z)) = n % Pow2[IF j < k THEN j ELSE k]

\* One more bit.
LEMMA BitStep ==
  ASSUME NEW n \in Nat, NEW k \in 0..MaxBit + 1, NEW j \in 0..MaxBit, NEW z, AfterBits(z, j, n, k)
  PROVE  AfterBits(z \o BitAt(j, n, Pow2[k]), j + 1, n, k)
<1>0. MaxBit \in Nat /\ z \in Seq(Sizes) /\ z \in Seq(Nat) /\ Len(z) \in Nat
  <2>1. z \in Seq(Sizes)
    BY DEF AfterBits, Filling
  <2>2. Sizes \subseteq Nat
    BY SizesAre
  <2>3. z \in Seq(Nat)
    BY <2>1, <2>2, WiderSeq
  <2>. QED
    BY <2>1, <2>3, DealAssignAssumption
<1>1. PICK p \in Nat \ {0} : p = Pow2[j]
  BY <1>0, Powers
<1>2. p \in Sizes /\ Pow2[j + 1] = 2 * p
  BY <1>1, SizesAre, Powers
<1>3. p < Pow2[k] <=> j < k
  BY <1>0, <1>1, PowOrder
<1>4. (n % (2 * p)) = (n % p) + (IF (n \div p) % 2 = 1 THEN p ELSE 0)
  BY NextBit
<1>5. CASE ~(j < k)
  <2>1. BitAt(j, n, Pow2[k]) = <<>>
    BY <1>1, <1>3, <1>5 DEF BitAt
  <2>2. z \o <<>> = z
    BY <1>0
  <2>3. ~(j + 1 < k)
    BY <1>0, <1>5
  <2>. QED
    BY <1>5, <2>1, <2>2, <2>3 DEF AfterBits
<1>6. CASE j < k /\ (n \div p) % 2 # 1
  <2>1. BitAt(j, n, Pow2[k]) = <<>>
    BY <1>1, <1>6 DEF BitAt
  <2>2. z \o <<>> = z
    BY <1>0
  <2>3. FirstSum(z, Len(z)) = n % p
    BY <1>1, <1>6 DEF AfterBits
  <2>4. n % p \in Int
    BY DivMod
  <2>5. n % (2 * p) = n % p
    BY <1>4, <1>6, <2>4
  <2>6. (IF j + 1 < k THEN j + 1 ELSE k) = j + 1
    BY <1>0, <1>6
  <2>7. FirstSum(z, Len(z)) = n % Pow2[IF j + 1 < k THEN j + 1 ELSE k]
    BY <1>2, <2>3, <2>5, <2>6
  <2>. QED
    BY <2>1, <2>2, <2>7 DEF AfterBits
<1>7. CASE j < k /\ (n \div p) % 2 = 1
  <2>1. BitAt(j, n, Pow2[k]) = <<p>>
    BY <1>1, <1>3, <1>7 DEF BitAt
  <2>2. PICK y : y = z \o <<p>>
    OBVIOUS
  <2>3. /\ Len(y) = Len(z) + 1 /\ y[Len(z) + 1] = p
        /\ \A i \in 1..Len(z) : y[i] = z[i]
        /\ \A i \in 0..Len(z) : FirstSum(y, i) = FirstSum(z, i)
        /\ FirstSum(y, Len(z) + 1) = FirstSum(z, Len(z)) + p
    <3>1. /\ y \in Seq(Sizes) /\ Len(y) = Len(z) + 1 /\ y[Len(z) + 1] = p
          /\ \A i \in 1..Len(z) : y[i] = z[i]
      BY <1>0, <1>2, <2>2, AppendOne
    <3>2. y \in Seq(Nat)
      BY <3>1, SizesAre, WiderSeq
    <3>. QED
      BY <1>0, <3>1, <3>2, AppendSums
  <2>4. FirstSum(z, Len(z)) = n % p
    BY <1>1, <1>7 DEF AfterBits
  <2>5. y \in Seq(Sizes)
    BY <1>0, <1>2, <2>2
  <2>6. p <= n
    BY <1>7, BitFits
  <2>7. ASSUME NEW i \in 1..Len(y) PROVE y[i] <= n /\ FirstSum(y, i - 1) = n % y[i]
    <3>1. CASE i \in 1..Len(z)
      <4>1. i - 1 \in 0..Len(z)
        BY <1>0, <3>1
      <4>2. z[i] <= n /\ FirstSum(z, i - 1) = n % z[i]
        BY <3>1 DEF AfterBits, Filling
      <4>. QED
        BY <2>3, <3>1, <4>1, <4>2
    <3>2. CASE i = Len(z) + 1
      <4>1. i - 1 = Len(z) /\ Len(z) \in 0..Len(z)
        BY <1>0, <3>2
      <4>. QED
        BY <2>3, <2>4, <2>6, <3>2, <4>1
    <3>. QED
      BY <1>0, <2>3, <3>1, <3>2
  <2>8. FirstSum(y, Len(y)) = n % (2 * p)
    <3>1. n % p \in Int
      BY DivMod
    <3>2. FirstSum(y, Len(y)) = (n % p) + p
      BY <2>3, <2>4
    <3>. QED
      BY <1>4, <1>7, <3>1, <3>2
  <2>9. (IF j + 1 < k THEN j + 1 ELSE k) = j + 1
    BY <1>0, <1>7
  <2>10. AfterBits(y, j + 1, n, k)
    BY <1>2, <2>5, <2>7, <2>8, <2>9 DEF AfterBits, Filling
  <2>. QED
    BY <2>1, <2>2, <2>10
<1>. QED
  BY <1>5, <1>6, <1>7

\* Fillers(n, 2^k) are sizes that add up to the remainder of n by 2^k.
LEMMA FillersFill ==
  ASSUME NEW n \in Nat, NEW k \in 0..MaxBit + 1
  PROVE  LET z == Fillers(n, Pow2[k]) IN Filling(z, n) /\ FirstSum(z, Len(z)) = n % Pow2[k]
<1>0. PICK m \in Nat : m = MaxBit + 1
  BY DealAssignAssumption
<1>1. PICK g : g = CHOOSE h : BitsTo(h, m, n, Pow2[k])
  OBVIOUS
<1>2. BitsTo(g, m, n, Pow2[k])
  BY <1>1, BitsExist
<1>3. \A j \in 0..m : g[j] = IF j = 0 THEN <<>> ELSE g[j - 1] \o BitAt(j - 1, n, Pow2[k])
  BY <1>2 DEF BitsTo
<1>. DEFINE Wrong == {j \in 0..m : ~AfterBits(g[j], j, n, k)}
<1>4. 0 \notin Wrong
  <2>1. g[0] = <<>>
    <3>1. 0 \in 0..m
      OBVIOUS
    <3>. QED
      BY <1>3, <3>1
  <2>2. Filling(<<>>, n)
    <3>1. <<>> \in Seq(Sizes) /\ Len(<<>>) = 0
      OBVIOUS
    <3>. QED
      BY <3>1 DEF Filling
  <2>3. FirstSum(<<>>, 0) = 0
    <3>1. <<>> \in Seq(Nat)
      OBVIOUS
    <3>. QED
      BY <3>1, FirstSums
  <2>4. (IF 0 < k THEN 0 ELSE k) = 0
    BY DealAssignAssumption
  <2>5. n % 1 = 0
    <3>1. n = n * 1
      OBVIOUS
    <3>2. 1 \in Nat \ {0} /\ n \in Int
      OBVIOUS
    <3>. QED
      BY <3>1, <3>2, MultipleMod
  <2>6. Len(<<>>) = 0
    OBVIOUS
  <2>7. AfterBits(<<>>, 0, n, k)
    BY <2>2, <2>3, <2>4, <2>5, <2>6, Powers DEF AfterBits
  <2>. QED
    BY <2>1, <2>7
<1>5. Wrong = {}
  <2>. SUFFICES ASSUME Wrong # {} PROVE FALSE
    OBVIOUS
  <2>1. Wrong \subseteq Nat /\ Wrong \subseteq 0..m
    OBVIOUS
  <2>2. PICK j \in Wrong : \A i \in Wrong : ~(i < j)
    <3>. HIDE DEF Wrong
    <3>. QED
      BY <2>1, LeastNatural
  <2>3. j \in 1..m /\ j - 1 \in 0..m /\ j - 1 \notin Wrong /\ j - 1 \in 0..MaxBit /\ (j - 1) + 1 = j
    <3>. HIDE DEF Wrong
    <3>. QED
      BY <1>0, <1>4, <2>1, <2>2, DealAssignAssumption
  <2>4. AfterBits(g[j - 1], j - 1, n, k)
    BY <2>3
  <2>5. g[j] = g[j - 1] \o BitAt(j - 1, n, Pow2[k])
    <3>1. j \in 0..m /\ j # 0
      BY <2>3
    <3>. QED
      BY <1>3, <3>1
  <2>6. AfterBits(g[j], (j - 1) + 1, n, k)
    BY <2>3, <2>4, <2>5, BitStep
  <2>7. AfterBits(g[j], j, n, k)
    BY <2>3, <2>6
  <2>. QED
    BY <2>7
<1>6. AfterBits(g[m], m, n, k)
  BY <1>5
<1>7. (IF m < k THEN m ELSE k) = k
  BY <1>0, DealAssignAssumption
<1>8. Fillers(n, Pow2[k]) = g[m]
  BY <1>0, <1>1, BitsResult
<1>. QED
  BY <1>6, <1>7, <1>8 DEF AfterBits

-----------------------------------------------------------------------------
(* Layouts.                                                                  *)

Pieces == [deal : SUBSET Deals, size : Sizes, offset : Int]
SizesOf(l) == [j \in DOMAIN l |-> l[j].size]
Total(l) == StartOf(l, Len(l) + 1)

\* Where the pieces of a layout start.
LEMMA Starts ==
  ASSUME NEW l \in Seq(Pieces)
  PROVE  /\ StartOf(l, 1) = 0
         /\ \A i \in 1..Len(l) + 1 : StartOf(l, i) \in Nat
         /\ \A i \in 1..Len(l) : StartOf(l, i + 1) = StartOf(l, i) + l[i].size
<1>1. PICK z : z = SizesOf(l)
  OBVIOUS
<1>2. Len(l) \in Nat /\ DOMAIN l = 1..Len(l) /\ \A i \in 1..Len(l) : l[i] \in Pieces
  OBVIOUS
<1>3. \A i \in 1..Len(l) : l[i].size \in Nat
  BY <1>2, SizesAre DEF Pieces
<1>4. z \in [1..Len(l) -> Nat] /\ \A i \in 1..Len(l) : z[i] = l[i].size
  BY <1>1, <1>2, <1>3 DEF SizesOf
<1>5. z \in Seq(Nat) /\ Len(z) = Len(l)
  BY <1>2, <1>4
<1>6. /\ FirstSum(z, 0) = 0
      /\ \A i \in 0..Len(z) : FirstSum(z, i) \in Nat
      /\ \A i \in 1..Len(z) : FirstSum(z, i) = FirstSum(z, i - 1) + z[i]
  BY <1>5, FirstSums
<1>7. \A i : StartOf(l, i) = FirstSum(z, i - 1)
  BY <1>1 DEF StartOf, FirstSum, SizesOf
<1>8. StartOf(l, 1) = 0
  <2>1. 1 - 1 = 0
    OBVIOUS
  <2>. QED
    BY <1>6, <1>7, <2>1
<1>9. ASSUME NEW i \in 1..Len(l) + 1 PROVE StartOf(l, i) \in Nat
  <2>1. i - 1 \in 0..Len(z)
    BY <1>2, <1>5
  <2>. QED
    BY <1>6, <1>7, <2>1
<1>10. ASSUME NEW i \in 1..Len(l) PROVE StartOf(l, i + 1) = StartOf(l, i) + l[i].size
  <2>1. i \in 1..Len(z) /\ (i + 1) - 1 = i
    BY <1>2, <1>5
  <2>2. StartOf(l, i + 1) = FirstSum(z, i)
    BY <1>7, <2>1
  <2>. QED
    BY <1>4, <1>6, <1>7, <2>1, <2>2
<1>. QED
  BY <1>8, <1>9, <1>10

\* Layouts that agree start their pieces at the same places.
LEMMA SameStarts ==
  ASSUME NEW l, NEW m, NEW i \in Nat, 1..i \subseteq DOMAIN l, 1..i \subseteq DOMAIN m, \A j \in 1..i : l[j] = m[j]
  PROVE  StartOf(l, i + 1) = StartOf(m, i + 1)
<1>1. PICK y : y = SizesOf(l)
  OBVIOUS
<1>2. PICK z : z = SizesOf(m)
  OBVIOUS
<1>3. \A j \in 1..i : y[j] = z[j]
  BY <1>1, <1>2 DEF SizesOf
<1>4. FirstSum(y, i) = FirstSum(z, i)
  BY <1>3, SameSums
<1>5. (i + 1) - 1 = i
  OBVIOUS
<1>. QED
  BY <1>1, <1>2, <1>4, <1>5 DEF StartOf, FirstSum, SizesOf

\* One sequence behind another.
LEMMA ConcatIs ==
  ASSUME NEW S, NEW l \in Seq(S), NEW m \in Seq(S)
  PROVE  /\ l \o m \in Seq(S) /\ Len(l \o m) = Len(l) + Len(m)
         /\ \A i \in 1..Len(l) : (l \o m)[i] = l[i]
         /\ \A i \in 1..Len(m) : (l \o m)[Len(l) + i] = m[i]
<1>1. Len(l) \in Nat /\ Len(m) \in Nat
  OBVIOUS
<1>2. /\ l \o m \in Seq(S) /\ Len(l \o m) = Len(l) + Len(m)
      /\ \A i \in 1..Len(l) + Len(m) : (l \o m)[i] = IF i <= Len(l) THEN l[i] ELSE m[i - Len(l)]
  BY ConcatProperties
<1>3. \A i \in 1..Len(l) : (l \o m)[i] = l[i]
  BY <1>1, <1>2
<1>4. ASSUME NEW i \in 1..Len(m) PROVE (l \o m)[Len(l) + i] = m[i]
  <2>1. Len(l) + i \in 1..Len(l) + Len(m) /\ ~(Len(l) + i <= Len(l)) /\ (Len(l) + i) - Len(l) = i
    BY <1>1
  <2>. QED
    BY <1>2, <2>1
<1>. QED
  BY <1>2, <1>3, <1>4

\* One layout behind another.
LEMMA ConcatStarts ==
  ASSUME NEW l \in Seq(Pieces), NEW m \in Seq(Pieces), NEW c \in Seq(Pieces), Len(c) = Len(l) + Len(m),
         \A i \in 1..Len(l) : c[i] = l[i], \A i \in 1..Len(m) : c[Len(l) + i] = m[i]
  PROVE  /\ \A i \in 1..Len(l) : StartOf(c, i) = StartOf(l, i)
         /\ \A i \in 1..Len(m) : StartOf(c, Len(l) + i) = Total(l) + StartOf(m, i)
         /\ Total(c) = Total(l) + Total(m)
<1>1. Len(l) \in Nat /\ Len(m) \in Nat
  OBVIOUS
<1>2. DOMAIN c = 1..Len(l) + Len(m) /\ DOMAIN l = 1..Len(l)
  OBVIOUS
<1>3. \A i \in 1..Len(l) : c[i] = l[i]
  OBVIOUS
<1>4. \A i \in 1..Len(m) : c[Len(l) + i] = m[i]
  OBVIOUS
<1>5. ASSUME NEW i \in 0..Len(l) PROVE StartOf(c, i + 1) = StartOf(l, i + 1)
  <2>1. i \in Nat /\ 1..i \subseteq DOMAIN c /\ 1..i \subseteq DOMAIN l /\ \A j \in 1..i : c[j] = l[j]
    BY <1>1, <1>2, <1>3
  <2>. QED
    BY <2>1, SameStarts
<1>6. ASSUME NEW i \in 1..Len(l) PROVE StartOf(c, i) = StartOf(l, i)
  <2>1. i - 1 \in 0..Len(l) /\ (i - 1) + 1 = i
    BY <1>1
  <2>. QED
    BY <1>5, <2>1
<1>7. Total(l) \in Nat /\ StartOf(c, Len(l) + 1) = Total(l)
  <2>1. Len(l) \in 0..Len(l) /\ Len(l) + 1 \in 1..Len(l) + 1
    BY <1>1
  <2>. QED
    BY <1>5, <2>1, Starts DEF Total
<1>. DEFINE Wrong == {i \in 1..Len(m) + 1 : StartOf(c, Len(l) + i) # Total(l) + StartOf(m, i)}
<1>8. 1 \notin Wrong
  BY <1>7, Starts
<1>9. Wrong = {}
  <2>. SUFFICES ASSUME Wrong # {} PROVE FALSE
    OBVIOUS
  <2>1. Wrong \subseteq Nat /\ Wrong \subseteq 1..Len(m) + 1
    OBVIOUS
  <2>2. PICK i \in Wrong : \A j \in Wrong : ~(j < i)
    <3>. HIDE DEF Wrong
    <3>. QED
      BY <2>1, LeastNatural
  <2>3. i - 1 \in 1..Len(m) /\ i - 1 \in 1..Len(m) + 1 /\ i - 1 \notin Wrong /\ (i - 1) + 1 = i
    <3>. HIDE DEF Wrong
    <3>. QED
      BY <1>1, <1>8, <2>1, <2>2
  <2>4. PICK k \in 1..Len(m) : k = i - 1
    BY <2>3
  <2>5. StartOf(c, Len(l) + k) = Total(l) + StartOf(m, k) /\ i = k + 1
    BY <2>3, <2>4
  <2>6. Len(l) + k \in 1..Len(c) /\ (Len(l) + k) + 1 = Len(l) + i
    BY <1>1, <1>2, <2>5
  <2>7. StartOf(c, (Len(l) + k) + 1) = StartOf(c, Len(l) + k) + c[Len(l) + k].size
    BY <1>2, <2>6, Starts
  <2>8. StartOf(m, k + 1) = StartOf(m, k) + m[k].size /\ StartOf(m, k) \in Nat
    BY <1>1, Starts
  <2>9. m[k].size \in Nat
    <3>1. m[k] \in Pieces
      OBVIOUS
    <3>. QED
      BY <3>1, SizesAre DEF Pieces
  <2>10. StartOf(c, Len(l) + i) = (Total(l) + StartOf(m, k)) + m[k].size
    BY <1>4, <2>5, <2>6, <2>7
  <2>11. StartOf(c, Len(l) + i) = Total(l) + StartOf(m, i)
    BY <1>7, <2>5, <2>8, <2>9, <2>10
  <2>. QED
    BY <2>11
<1>10. \A i \in 1..Len(m) + 1 : StartOf(c, Len(l) + i) = Total(l) + StartOf(m, i)
  BY <1>9
<1>11. Total(c) = Total(l) + Total(m)
  <2>1. Len(m) + 1 \in 1..Len(m) + 1 /\ Len(l) + (Len(m) + 1) = Len(c) + 1
    BY <1>1, <1>2
  <2>2. StartOf(c, Len(l) + (Len(m) + 1)) = Total(l) + StartOf(m, Len(m) + 1)
    BY <1>10, <2>1
  <2>. QED
    BY <2>1, <2>2 DEF Total
<1>12. \A i \in 1..Len(m) : i \in 1..Len(m) + 1
  BY <1>1
<1>. QED
  BY <1>6, <1>10, <1>11, <1>12

\* The pieces of l are right when l begins at T: each starts at a multiple of
\* its size, and a deal has its size and starts where its offset says.
Continues(l, T, spec) ==
  /\ l \in Seq(Pieces)
  /\ \A i \in 1..Len(l) :
       /\ (T + StartOf(l, i)) % l[i].size = 0
       /\ \A d \in l[i].deal : /\ l[i].deal = {d} /\ l[i].size = PieceSize[d] /\ WithinSpec(d, spec)
                               /\ l[i].offset = T + StartOf(l, i)

\* Two right layouts, the second where the first ends.
LEMMA ConcatContinues ==
  ASSUME NEW T \in Nat, NEW U, NEW spec, NEW l, NEW m, Continues(l, T, spec), U = T + Total(l), Continues(m, U, spec)
  PROVE  /\ Continues(l \o m, T, spec) /\ Total(l \o m) = Total(l) + Total(m)
         /\ Len(l \o m) = Len(l) + Len(m)
         /\ \A i \in 1..Len(l) : (l \o m)[i] = l[i]
         /\ \A i \in 1..Len(m) : (l \o m)[Len(l) + i] = m[i]
<1>0. l \in Seq(Pieces) /\ m \in Seq(Pieces) /\ Len(l) \in Nat /\ Len(m) \in Nat
  BY DEF Continues
<1>1. PICK c : c = l \o m
  OBVIOUS
<1>2. /\ c \in Seq(Pieces) /\ Len(c) = Len(l) + Len(m)
      /\ \A i \in 1..Len(l) : c[i] = l[i] /\ StartOf(c, i) = StartOf(l, i)
      /\ \A i \in 1..Len(m) : c[Len(l) + i] = m[i] /\ StartOf(c, Len(l) + i) = Total(l) + StartOf(m, i)
      /\ Total(c) = Total(l) + Total(m)
  <2>1. /\ c \in Seq(Pieces) /\ Len(c) = Len(l) + Len(m)
        /\ \A i \in 1..Len(l) : c[i] = l[i]
        /\ \A i \in 1..Len(m) : c[Len(l) + i] = m[i]
    <3>1. /\ l \o m \in Seq(Pieces) /\ Len(l \o m) = Len(l) + Len(m)
          /\ \A i \in 1..Len(l) : (l \o m)[i] = l[i]
          /\ \A i \in 1..Len(m) : (l \o m)[Len(l) + i] = m[i]
      BY <1>0, ConcatIs
    <3>. QED
      BY <1>1, <3>1, Zenon
  <2>2. /\ \A i \in 1..Len(l) : StartOf(c, i) = StartOf(l, i)
        /\ \A i \in 1..Len(m) : StartOf(c, Len(l) + i) = Total(l) + StartOf(m, i)
        /\ Total(c) = Total(l) + Total(m)
    BY <1>0, <2>1, ConcatStarts
  <2>. QED
    BY <2>1, <2>2
<1>3. Total(l) \in Nat /\ \A i \in 1..Len(m) : StartOf(m, i) \in Nat
  <2>1. Len(l) + 1 \in 1..Len(l) + 1 /\ \A i \in 1..Len(m) : i \in 1..Len(m) + 1
    BY <1>0
  <2>. QED
    BY <1>0, <2>1, Starts DEF Total
<1>4. ASSUME NEW i \in 1..Len(c)
      PROVE  /\ (T + StartOf(c, i)) % c[i].size = 0
             /\ \A d \in c[i].deal : /\ c[i].deal = {d} /\ c[i].size = PieceSize[d] /\ WithinSpec(d, spec)
                                     /\ c[i].offset = T + StartOf(c, i)
  <2>1. CASE i \in 1..Len(l)
    BY <1>2, <2>1 DEF Continues
  <2>2. CASE i \notin 1..Len(l)
    <3>1. PICK k \in 1..Len(m) : i = Len(l) + k
      <4>1. i - Len(l) \in 1..Len(m) /\ i = Len(l) + (i - Len(l))
        BY <1>0, <1>2, <2>2
      <4>. QED
        BY <4>1
    <3>2. c[i] = m[k] /\ StartOf(c, i) = Total(l) + StartOf(m, k)
      BY <1>2, <3>1
    <3>3. T + StartOf(c, i) = U + StartOf(m, k)
      BY <1>3, <3>2
    <3>. QED
      BY <3>2, <3>3 DEF Continues
  <2>. QED
    BY <2>1, <2>2
<1>. QED
  BY <1>1, <1>2, <1>4 DEF Continues

\* A smaller size divides a larger one.
LEMMA SizeDivides ==
  ASSUME NEW p \in Sizes, NEW q \in Sizes, p <= q
  PROVE  \E k \in Nat \ {0} : q = k * p
<1>1. PICK i \in 0..MaxBit, j \in 0..MaxBit : p = Pow2[i] /\ q = Pow2[j]
  BY DEF Sizes
<1>2. i \in 0..MaxBit + 1 /\ j \in 0..MaxBit + 1 /\ p \in Nat /\ q \in Nat
  BY SizesAre, DealAssignAssumption
<1>3. ~(j < i)
  BY <1>1, <1>2, PowOrder
<1>. QED
  BY <1>1, <1>2, <1>3, PowDivides

\* S - n and the remainder of n are a multiple of p when S is.
LEMMA AlignedMultiple ==
  ASSUME NEW S \in Nat, NEW p \in Nat \ {0}, NEW k \in Nat, S = k * p, NEW n \in Nat
  PROVE  ((S - n) + (n % p)) % p = 0
<1>1. PICK q \in Int : q = n \div p
  BY DivMod
<1>2. PICK r \in Int : r = n % p
  BY DivMod
<1>3. r = n - p * q
  BY <1>1, <1>2, DivMod
<1>4. PICK a \in Int : a = k - q
  OBVIOUS
<1>5. (S - n) + r = a * p
  BY <1>3, <1>4
<1>6. ((S - n) + r) % p = 0
  BY <1>5, MultipleMod
<1>. QED
  BY <1>2, <1>6

\* What is left of a sector when n units are, down to a multiple of p, starts at
\* a multiple of p.
LEMMA AlignedRest ==
  ASSUME NEW S \in Sizes, NEW p \in Sizes, NEW n \in Nat, p <= n, n <= S
  PROVE  ((S - n) + (n % p)) % p = 0
<1>1. p \in Nat \ {0} /\ S \in Nat
  BY SizesAre
<1>2. p <= S
  BY <1>1
<1>3. PICK k \in Nat : S = k * p
  BY <1>2, SizeDivides
<1>. QED
  BY <1>1, <1>3, AlignedMultiple

\* The layout of zero pieces.
ZerosOf(z) == [i \in DOMAIN z |-> ZeroPiece(z[i])]

\* Fillers continue a layout that leaves n units of the sector.
LEMMA ZerosContinue ==
  ASSUME NEW spec, NEW n \in Nat, n <= SectorSize, NEW z, Filling(z, n)
  PROVE  /\ Continues(ZerosOf(z), SectorSize - n, spec) /\ Total(ZerosOf(z)) = FirstSum(z, Len(z))
         /\ Len(ZerosOf(z)) = Len(z) /\ \A i \in 1..Len(z) : ZerosOf(z)[i].deal = {}
<1>0. z \in Seq(Sizes) /\ Len(z) \in Nat /\ DOMAIN z = 1..Len(z) /\ \A i \in 1..Len(z) : z[i] \in Sizes
  BY DEF Filling
<1>1. PICK l : l = ZerosOf(z)
  OBVIOUS
<1>2. \A i \in 1..Len(z) : l[i] = ZeroPiece(z[i])
  BY <1>0, <1>1 DEF ZerosOf
<1>3. \A i \in 1..Len(z) : l[i] \in Pieces /\ l[i].deal = {} /\ l[i].size = z[i]
  <2>1. ASSUME NEW x \in Sizes, NEW v, v = ZeroPiece(x) PROVE v \in Pieces /\ v.deal = {} /\ v.size = x
    <3>1. v = [deal |-> {}, size |-> x, offset |-> 0]
      BY <2>1 DEF ZeroPiece
    <3>2. {} \in SUBSET Deals /\ 0 \in Int
      OBVIOUS
    <3>. QED
      BY <3>1, <3>2 DEF Pieces
  <2>. QED
    BY <1>0, <1>2, <2>1
<1>4. l \in [1..Len(z) -> Pieces]
  <2>1. l = [i \in 1..Len(z) |-> l[i]]
    BY <1>0, <1>1 DEF ZerosOf
  <2>. QED
    BY <1>3, <2>1
<1>5. l \in Seq(Pieces) /\ Len(l) = Len(z) /\ DOMAIN l = 1..Len(z)
  BY <1>0, <1>4
<1>6. ASSUME NEW i \in 1..Len(z) + 1 PROVE StartOf(l, i) = FirstSum(z, i - 1)
  <2>1. PICK y : y = SizesOf(l)
    OBVIOUS
  <2>2. \A j \in 1..Len(z) : y[j] = z[j]
    BY <1>3, <1>5, <2>1 DEF SizesOf
  <2>3. i - 1 \in Nat /\ \A j \in 1..i - 1 : y[j] = z[j]
    BY <1>0, <2>2
  <2>4. FirstSum(y, i - 1) = FirstSum(z, i - 1)
    BY <2>3, SameSums
  <2>. QED
    BY <2>1, <2>4 DEF StartOf, FirstSum, SizesOf
<1>7. ASSUME NEW i \in 1..Len(l)
      PROVE  ((SectorSize - n) + StartOf(l, i)) % l[i].size = 0 /\ \A d \in l[i].deal : FALSE
  <2>1. i \in 1..Len(z) /\ i \in 1..Len(z) + 1
    BY <1>0, <1>5
  <2>2. StartOf(l, i) = n % z[i] /\ z[i] <= n /\ z[i] \in Sizes /\ l[i].size = z[i]
    BY <1>0, <1>3, <1>6, <2>1 DEF Filling
  <2>3. SectorSize \in Sizes
    BY DealAssignAssumption
  <2>4. ((SectorSize - n) + (n % z[i])) % z[i] = 0
    BY <2>2, <2>3, AlignedRest
  <2>. QED
    BY <1>3, <2>1, <2>2, <2>4
<1>8. Total(l) = FirstSum(z, Len(z))
  <2>1. Len(z) + 1 \in 1..Len(z) + 1 /\ (Len(z) + 1) - 1 = Len(z)
    BY <1>0
  <2>. QED
    BY <1>5, <1>6, <2>1 DEF Total
<1>. QED
  BY <1>1, <1>3, <1>5, <1>7, <1>8 DEF Continues

\* A deal continues a layout that ends at a multiple of its size.
LEMMA DealContinues ==
  ASSUME NEW spec, NEW d \in Deals, WithinSpec(d, spec), NEW T \in Nat, T % PieceSize[d] = 0,
         NEW l, l = <<[deal |-> {d}, size |-> PieceSize[d], offset |-> T]>>
  PROVE  Continues(l, T, spec) /\ Total(l) = PieceSize[d] /\ Len(l) = 1 /\ l[1].deal = {d}
<1>1. PICK q : q = [deal |-> {d}, size |-> PieceSize[d], offset |-> T]
  OBVIOUS
<1>2. PieceSize[d] \in Sizes /\ PieceSize[d] \in Nat
  BY SizesAre, DealAssignAssumption
<1>3. q \in Pieces /\ q.deal = {d} /\ q.size = PieceSize[d] /\ q.offset = T
  BY <1>1, <1>2 DEF Pieces
<1>4. l = <<q>>
  BY <1>1
<1>5. l \in Seq(Pieces) /\ Len(l) = 1 /\ l[1] = q
  BY <1>3, <1>4
<1>6. StartOf(l, 1) = 0
  BY <1>5, Starts
<1>7. StartOf(l, 1 + 1) = 0 + PieceSize[d]
  <2>1. 1 \in 1..Len(l)
    BY <1>5
  <2>. QED
    BY <1>3, <1>5, <1>6, <2>1, Starts
<1>8. T + StartOf(l, 1) = T
  BY <1>6
<1>9. \A i \in 1..Len(l) : i = 1
  BY <1>5
<1>10. Continues(l, T, spec)
  BY <1>3, <1>5, <1>8, <1>9 DEF Continues
<1>11. Total(l) = PieceSize[d]
  BY <1>2, <1>5, <1>7 DEF Total
<1>. QED
  BY <1>3, <1>5, <1>10, <1>11

-----------------------------------------------------------------------------
(* The loop of pickAndAlign.                                                 *)

\* The equation of the loop of PlaceDeals over the first n deals.
LoopTo(g, n, order, spec) ==
  g = [i \in 0..n |-> IF i = 0 THEN NothingPlaced ELSE PlaceDeal(spec, g[i - 1], order[i])]

\* The result of the loop.
LEMMA LoopResult ==
  ASSUME NEW order, NEW spec
  PROVE  PlaceDeals(order, spec) = (CHOOSE g : LoopTo(g, Len(order), order, spec))[Len(order)]
BY DEF PlaceDeals, LoopTo

\* One more turn of the loop.
LEMMA LoopExtends ==
  ASSUME NEW order, NEW spec, NEW n \in Nat, NEW g, LoopTo(g, n, order, spec)
  PROVE  \E h : LoopTo(h, n + 1, order, spec)
<1>1. PICK h : h = [i \in 0..n + 1 |-> IF i = n + 1 THEN PlaceDeal(spec, g[n], order[n + 1]) ELSE g[i]]
  OBVIOUS
<1>2. \A i \in 0..n : g[i] = IF i = 0 THEN NothingPlaced ELSE PlaceDeal(spec, g[i - 1], order[i])
  BY DEF LoopTo
<1>3. \A i \in 0..n : h[i] = g[i]
  BY <1>1
<1>4. ASSUME NEW i \in 0..n + 1
      PROVE  h[i] = IF i = 0 THEN NothingPlaced ELSE PlaceDeal(spec, h[i - 1], order[i])
  <2>1. CASE i = n + 1
    <3>1. i # 0 /\ i - 1 = n /\ n \in 0..n
      BY <2>1
    <3>2. h[i - 1] = g[n]
      BY <1>3, <3>1
    <3>3. h[i] = PlaceDeal(spec, g[n], order[i])
      BY <1>1, <2>1
    <3>. QED
      BY <3>1, <3>2, <3>3
  <2>2. CASE i \in 0..n /\ i # 0
    <3>1. i - 1 \in 0..n
      BY <2>2
    <3>2. h[i] = PlaceDeal(spec, g[i - 1], order[i]) /\ h[i - 1] = g[i - 1]
      BY <1>2, <1>3, <2>2, <3>1
    <3>. QED
      BY <2>2, <3>2
  <2>3. CASE i = 0
    <3>1. 0 \in 0..n
      OBVIOUS
    <3>. QED
      BY <1>2, <1>3, <2>3, <3>1
  <2>. QED
    BY <2>1, <2>2, <2>3
<1>5. h = [i \in 0..n + 1 |-> h[i]]
  BY <1>1
<1>6. LoopTo(h, n + 1, order, spec)
  BY <1>4, <1>5 DEF LoopTo
<1>. QED
  BY <1>6

\* The loop over any number of deals has a result.
LEMMA LoopExists ==
  ASSUME NEW order, NEW spec, NEW n \in Nat
  PROVE  \E g : LoopTo(g, n, order, spec)
<1>. DEFINE Missing == {k \in Nat : ~\E g : LoopTo(g, k, order, spec)}
<1>1. 0 \notin Missing
  <2>1. PICK z : z = [i \in 0..0 |-> NothingPlaced]
    OBVIOUS
  <2>2. LoopTo(z, 0, order, spec)
    BY <2>1 DEF LoopTo
  <2>. QED
    BY <2>2
<1>2. Missing = {}
  <2>. SUFFICES ASSUME Missing # {} PROVE FALSE
    OBVIOUS
  <2>1. Missing \subseteq Nat
    OBVIOUS
  <2>2. PICK k \in Missing : \A m \in Missing : ~(m < k)
    <3>. HIDE DEF Missing
    <3>. QED
      BY <2>1, LeastNatural
  <2>3. k - 1 \in Nat /\ k - 1 \notin Missing
    <3>. HIDE DEF Missing
    <3>. QED
      BY <1>1, <2>1, <2>2
  <2>4. PICK g : LoopTo(g, k - 1, order, spec)
    BY <2>3
  <2>5. \E h : LoopTo(h, (k - 1) + 1, order, spec)
    BY <2>3, <2>4, LoopExtends
  <2>6. (k - 1) + 1 = k
    BY <2>1
  <2>7. \E h : LoopTo(h, k, order, spec)
    BY <2>5, <2>6
  <2>. QED
    BY <2>7
<1>. QED
  BY <1>2

\* The pieces of a layout that are deals.
DealsAt(l) == {i \in 1..Len(l) : l[i].deal # {}}

\* c is the layout l, k zero pieces and the deal d.
DealAdded(c, l, k, d) ==
  /\ l \in Seq(Pieces) /\ c \in Seq(Pieces) /\ k \in Nat /\ Len(c) = (Len(l) + k) + 1
  /\ \A i \in 1..Len(l) : c[i] = l[i]
  /\ \A i \in 1..k : c[Len(l) + i].deal = {}
  /\ c[Len(c)].deal = {d}

\* c holds the deals of l and d behind them.
HoldsToo(c, l, d) ==
  /\ DealsIn(c) = DealsIn(l) \cup {d}
  /\ DealsAt(c) = DealsAt(l) \cup {Len(c)} /\ Len(c) \notin DealsAt(l)

\* The deals of such a layout.
LEMMA OneMoreDeal ==
  ASSUME NEW l, NEW c, NEW k, NEW d, DealAdded(c, l, k, d)
  PROVE  HoldsToo(c, l, d)
<1>0. /\ l \in Seq(Pieces) /\ c \in Seq(Pieces) /\ k \in Nat /\ Len(c) = (Len(l) + k) + 1
      /\ \A i \in 1..Len(l) : c[i] = l[i]
      /\ \A i \in 1..k : c[Len(l) + i].deal = {}
      /\ c[Len(c)].deal = {d}
  BY DEF DealAdded
<1>1. Len(l) \in Nat /\ DOMAIN l = 1..Len(l) /\ DOMAIN c = 1..Len(c) /\ Len(c) \in Nat
  BY <1>0
<1>2. ASSUME NEW i \in 1..Len(c), i \notin 1..Len(l), i # Len(c) PROVE c[i].deal = {}
  <2>1. i - Len(l) \in 1..k /\ Len(l) + (i - Len(l)) = i
    BY <1>0, <1>1, <1>2
  <2>. QED
    BY <1>0, <2>1
<1>3. Len(c) \in 1..Len(c) /\ Len(c) \notin 1..Len(l) /\ \A i \in 1..Len(l) : i \in 1..Len(c)
  BY <1>0, <1>1
<1>4. DealsIn(c) = DealsIn(l) \cup {d}
  <2>1. ASSUME NEW x \in DealsIn(c) PROVE x \in DealsIn(l) \cup {d}
    <3>1. PICK i \in 1..Len(c) : x \in c[i].deal
      BY <1>1, <2>1 DEF DealsIn
    <3>. QED
      BY <1>0, <1>1, <1>2, <3>1 DEF DealsIn
  <2>2. ASSUME NEW x \in DealsIn(l) PROVE x \in DealsIn(c)
    <3>1. PICK i \in 1..Len(l) : x \in l[i].deal
      BY <1>1, <2>2 DEF DealsIn
    <3>. QED
      BY <1>0, <1>1, <1>3, <3>1 DEF DealsIn
  <2>3. d \in DealsIn(c)
    BY <1>0, <1>1, <1>3 DEF DealsIn
  <2>. QED
    BY <2>1, <2>2, <2>3
<1>. QED
  <2>1. DealsAt(c) = DealsAt(l) \cup {Len(c)} /\ Len(c) \notin DealsAt(l)
    BY <1>0, <1>2, <1>3 DEF DealsAt
  <2>. QED
    BY <1>4, <2>1 DEF HoldsToo

\* c is the layout l and k zero pieces.
ZerosAdded(c, l, k) ==
  /\ l \in Seq(Pieces) /\ c \in Seq(Pieces) /\ k \in Nat /\ Len(c) = Len(l) + k
  /\ \A i \in 1..Len(l) : c[i] = l[i]
  /\ \A i \in 1..k : c[Len(l) + i].deal = {}

\* c holds the deals of l, and none behind them.
HoldsSame(c, l) ==
  /\ DealsIn(c) = DealsIn(l) /\ DealsAt(c) = DealsAt(l)
  /\ \A i \in 1..Len(c) : i \notin 1..Len(l) => c[i].deal = {}

\* The deals of such a layout.
LEMMA NoMoreDeals ==
  ASSUME NEW l, NEW c, NEW k, ZerosAdded(c, l, k)
  PROVE  HoldsSame(c, l)
<1>0. /\ l \in Seq(Pieces) /\ c \in Seq(Pieces) /\ k \in Nat /\ Len(c) = Len(l) + k
      /\ \A i \in 1..Len(l) : c[i] = l[i]
      /\ \A i \in 1..k : c[Len(l) + i].deal = {}
  BY DEF ZerosAdded
<1>1. Len(l) \in Nat /\ DOMAIN l = 1..Len(l) /\ DOMAIN c = 1..Len(c) /\ Len(c) \in Nat
  BY <1>0
<1>2. ASSUME NEW i \in 1..Len(c), i \notin 1..Len(l) PROVE c[i].deal = {}
  <2>1. i - Len(l) \in 1..k /\ Len(l) + (i - Len(l)) = i
    BY <1>0, <1>1, <1>2
  <2>. QED
    BY <1>0, <2>1
<1>3. \A i \in 1..Len(l) : i \in 1..Len(c)
  BY <1>0, <1>1
<1>4. DealsIn(c) = DealsIn(l)
  BY <1>0, <1>1, <1>2, <1>3 DEF DealsIn
<1>5. DealsAt(c) = DealsAt(l)
  BY <1>0, <1>2, <1>3 DEF DealsAt
<1>. QED
  BY <1>2, <1>4, <1>5 DEF HoldsSame

\* A multiple of p fits in n units behind the remainder.
LEMMA FitsBehind ==
  ASSUME NEW p \in Nat \ {0}, NEW n \in Nat, p <= n
  PROVE  n % p \in Nat /\ (n - (n % p)) - p \in Nat
<1>1. PICK q \in Int : q = n \div p
  BY DivMod
<1>2. PICK r \in 0..p - 1 : r = n % p
  BY DivMod
<1>3. r = n - p * q
  BY <1>1, <1>2, DivMod
<1>4. q >= 1
  <2>. SUFFICES ASSUME q <= 0 PROVE FALSE
    BY <1>1
  <2>1. p * q <= 0
    OBVIOUS
  <2>. QED
    BY <1>3, <2>1
<1>5. p * q >= p
  BY <1>4
<1>6. r \in Nat /\ (n - r) - p \in Nat
  BY <1>3, <1>5
<1>. QED
  BY <1>2, <1>6

\* The place of the next deal: it is aligned, and the deal fits.
LEMMA NextPlace ==
  ASSUME NEW p \in Sizes, NEW n \in Nat, p <= n, n <= SectorSize
  PROVE  /\ n % p \in Nat /\ (n - (n % p)) - p \in Nat
         /\ ((SectorSize - n) + (n % p)) % p = 0 /\ (SectorSize - n) + (n % p) \in Nat
<1>1. p \in Nat \ {0} /\ SectorSize \in Sizes /\ SectorSize \in Nat
  BY SizesAre, DealAssignAssumption
<1>2. n % p \in Nat /\ (n - (n % p)) - p \in Nat
  BY <1>1, FitsBehind
<1>3. ((SectorSize - n) + (n % p)) % p = 0
  BY <1>1, AlignedRest
<1>4. PICK r \in Nat : r = n % p
  BY <1>2
<1>5. (SectorSize - n) + r \in Nat
  BY <1>1
<1>. QED
  BY <1>2, <1>3, <1>4, <1>5

\* The space behind the deal.
LEMMA SpaceLeft ==
  ASSUME NEW S \in Nat, NEW n \in Nat, NEW s \in Nat, NEW p \in Nat, NEW T \in Nat,
         n <= S, T = (S - n) + s, (n - s) - p \in Nat
  PROVE  /\ T + p = S - ((n - s) - p) /\ (n - s) - p <= S
         /\ 127 * T + 127 * p = 127 * (S - ((n - s) - p))
OBVIOUS

\* Unpadded and padded again, a place is the same.
LEMMA PaddedAgain ==
  ASSUME NEW T \in Nat, NEW at, at = 127 * T
  PROVE  Padded(at) = T
<1>1. PICK u \in Nat \ {0} : u = 127
  OBVIOUS
<1>2. PICK r \in 0..u - 1 : r = 0
  BY <1>1
<1>3. at = T * u + r /\ at \in Int
  BY <1>1, <1>2
<1>4. at \div u = T
  BY <1>3, DivModIs
<1>. QED
  BY <1>1, <1>4 DEF Padded

\* What the loop has laid out when space units of the sector are left.
LaidOut(res, space, offset, spec) ==
  /\ Continues(res, 0, spec) /\ space \in Nat /\ space <= SectorSize
  /\ Total(res) = SectorSize - space /\ offset = 127 * (SectorSize - space)
  /\ Len(res) > 0 => res[Len(res)].deal # {}

\* The deals laid out are the first ones of the order.
Holds(res, deals, order) ==
  /\ deals \in 0..Len(order)
  /\ DealsIn(res) = {order[i] : i \in 1..deals}
  /\ IsFiniteSet(DealsIn(res)) /\ Cardinality(DealsIn(res)) = deals
  /\ IsFiniteSet(DealsAt(res)) /\ Cardinality(DealsAt(res)) = deals

\* The loop has ended because the sealer wants no more deals, or because the
\* next one does not fit; if it has not ended, it has placed all n deals.
Stopped(full, deals, space, n, order, spec) ==
  /\ spec.MaxPiece > 0 => deals <= spec.MaxPiece
  /\ ~full => deals = n
  /\ full => \/ spec.MaxPiece > 0 /\ deals >= spec.MaxPiece
             \/ deals < Len(order) /\ PieceSize[order[deals + 1]] > space

\* The zero pieces z before the deal d, which take s units, its place, and the
\* layout with them.
Adds(d, space, offset, res, z, s, at, c) ==
  /\ z = Fillers(space, PieceSize[d]) /\ s = SumFunction(z) /\ at = offset + Unpadded(s)
  /\ c = (res \o ZerosOf(z)) \o <<[deal |-> {d}, size |-> PieceSize[d], offset |-> Padded(at)]>>

\* Zero pieces up to the place of a deal and the deal.
LEMMA DealLaidOut ==
  ASSUME NEW spec, NEW d \in Deals, WithinSpec(d, spec), NEW res, NEW space, NEW offset,
         LaidOut(res, space, offset, spec), PieceSize[d] <= space,
         NEW z, NEW s, NEW at, NEW c, Adds(d, space, offset, res, z, s, at, c)
  PROVE  /\ LaidOut(c, (space - s) - PieceSize[d], at + Unpadded(PieceSize[d]), spec)
         /\ HoldsToo(c, res, d)
<1>0. /\ z = Fillers(space, PieceSize[d]) /\ s = SumFunction(z) /\ at = offset + Unpadded(s)
      /\ c = (res \o ZerosOf(z)) \o <<[deal |-> {d}, size |-> PieceSize[d], offset |-> Padded(at)]>>
  BY DEF Adds
<1>1. PICK p \in Sizes : p = PieceSize[d]
  BY DealAssignAssumption
<1>2. /\ Continues(res, 0, spec) /\ space \in Nat /\ space <= SectorSize
      /\ Total(res) = SectorSize - space /\ offset = 127 * (SectorSize - space)
      /\ res \in Seq(Pieces)
  BY DEF LaidOut, Continues
<1>3. p \in Nat \ {0} /\ SectorSize \in Nat
  BY <1>1, SizesAre, DealAssignAssumption
<1>4. PICK k \in 0..MaxBit : p = Pow2[k]
  BY <1>1 DEF Sizes
<1>5. k \in 0..MaxBit + 1
  BY DealAssignAssumption
<1>6. Filling(z, space) /\ FirstSum(z, Len(z)) = space % p
  BY <1>0, <1>1, <1>2, <1>4, <1>5, FillersFill
<1>7. s = space % p
  <2>1. DOMAIN z = 1..Len(z)
    BY <1>6 DEF Filling
  <2>. QED
    BY <1>0, <1>6, <2>1 DEF SumFunction, FirstSum
<1>8. PICK T \in Nat : T = (SectorSize - space) + s
  BY <1>1, <1>2, <1>7, NextPlace
<1>9. T % p = 0 /\ s \in Nat /\ (space - s) - p \in Nat
  BY <1>1, <1>2, <1>7, <1>8, NextPlace
<1>10. at = 127 * T /\ Padded(at) = T
  <2>1. at = 127 * T
    BY <1>0, <1>2, <1>3, <1>8, <1>9 DEF Unpadded
  <2>. QED
    BY <2>1, PaddedAgain
<1>11. PICK y : y = ZerosOf(z)
  OBVIOUS
<1>12. /\ Continues(y, SectorSize - space, spec) /\ Total(y) = s
       /\ Len(y) = Len(z) /\ Len(z) \in Nat /\ \A i \in 1..Len(z) : y[i].deal = {}
  <2>1. Len(z) \in Nat
    BY <1>6 DEF Filling
  <2>. QED
    BY <1>2, <1>6, <1>7, <1>11, <2>1, ZerosContinue
<1>13. PICK l : l = <<[deal |-> {d}, size |-> PieceSize[d], offset |-> T]>>
  OBVIOUS
<1>14. Continues(l, T, spec) /\ Total(l) = p /\ Len(l) = 1 /\ l[1].deal = {d}
  BY <1>1, <1>9, <1>13, DealContinues
<1>15. c = (res \o y) \o l
  BY <1>0, <1>10, <1>11, <1>13
<1>16. PICK b : b = res \o y
  OBVIOUS
<1>17. PICK U, Z \in Nat : U = SectorSize - space /\ Z = 0 /\ U = Z + Total(res)
  BY <1>2, <1>3
<1>18. Continues(res, Z, spec) /\ Continues(y, U, spec)
  BY <1>2, <1>12, <1>17, Zenon
<1>19. /\ Continues(res \o y, Z, spec) /\ Total(res \o y) = Total(res) + Total(y)
       /\ Len(res \o y) = Len(res) + Len(y)
       /\ \A i \in 1..Len(res) : (res \o y)[i] = res[i]
       /\ \A i \in 1..Len(y) : (res \o y)[Len(res) + i] = y[i]
  <2>1. Continues(res \o y, Z, spec)
    BY <1>17, <1>18, ConcatContinues
  <2>2. Total(res \o y) = Total(res) + Total(y)
    BY <1>17, <1>18, ConcatContinues
  <2>3. Len(res \o y) = Len(res) + Len(y)
    BY <1>17, <1>18, ConcatContinues
  <2>4. \A i \in 1..Len(res) : (res \o y)[i] = res[i]
    BY <1>17, <1>18, ConcatContinues
  <2>5. \A i \in 1..Len(y) : (res \o y)[Len(res) + i] = y[i]
    BY <1>17, <1>18, ConcatContinues
  <2>. QED
    BY <2>1, <2>2, <2>3, <2>4, <2>5
<1>20. /\ Continues(b, Z, spec) /\ Total(b) = Total(res) + Total(y)
       /\ Len(b) = Len(res) + Len(y)
       /\ \A i \in 1..Len(res) : b[i] = res[i]
       /\ \A i \in 1..Len(y) : b[Len(res) + i] = y[i]
  BY <1>16, <1>19, Zenon
<1>21. T = Z + Total(b) /\ T = Total(b)
  BY <1>2, <1>3, <1>8, <1>9, <1>12, <1>17, <1>20
<1>22. Continues(b, Z, spec) /\ T = Z + Total(b) /\ Continues(l, T, spec)
  BY <1>14, <1>20, <1>21
<1>23. /\ Continues(b \o l, Z, spec) /\ Total(b \o l) = Total(b) + Total(l)
       /\ Len(b \o l) = Len(b) + Len(l)
       /\ \A i \in 1..Len(b) : (b \o l)[i] = b[i]
       /\ \A i \in 1..Len(l) : (b \o l)[Len(b) + i] = l[i]
  <2>1. Continues(b \o l, Z, spec)
    BY <1>22, ConcatContinues
  <2>2. Total(b \o l) = Total(b) + Total(l)
    BY <1>22, ConcatContinues
  <2>3. Len(b \o l) = Len(b) + Len(l)
    BY <1>22, ConcatContinues
  <2>4. \A i \in 1..Len(b) : (b \o l)[i] = b[i]
    BY <1>22, ConcatContinues
  <2>5. \A i \in 1..Len(l) : (b \o l)[Len(b) + i] = l[i]
    BY <1>22, ConcatContinues
  <2>. QED
    BY <2>1, <2>2, <2>3, <2>4, <2>5
<1>24. c = b \o l
  BY <1>15, <1>16, Zenon
<1>25. /\ Continues(c, Z, spec) /\ Total(c) = Total(b) + Total(l)
       /\ Len(c) = Len(b) + Len(l)
       /\ \A i \in 1..Len(b) : c[i] = b[i]
       /\ \A i \in 1..Len(l) : c[Len(b) + i] = l[i]
  BY <1>23, <1>24, Zenon
<1>26. Len(res) \in Nat /\ c \in Seq(Pieces)
  BY <1>2, <1>25 DEF Continues
<1>27. Len(c) = (Len(res) + Len(z)) + 1 /\ Len(b) + 1 = Len(c) /\ 1 \in 1..Len(l)
  BY <1>12, <1>14, <1>20, <1>25, <1>26
<1>28. c[Len(c)].deal = {d}
  BY <1>14, <1>25, <1>27
<1>29. \A i \in 1..Len(res) : c[i] = res[i]
  <2>1. \A i \in 1..Len(res) : i \in 1..Len(b)
    BY <1>12, <1>20, <1>26
  <2>. QED
    BY <1>20, <1>25, <2>1
<1>30. \A i \in 1..Len(z) : c[Len(res) + i].deal = {}
  <2>1. \A i \in 1..Len(z) : Len(res) + i \in 1..Len(b)
    BY <1>12, <1>20, <1>26
  <2>. QED
    BY <1>12, <1>20, <1>25, <2>1
<1>31. HoldsToo(c, res, d)
  <2>1. PICK n \in Nat : n = Len(z)
    BY <1>12
  <2>2. Len(c) = (Len(res) + n) + 1 /\ \A i \in 1..n : c[Len(res) + i].deal = {}
    BY <1>27, <1>30, <2>1
  <2>3. /\ res \in Seq(Pieces) /\ c \in Seq(Pieces) /\ c[Len(c)].deal = {d}
        /\ \A i \in 1..Len(res) : c[i] = res[i]
    BY <1>2, <1>26, <1>28, <1>29
  <2>. QED
    <3>1. DealAdded(c, res, n, d)
      BY <2>2, <2>3 DEF DealAdded
    <3>. QED
      BY <3>1, OneMoreDeal, Zenon
<1>32. /\ SectorSize \in Nat /\ space \in Nat /\ s \in Nat /\ p \in Nat /\ T \in Nat
       /\ space <= SectorSize /\ T = (SectorSize - space) + s /\ (space - s) - p \in Nat
  BY <1>2, <1>3, <1>8, <1>9
<1>33. Total(c) = SectorSize - ((space - s) - p) /\ (space - s) - p <= SectorSize
  <2>1. Total(c) = T + p
    BY <1>14, <1>21, <1>25, Zenon
  <2>. QED
    <3>1. T + p = SectorSize - ((space - s) - p) /\ (space - s) - p <= SectorSize
      BY <1>32, SpaceLeft
    <3>. QED
      BY <2>1, <3>1, Zenon
<1>34. at + Unpadded(p) = 127 * (SectorSize - ((space - s) - p))
  <2>1. 127 * T + 127 * p = 127 * (SectorSize - ((space - s) - p))
    <3>1. T + p = SectorSize - ((space - s) - p)
      BY <1>32, SpaceLeft
    <3>2. PICK V \in Int : V = SectorSize - ((space - s) - p)
      BY <1>32
    <3>3. 127 * T + 127 * p = 127 * V
      BY <1>32, <3>1, <3>2
    <3>. QED
      BY <3>2, <3>3, Zenon
  <2>. QED
    BY <1>10, <2>1, Zenon DEF Unpadded
<1>35. c[Len(c)].deal # {}
  BY <1>28
<1>. QED
  BY <1>1, <1>9, <1>17, <1>25, <1>31, <1>33, <1>34, <1>35 DEF LaidOut

\* An order of ds: every deal once, none before one that it should follow.
InOrder(order, ds) ==
  /\ order \in Seq(ds)
  /\ \A i, j \in 1..Len(order) : i # j => order[i] # order[j]
  /\ \A d \in ds : \E i \in 1..Len(order) : order[i] = d
  /\ \A i, j \in 1..Len(order) : i < j => ~Before(order[j], order[i])

\* What sort.Slice returns is an order.
LEMMA SortedInOrder ==
  ASSUME NEW ds \in SUBSET Deals, NEW order \in Sorted(ds)
  PROVE  InOrder(order, ds)
<1>1. IsFiniteSet(ds) /\ Cardinality(ds) \in Nat
  BY DealAssignAssumption, FS_Subset, FS_CardinalityType
<1>2. PICK n \in Nat : n = Cardinality(ds)
  BY <1>1
<1>3. /\ order \in [1..n -> ds] /\ \A i, j \in 1..n : i # j => order[i] # order[j]
  BY <1>2 DEF Sorted, SetToSeqs
<1>4. order \in Seq(ds) /\ Len(order) = n /\ DOMAIN order = 1..n
  BY <1>3
<1>5. \A i, j \in 1..n : i < j => ~Before(order[j], order[i])
  BY <1>4 DEF Sorted
<1>6. \A d \in ds : \E i \in 1..n : order[i] = d
  <2>1. order \in Injection(1..n, ds)
    BY <1>3 DEF Injection, IsInjective
  <2>2. IsFiniteSet(1..n) /\ Cardinality(1..n) = n
    BY FS_Interval
  <2>3. order \in Surjection(1..n, ds)
    BY <1>1, <1>2, <2>1, <2>2, FS_Injection
  <2>. QED
    BY <2>3 DEF Surjection
<1>. QED
  BY <1>3, <1>4, <1>5, <1>6 DEF InOrder

\* One more deal of the order is laid out.
LEMMA HoldsMore ==
  ASSUME NEW ds, NEW order, InOrder(order, ds), NEW res, NEW deals, Holds(res, deals, order), deals < Len(order),
         NEW c, HoldsToo(c, res, order[deals + 1])
  PROVE  Holds(c, deals + 1, order)
<1>1. /\ deals \in 0..Len(order) /\ DealsIn(res) = {order[i] : i \in 1..deals}
      /\ IsFiniteSet(DealsIn(res)) /\ Cardinality(DealsIn(res)) = deals
      /\ IsFiniteSet(DealsAt(res)) /\ Cardinality(DealsAt(res)) = deals
  BY DEF Holds
<1>2. Len(order) \in Nat /\ deals \in Nat /\ deals + 1 \in 0..Len(order) /\ deals + 1 \in 1..Len(order)
  BY <1>1 DEF InOrder
<1>3. PICK d : d = order[deals + 1]
  OBVIOUS
<1>4. /\ DealsIn(c) = DealsIn(res) \cup {d}
      /\ DealsAt(c) = DealsAt(res) \cup {Len(c)} /\ Len(c) \notin DealsAt(res)
  BY <1>3 DEF HoldsToo
<1>5. d \notin DealsIn(res)
  <2>1. \A i \in 1..deals : i \in 1..Len(order) /\ i # deals + 1
    BY <1>2
  <2>2. \A i \in 1..deals : order[i] # d
    BY <1>2, <1>3, <2>1 DEF InOrder
  <2>. QED
    BY <1>1, <2>2
<1>6. DealsIn(c) = {order[i] : i \in 1..deals + 1}
  <2>1. 1..deals + 1 = (1..deals) \cup {deals + 1}
    BY <1>2
  <2>. QED
    BY <1>1, <1>3, <1>4, <2>1
<1>7. IsFiniteSet(DealsIn(c)) /\ Cardinality(DealsIn(c)) = deals + 1
  <2>1. PICK S : S = DealsIn(res)
    OBVIOUS
  <2>2. IsFiniteSet(S \cup {d}) /\ Cardinality(S \cup {d}) = Cardinality(S) + 1
    BY <1>1, <1>5, <2>1, FS_AddElement
  <2>. QED
    BY <1>1, <1>4, <2>1, <2>2
<1>8. IsFiniteSet(DealsAt(c)) /\ Cardinality(DealsAt(c)) = deals + 1
  <2>1. PICK S : S = DealsAt(res)
    OBVIOUS
  <2>2. PICK x : x = Len(c)
    OBVIOUS
  <2>3. IsFiniteSet(S \cup {x}) /\ Cardinality(S \cup {x}) = Cardinality(S) + 1
    BY <1>1, <1>4, <2>1, <2>2, FS_AddElement
  <2>. QED
    BY <1>1, <1>4, <2>1, <2>2, <2>3
<1>. QED
  BY <1>2, <1>6, <1>7, <1>8 DEF Holds

\* The record of the loop.
LoopRecord(acc, full, deals, used, space, offset, res) ==
  acc = [full |-> full, deals |-> deals, used |-> used, space |-> space, offset |-> offset, res |-> res]

\* What the loop of pickAndAlign has done after n turns.
LoopAt(acc, n, order, spec) ==
  \E full \in BOOLEAN : \E deals, used, space, offset, res :
    /\ LoopRecord(acc, full, deals, used, space, offset, res)
    /\ LaidOut(res, space, offset, spec) /\ Holds(res, deals, order)
    /\ Stopped(full, deals, space, n, order, spec)

\* Whether the loop ends.
Ends(spec, d, full, deals, space) ==
  full \/ (spec.MaxPiece > 0 /\ deals >= spec.MaxPiece) \/ PieceSize[d] > space

\* The loop ends with what it has placed.
LEMMA LoopEnds ==
  ASSUME NEW full, NEW deals, NEW used, NEW space, NEW offset, NEW res,
         NEW acc, LoopRecord(acc, full, deals, used, space, offset, res),
         NEW next, next = [acc EXCEPT !.full = TRUE]
  PROVE  LoopRecord(next, TRUE, deals, used, space, offset, res)
BY DEF LoopRecord

\* The next turn, for a deal that is placed and for one that is not.
LEMMA TurnIs ==
  ASSUME NEW spec, NEW d, NEW full \in BOOLEAN, NEW deals, NEW used, NEW space, NEW offset, NEW res,
         NEW acc, LoopRecord(acc, full, deals, used, space, offset, res),
         NEW z, NEW s, NEW at, NEW c, Adds(d, space, offset, res, z, s, at, c)
  PROVE  /\ Ends(spec, d, full, deals, space) =>
              LoopRecord(PlaceDeal(spec, acc, d), TRUE, deals, used, space, offset, res)
         /\ ~Ends(spec, d, full, deals, space) =>
              LoopRecord(PlaceDeal(spec, acc, d), FALSE, deals + 1, used + PieceSize[d],
                      (space - s) - PieceSize[d], at + Unpadded(PieceSize[d]), c)
<1>1. /\ acc.full = full /\ acc.deals = deals /\ acc.used = used /\ acc.space = space
      /\ acc.offset = offset /\ acc.res = res
  BY DEF LoopRecord
<1>2. PICK same : same = [acc EXCEPT !.full = TRUE]
  OBVIOUS
<1>3. LoopRecord(same, TRUE, deals, used, space, offset, res)
  BY <1>2, LoopEnds
<1>4. /\ z = Fillers(space, PieceSize[d]) /\ s = SumFunction(z) /\ at = offset + Unpadded(s)
      /\ c = (res \o [i \in DOMAIN z |-> ZeroPiece(z[i])])
               \o <<[deal |-> {d}, size |-> PieceSize[d], offset |-> Padded(at)]>>
  BY Zenon DEF Adds, ZerosOf
<1>5. PICK stop \in BOOLEAN : stop <=> Ends(spec, d, full, deals, space)
  OBVIOUS
<1>6. PlaceDeal(spec, acc, d) =
        IF full \/ (spec.MaxPiece > 0 /\ deals >= spec.MaxPiece) \/ PieceSize[d] > space
        THEN same
        ELSE [full |-> FALSE, deals |-> deals + 1, used |-> used + PieceSize[d],
              space |-> (space - s) - PieceSize[d], offset |-> at + Unpadded(PieceSize[d]), res |-> c]
  BY <1>1, <1>2, <1>4, Zenon DEF PlaceDeal
<1>7. PlaceDeal(spec, acc, d) =
        IF stop THEN same
        ELSE [full |-> FALSE, deals |-> deals + 1, used |-> used + PieceSize[d],
              space |-> (space - s) - PieceSize[d], offset |-> at + Unpadded(PieceSize[d]), res |-> c]
  BY <1>5, <1>6, Zenon DEF Ends
<1>8. CASE stop
  BY <1>3, <1>5, <1>7, <1>8, Zenon
<1>9. CASE ~stop
  BY <1>5, <1>7, <1>9, Zenon DEF LoopRecord
<1>. QED
  BY <1>8, <1>9

\* Why the loop ends at the deal d, which is next.
LEMMA TurnStops ==
  ASSUME NEW spec, spec.MaxPiece \in Int, NEW order, NEW n \in Nat, n + 1 \in 1..Len(order), Len(order) \in Nat,
         NEW full \in BOOLEAN, NEW deals, NEW space, Stopped(full, deals, space, n, order, spec),
         Ends(spec, order[n + 1], full, deals, space)
  PROVE  Stopped(TRUE, deals, space, n + 1, order, spec)
<1>1. /\ spec.MaxPiece > 0 => deals <= spec.MaxPiece
      /\ ~full => deals = n
      /\ full => \/ spec.MaxPiece > 0 /\ deals >= spec.MaxPiece
                 \/ deals < Len(order) /\ PieceSize[order[deals + 1]] > space
  BY DEF Stopped
<1>2. n < Len(order)
  OBVIOUS
<1>3. \/ spec.MaxPiece > 0 /\ deals >= spec.MaxPiece
      \/ deals < Len(order) /\ PieceSize[order[deals + 1]] > space
  BY <1>1, <1>2 DEF Ends
<1>. QED
  BY <1>1, <1>3 DEF Stopped

\* A turn that places the next deal goes on.
LEMMA TurnGoesOn ==
  ASSUME NEW spec, spec.MaxPiece \in Int, NEW order, NEW n \in Nat,
         NEW deals, NEW space, NEW left, Stopped(FALSE, deals, space, n, order, spec),
         ~(spec.MaxPiece > 0 /\ deals >= spec.MaxPiece)
  PROVE  Stopped(FALSE, deals + 1, left, n + 1, order, spec) /\ deals = n
<1>1. deals = n
  BY DEF Stopped
<1>2. spec.MaxPiece > 0 => deals + 1 <= spec.MaxPiece
  BY <1>1
<1>. QED
  BY <1>1, <1>2 DEF Stopped

\* A turn of the loop.
LEMMA Turn ==
  ASSUME NEW spec, spec.MaxPiece \in Int, NEW ds \in SUBSET Deals, \A d \in ds : WithinSpec(d, spec),
         NEW order, InOrder(order, ds), NEW n \in Nat, n + 1 \in 1..Len(order),
         NEW acc, LoopAt(acc, n, order, spec)
  PROVE  LoopAt(PlaceDeal(spec, acc, order[n + 1]), n + 1, order, spec)
<1>1. PICK full \in BOOLEAN : \E deals, used, space, offset, res :
    /\ LoopRecord(acc, full, deals, used, space, offset, res)
    /\ LaidOut(res, space, offset, spec) /\ Holds(res, deals, order)
    /\ Stopped(full, deals, space, n, order, spec)
  BY DEF LoopAt
<1>2. PICK deals, used, space, offset, res :
    /\ LoopRecord(acc, full, deals, used, space, offset, res)
    /\ LaidOut(res, space, offset, spec) /\ Holds(res, deals, order)
    /\ Stopped(full, deals, space, n, order, spec)
  BY <1>1
<1>3. PICK d : d = order[n + 1]
  OBVIOUS
<1>4. Len(order) \in Nat /\ d \in Deals /\ WithinSpec(d, spec)
  BY <1>3 DEF InOrder
<1>5. PICK z, s, at, c : Adds(d, space, offset, res, z, s, at, c)
  BY Zenon DEF Adds
<1>6. PICK next : next = PlaceDeal(spec, acc, d)
  OBVIOUS
<1>7. /\ Ends(spec, d, full, deals, space) => LoopRecord(next, TRUE, deals, used, space, offset, res)
      /\ ~Ends(spec, d, full, deals, space) =>
           LoopRecord(next, FALSE, deals + 1, used + PieceSize[d],
                   (space - s) - PieceSize[d], at + Unpadded(PieceSize[d]), c)
  BY <1>2, <1>5, <1>6, TurnIs, Zenon
<1>8. CASE Ends(spec, d, full, deals, space)
  <2>1. Stopped(TRUE, deals, space, n + 1, order, spec)
    BY <1>2, <1>3, <1>4, <1>8, TurnStops
  <2>2. LoopAt(next, n + 1, order, spec)
    BY <1>2, <1>7, <1>8, <2>1, Zenon DEF LoopAt
  <2>. QED
    BY <1>3, <1>6, <2>2, Zenon
<1>9. CASE ~Ends(spec, d, full, deals, space)
  <2>1. PICK left, end : left = (space - s) - PieceSize[d] /\ end = at + Unpadded(PieceSize[d])
    OBVIOUS
  <2>2. ~full /\ ~(spec.MaxPiece > 0 /\ deals >= spec.MaxPiece) /\ ~(PieceSize[d] > space)
    BY <1>9, Zenon DEF Ends
  <2>3. Stopped(FALSE, deals, space, n, order, spec)
    <3>1. full = FALSE
      BY <2>2
    <3>. QED
      BY <1>2, <3>1, Zenon
  <2>4. Stopped(FALSE, deals + 1, left, n + 1, order, spec)
    BY <2>2, <2>3, TurnGoesOn
  <2>5. PieceSize[d] <= space
    <3>1. space \in Nat /\ PieceSize[d] \in Nat
      BY <1>2, <1>4, SizesAre, DealAssignAssumption DEF LaidOut
    <3>. QED
      BY <2>2, <3>1
  <2>6. LaidOut(c, left, end, spec) /\ HoldsToo(c, res, d)
    <3>1. /\ LaidOut(c, (space - s) - PieceSize[d], at + Unpadded(PieceSize[d]), spec)
          /\ HoldsToo(c, res, d)
      BY <1>2, <1>4, <1>5, <2>5, DealLaidOut, Zenon
    <3>. QED
      BY <2>1, <3>1, Zenon
  <2>7. Holds(c, deals + 1, order)
    <3>0. deals = n
      BY <2>3 DEF Stopped
    <3>1. deals < Len(order) /\ d = order[deals + 1]
      BY <1>3, <1>4, <3>0
    <3>2. HoldsToo(c, res, order[deals + 1])
      BY <2>6, <3>1, Zenon
    <3>. QED
      BY <1>2, <3>1, <3>2, HoldsMore
  <2>8. LoopAt(next, n + 1, order, spec)
    BY <1>7, <1>9, <2>1, <2>4, <2>6, <2>7, Zenon DEF LoopAt
  <2>. QED
    BY <1>3, <1>6, <2>8, Zenon
<1>. QED
  BY <1>8, <1>9

\* The loop over all deals of the order.
LEMMA LoopLaysOut ==
  ASSUME NEW spec, spec.MaxPiece \in Int, NEW ds \in SUBSET Deals, \A d \in ds : WithinSpec(d, spec),
         NEW order, InOrder(order, ds)
  PROVE  LoopAt(PlaceDeals(order, spec), Len(order), order, spec)
<1>1. PICK n : n = Len(order)
  OBVIOUS
<1>2. n \in Nat
  BY <1>1 DEF InOrder
<1>3. PICK g : g = CHOOSE k : LoopTo(k, n, order, spec)
  OBVIOUS
<1>4. LoopTo(g, n, order, spec)
  BY <1>2, <1>3, LoopExists
<1>5. \A i \in 0..n : g[i] = IF i = 0 THEN NothingPlaced ELSE PlaceDeal(spec, g[i - 1], order[i])
  BY <1>4 DEF LoopTo
<1>. DEFINE Wrong == {i \in 0..n : ~LoopAt(g[i], i, order, spec)}
<1>6. 0 \notin Wrong
  <2>1. 0 \in 0..n /\ SectorSize \in Nat
    BY <1>2, SizesAre, DealAssignAssumption
  <2>2. g[0] = NothingPlaced
    BY <1>5, <2>1
  <2>3. PICK l : l = <<>>
    OBVIOUS
  <2>4. l \in Seq(Pieces) /\ Len(l) = 0 /\ DOMAIN l = {}
    BY <2>3
  <2>5. Total(l) = 0 /\ Continues(l, 0, spec)
    <3>1. StartOf(l, 1) = 0
      BY <2>4, Starts
    <3>. QED
      BY <2>4, <3>1 DEF Total, Continues
  <2>6. LaidOut(l, SectorSize, 0, spec)
    BY <2>1, <2>4, <2>5 DEF LaidOut
  <2>7. DealsIn(l) = {} /\ DealsAt(l) = {} /\ {order[i] : i \in 1..0} = {}
    BY <2>4 DEF DealsIn, DealsAt
  <2>8. Holds(l, 0, order)
    BY <1>1, <2>1, <2>7, FS_EmptySet DEF Holds
  <2>9. Stopped(FALSE, 0, SectorSize, 0, order, spec)
    BY DEF Stopped
  <2>10. LoopRecord(NothingPlaced, FALSE, 0, 0, SectorSize, 0, l)
    BY <2>3 DEF NothingPlaced, LoopRecord
  <2>11. LoopAt(NothingPlaced, 0, order, spec)
    BY <2>6, <2>8, <2>9, <2>10, Zenon DEF LoopAt
  <2>. QED
    BY <2>2, <2>11
<1>7. Wrong = {}
  <2>. SUFFICES ASSUME Wrong # {} PROVE FALSE
    OBVIOUS
  <2>1. Wrong \subseteq Nat /\ Wrong \subseteq 0..n
    BY <1>2
  <2>2. PICK i \in Wrong : \A j \in Wrong : ~(j < i)
    <3>. HIDE DEF Wrong
    <3>. QED
      BY <2>1, LeastNatural
  <2>3. i \in 1..n /\ i - 1 \in 0..n /\ i - 1 \notin Wrong
    <3>. HIDE DEF Wrong
    <3>. QED
      BY <1>2, <1>6, <2>1, <2>2
  <2>4. PICK j \in Nat : j = i - 1
    BY <1>2, <2>3
  <2>5. LoopAt(g[j], j, order, spec) /\ i = j + 1 /\ j + 1 \in 1..Len(order) /\ i # 0 /\ i \in 0..n
    BY <1>1, <1>2, <2>3, <2>4
  <2>6. g[i] = PlaceDeal(spec, g[j], order[j + 1])
    BY <1>5, <2>4, <2>5
  <2>7. LoopAt(PlaceDeal(spec, g[j], order[j + 1]), j + 1, order, spec)
    BY <2>5, Turn
  <2>8. LoopAt(g[i], i, order, spec)
    BY <2>5, <2>6, <2>7, Zenon
  <2>. QED
    BY <2>8
<1>8. LoopAt(g[n], n, order, spec)
  BY <1>2, <1>7
<1>9. PlaceDeals(order, spec) = g[n]
  BY <1>1, <1>3, LoopResult, Zenon
<1>. QED
  BY <1>1, <1>8, <1>9, Zenon

\* A number below p.
LEMMA SmallMod ==
  ASSUME NEW p \in Nat \ {0}, NEW n \in 0..p - 1
  PROVE  n % p = n
<1>1. n = 0 * p + n /\ n \in Int
  OBVIOUS
<1>. QED
  BY <1>1, DivModIs

\* The zero pieces behind the last deal take what space is left.
LEMMA RestFilled ==
  ASSUME NEW space \in Nat, space <= SectorSize, NEW z, z = Fillers(space, Pow2[MaxBit + 1])
  PROVE  Filling(z, space) /\ FirstSum(z, Len(z)) = space
<1>1. PICK j \in 0..MaxBit : SectorSize = Pow2[j]
  BY DealAssignAssumption DEF Sizes
<1>2. j \in 0..MaxBit + 1 /\ MaxBit + 1 \in 0..MaxBit + 1 /\ j < MaxBit + 1
  BY DealAssignAssumption
<1>3. PICK p \in Nat \ {0} : p = Pow2[MaxBit + 1]
  BY <1>2, Powers
<1>4. SectorSize < p /\ SectorSize \in Nat
  BY <1>1, <1>2, <1>3, PowOrder, Powers
<1>5. space \in 0..p - 1
  BY <1>4
<1>6. space % p = space
  BY <1>5, SmallMod
<1>7. Filling(z, space) /\ FirstSum(z, Len(z)) = space % Pow2[MaxBit + 1]
  BY <1>2, FillersFill
<1>. QED
  BY <1>3, <1>6, <1>7, Zenon

\* What pickAndAlign makes of the loop's result.
Completed(l, spec, deals, space, res) ==
  \/ l = <<>>
  \/ /\ res # <<>> /\ l = res \o ZerosOf(Fillers(space, Pow2[MaxBit + 1]))
     /\ spec.MinPiece > 0 => ~(deals < spec.MinPiece)

\* pickAndAlign completes what the loop has laid out.
LEMMA PickIs ==
  ASSUME NEW spec, NEW order, NEW full, NEW deals, NEW used, NEW space, NEW offset, NEW res,
         LoopRecord(PlaceDeals(order, spec), full, deals, used, space, offset, res)
  PROVE  Completed(pickAndAlign(order, spec), spec, deals, space, res)
<1>1. PICK out : out = PlaceDeals(order, spec)
  OBVIOUS
<1>2. LoopRecord(out, full, deals, used, space, offset, res)
  BY <1>1, Zenon
<1>3. out.deals = deals /\ out.space = space /\ out.res = res /\ out.used = used
  BY <1>2 DEF LoopRecord
<1>4. PICK l : l = pickAndAlign(order, spec)
  OBVIOUS
<1>5. PICK y : y = ZerosOf(Fillers(space, Pow2[MaxBit + 1]))
  OBVIOUS
<1>6. l = IF \/ res = <<>>
             \/ spec.MinPiece > 0 /\ deals < spec.MinPiece
             \/ spec.MinUsedSpace > 0 /\ used < spec.MinUsedSpace
          THEN <<>> ELSE res \o y
  BY <1>1, <1>3, <1>4, <1>5, Zenon DEF pickAndAlign, ZerosOf
<1>7. PICK none \in BOOLEAN : none <=> (\/ res = <<>>
                                        \/ spec.MinPiece > 0 /\ deals < spec.MinPiece
                                        \/ spec.MinUsedSpace > 0 /\ used < spec.MinUsedSpace)
  OBVIOUS
<1>8. l = IF none THEN <<>> ELSE res \o y
  BY <1>6, <1>7, Zenon
<1>9. CASE none
  BY <1>4, <1>8, <1>9, Zenon DEF Completed
<1>10. CASE ~none
  <2>1. l = res \o y
    BY <1>8, <1>10, Zenon
  <2>2. res # <<>> /\ ~(spec.MinPiece > 0 /\ deals < spec.MinPiece)
    BY <1>7, <1>10, Zenon
  <2>. QED
    BY <1>4, <1>5, <2>1, <2>2, Zenon DEF Completed
<1>. QED
  BY <1>9, <1>10

\* l is res and zero pieces to the end of the sector.
FilledUp(l, res, spec) ==
  /\ Continues(l, 0, spec) /\ Total(l) = SectorSize /\ HoldsSame(l, res)
  /\ Len(l) >= Len(res) /\ \A i \in 1..Len(res) : l[i] = res[i]

\* A layout completed by zero pieces fills the sector.
LEMMA CompletedFills ==
  ASSUME NEW spec, NEW res, NEW space, NEW offset, LaidOut(res, space, offset, spec),
         NEW y, y = ZerosOf(Fillers(space, Pow2[MaxBit + 1])), NEW l, l = res \o y
  PROVE  FilledUp(l, res, spec)
<1>1. /\ Continues(res, 0, spec) /\ space \in Nat /\ space <= SectorSize
      /\ Total(res) = SectorSize - space /\ res \in Seq(Pieces) /\ Len(res) \in Nat
  BY DEF LaidOut, Continues
<1>2. SectorSize \in Nat
  BY SizesAre, DealAssignAssumption
<1>3. PICK z : z = Fillers(space, Pow2[MaxBit + 1])
  OBVIOUS
<1>4. Filling(z, space) /\ FirstSum(z, Len(z)) = space
  BY <1>1, <1>3, RestFilled
<1>5. y = ZerosOf(z)
  BY <1>3, Zenon
<1>6. /\ Continues(y, SectorSize - space, spec) /\ Total(y) = space
      /\ Len(y) = Len(z) /\ Len(z) \in Nat /\ \A i \in 1..Len(z) : y[i].deal = {}
  <2>1. Len(z) \in Nat
    BY <1>4 DEF Filling
  <2>. QED
    BY <1>1, <1>4, <1>5, <2>1, ZerosContinue
<1>7. PICK U, Z \in Nat : U = SectorSize - space /\ Z = 0 /\ U = Z + Total(res)
  BY <1>1, <1>2
<1>8. Continues(res, Z, spec) /\ Continues(y, U, spec)
  BY <1>1, <1>6, <1>7, Zenon
<1>9. Continues(res \o y, Z, spec)
  BY <1>7, <1>8, ConcatContinues
<1>10. Total(res \o y) = Total(res) + Total(y)
  BY <1>7, <1>8, ConcatContinues
<1>11. Len(res \o y) = Len(res) + Len(y)
  BY <1>7, <1>8, ConcatContinues
<1>12. \A i \in 1..Len(res) : (res \o y)[i] = res[i]
  BY <1>7, <1>8, ConcatContinues
<1>13. \A i \in 1..Len(y) : (res \o y)[Len(res) + i] = y[i]
  BY <1>7, <1>8, ConcatContinues
<1>14. /\ Continues(l, Z, spec) /\ Total(l) = Total(res) + Total(y) /\ Len(l) = Len(res) + Len(y)
       /\ \A i \in 1..Len(res) : l[i] = res[i]
       /\ \A i \in 1..Len(y) : l[Len(res) + i] = y[i]
  BY <1>9, <1>10, <1>11, <1>12, <1>13, Zenon
<1>15. ZerosAdded(l, res, Len(z))
  <2>1. l \in Seq(Pieces)
    BY <1>14 DEF Continues
  <2>. QED
    BY <1>1, <1>6, <1>14, <2>1 DEF ZerosAdded
<1>16. HoldsSame(l, res)
  BY <1>15, NoMoreDeals, Zenon
<1>17. Total(l) = SectorSize /\ Len(l) >= Len(res)
  BY <1>1, <1>2, <1>6, <1>14
<1>. QED
  <2>1. Continues(l, 0, spec)
    BY <1>7, <1>14, Zenon
  <2>. QED
    BY <1>14, <1>16, <1>17, <2>1, Zenon DEF FilledUp

\* The last deal of a layout.
LastDeal(l) == CHOOSE i \in DOMAIN l : l[i].deal # {} /\ \A j \in i + 1..Len(l) : l[j].deal = {}

\* The space behind the last deal is the one that the loop left.
LEMMA SpaceBehind ==
  ASSUME NEW spec, NEW res, NEW space, NEW offset, LaidOut(res, space, offset, spec), Len(res) > 0,
         NEW l \in Seq(Pieces), HoldsSame(l, res), Len(l) >= Len(res), \A i \in 1..Len(res) : l[i] = res[i]
  PROVE  (SectorSize - StartOf(l, LastDeal(l))) - l[LastDeal(l)].size = space
<1>1. /\ space \in Nat /\ Total(res) = SectorSize - space /\ res \in Seq(Pieces) /\ Len(res) \in Nat
      /\ res[Len(res)].deal # {}
  BY DEF LaidOut, Continues
<1>2. SectorSize \in Nat
  BY SizesAre, DealAssignAssumption
<1>3. Len(l) \in Nat /\ DOMAIN l = 1..Len(l) /\ DOMAIN res = 1..Len(res)
  BY <1>1
<1>4. PICK k \in 1..Len(l) : k = Len(res)
  <2>1. Len(res) \in 1..Len(l)
    BY <1>1, <1>3
  <2>. QED
    BY <2>1
<1>5. l[k].deal # {} /\ \A j \in k + 1..Len(l) : l[j].deal = {}
  <2>1. k \in 1..Len(res)
    BY <1>1, <1>4
  <2>2. \A j \in k + 1..Len(l) : j \in 1..Len(l) /\ j \notin 1..Len(res)
    BY <1>1, <1>3, <1>4
  <2>. QED
    BY <1>1, <1>4, <2>1, <2>2 DEF HoldsSame
<1>6. ASSUME NEW i \in 1..Len(l), l[i].deal # {}, \A j \in i + 1..Len(l) : l[j].deal = {}
      PROVE  i = k
  <2>1. ~(k \in i + 1..Len(l)) /\ ~(i \in k + 1..Len(l))
    BY <1>5, <1>6
  <2>. QED
    BY <1>3, <2>1
<1>7. LastDeal(l) = k
  BY <1>3, <1>5, <1>6 DEF LastDeal
<1>8. StartOf(l, k + 1) = StartOf(l, k) + l[k].size /\ StartOf(l, k) \in Nat
  <2>1. k \in 1..Len(l) + 1
    BY <1>3
  <2>. QED
    BY <2>1, Starts
<1>9. l[k].size \in Nat
  <2>1. l[k] \in Pieces
    BY <1>3
  <2>. QED
    BY <2>1, SizesAre DEF Pieces
<1>10. StartOf(l, k + 1) = StartOf(res, k + 1)
  <2>1. k \in Nat /\ 1..k \subseteq DOMAIN l /\ 1..k \subseteq DOMAIN res /\ \A j \in 1..k : l[j] = res[j]
    BY <1>1, <1>3, <1>4
  <2>. QED
    BY <2>1, SameStarts
<1>11. StartOf(l, k) + l[k].size = SectorSize - space
  BY <1>1, <1>4, <1>8, <1>10 DEF Total
<1>12. (SectorSize - StartOf(l, k)) - l[k].size = space
  <2>1. PICK a \in Nat, b \in Nat : a = StartOf(l, k) /\ b = l[k].size
    BY <1>8, <1>9
  <2>2. a + b = SectorSize - space
    BY <1>11, <2>1, Zenon
  <2>3. (SectorSize - a) - b = space
    BY <1>1, <1>2, <2>2
  <2>. QED
    BY <2>1, <2>3, Zenon
<1>. QED
  BY <1>7, <1>12, Zenon

\* The sealer wants no more deals, or no deal of ds fits that was left out.
NoneFits(spec, ds, deals, space, res) ==
  /\ spec.MaxPiece > 0 => deals <= spec.MaxPiece
  /\ deals = spec.MaxPiece \/ \A d \in ds \ DealsIn(res) : PieceSize[d] > space

\* A deal that the loop left out is as large as the one at which it ended.
LEMMA LeftOut ==
  ASSUME NEW spec, spec.MaxPiece \in Int, NEW ds \in SUBSET Deals, NEW order, InOrder(order, ds),
         NEW full \in BOOLEAN, NEW deals, NEW space \in Nat, NEW res, Holds(res, deals, order),
         Stopped(full, deals, space, Len(order), order, spec)
  PROVE  NoneFits(spec, ds, deals, space, res)
<1>1. /\ spec.MaxPiece > 0 => deals <= spec.MaxPiece
      /\ ~full => deals = Len(order)
      /\ full => \/ spec.MaxPiece > 0 /\ deals >= spec.MaxPiece
                 \/ deals < Len(order) /\ PieceSize[order[deals + 1]] > space
  BY DEF Stopped
<1>2. /\ deals \in 0..Len(order) /\ DealsIn(res) = {order[i] : i \in 1..deals} /\ Len(order) \in Nat
      /\ \A i \in 1..Len(order) : order[i] \in ds
  BY DEF Holds, InOrder
<1>3. ASSUME NEW d \in ds \ DealsIn(res), deals # spec.MaxPiece PROVE PieceSize[d] > space
  <2>1. PICK j \in 1..Len(order) : order[j] = d
    BY DEF InOrder
  <2>2. j \notin 1..deals
    BY <1>2, <1>3, <2>1
  <2>3. deals < Len(order) /\ j >= deals + 1
    BY <1>2, <2>1, <2>2
  <2>4. PieceSize[order[deals + 1]] > space
    BY <1>1, <1>2, <1>3, <2>3
  <2>5. PICK e \in Deals : e = order[deals + 1] /\ deals + 1 \in 1..Len(order)
    BY <1>2, <2>3
  <2>6. ~(PieceSize[d] < PieceSize[e])
    <3>1. CASE j = deals + 1
      <4>1. d = e
        BY <2>1, <2>5, <3>1, Zenon
      <4>2. PieceSize[d] \in Nat
        BY SizesAre, DealAssignAssumption
      <4>. QED
        BY <4>1, <4>2
    <3>2. CASE deals + 1 < j
      <4>1. ~Before(order[j], order[deals + 1])
        BY <2>5, <3>2 DEF InOrder
      <4>2. ~Before(d, e)
        BY <2>1, <2>5, <4>1
      <4>. QED
        BY <4>2 DEF Before
    <3>. QED
      BY <1>2, <2>3, <3>1, <3>2
  <2>7. PieceSize[d] \in Nat /\ PieceSize[e] \in Nat
    BY <2>5, SizesAre, DealAssignAssumption
  <2>. QED
    BY <2>4, <2>5, <2>6, <2>7
<1>. QED
  BY <1>1, <1>3 DEF NoneFits

\* pickAndAlign returns nothing, or a layout of the deals in the order that
\* fills the sector.
LEMMA PickFills ==
  ASSUME NEW spec, spec.MaxPiece \in Int, spec.MinPiece \in Int,
         NEW ds \in SUBSET Deals, \A d \in ds : WithinSpec(d, spec), NEW order, InOrder(order, ds),
         NEW from, \A d \in from : WithinSpec(d, spec) => d \in ds,
         NEW l, l = pickAndAlign(order, spec), l # <<>>
  PROVE  FillsSector(l, spec, from) /\ DealsIn(l) \subseteq ds
<1>1. PICK full \in BOOLEAN : \E deals, used, space, offset, res :
    /\ LoopRecord(PlaceDeals(order, spec), full, deals, used, space, offset, res)
    /\ LaidOut(res, space, offset, spec) /\ Holds(res, deals, order)
    /\ Stopped(full, deals, space, Len(order), order, spec)
  BY LoopLaysOut DEF LoopAt
<1>2. PICK deals, used, space, offset, res :
    /\ LoopRecord(PlaceDeals(order, spec), full, deals, used, space, offset, res)
    /\ LaidOut(res, space, offset, spec) /\ Holds(res, deals, order)
    /\ Stopped(full, deals, space, Len(order), order, spec)
  BY <1>1
<1>3. Completed(l, spec, deals, space, res)
  BY <1>2, PickIs, Zenon
<1>4. PICK y : y = ZerosOf(Fillers(space, Pow2[MaxBit + 1]))
  OBVIOUS
<1>5. l = res \o y /\ res # <<>> /\ (spec.MinPiece > 0 => ~(deals < spec.MinPiece))
  BY <1>3, <1>4, Zenon DEF Completed
<1>6. /\ Continues(l, 0, spec) /\ Total(l) = SectorSize /\ HoldsSame(l, res)
      /\ Len(l) >= Len(res) /\ \A i \in 1..Len(res) : l[i] = res[i]
  <2>1. FilledUp(l, res, spec)
    BY <1>2, <1>4, <1>5, CompletedFills, Zenon
  <2>. QED
    BY <2>1, Zenon DEF FilledUp
<1>7. l \in Seq(Pieces) /\ DOMAIN l = 1..Len(l) /\ space \in Nat /\ res \in Seq(Pieces) /\ Len(res) > 0
  BY <1>2, <1>5, <1>6 DEF Continues, LaidOut
<1>8. PICK last : last = LastDeal(l)
  OBVIOUS
<1>9. PICK free : free = (SectorSize - StartOf(l, last)) - l[last].size
  OBVIOUS
<1>10. free = space
  <2>1. (SectorSize - StartOf(l, LastDeal(l))) - l[LastDeal(l)].size = space
    BY <1>2, <1>6, <1>7, SpaceBehind, Zenon
  <2>. QED
    BY <1>8, <1>9, <2>1, Zenon
<1>11. PICK n : n = Cardinality(DealsIn(l))
  OBVIOUS
<1>12. DealsIn(l) = DealsIn(res) /\ DealsAt(l) = DealsAt(res)
  BY <1>6 DEF HoldsSame
<1>13. n = deals /\ Cardinality(DealsAt(l)) = deals /\ deals \in 0..Len(order) /\ Len(order) \in Nat
       /\ DealsIn(res) = {order[i] : i \in 1..deals}
  <2>1. Len(order) \in Nat
    BY DEF InOrder
  <2>. QED
    BY <1>2, <1>11, <1>12, <2>1 DEF Holds
<1>14. /\ spec.MaxPiece > 0 => n <= spec.MaxPiece
       /\ n = spec.MaxPiece \/ \A d \in ds \ DealsIn(l) : PieceSize[d] > free
  <2>1. /\ spec.MaxPiece > 0 => deals <= spec.MaxPiece
        /\ deals = spec.MaxPiece \/ \A d \in ds \ DealsIn(res) : PieceSize[d] > space
    <3>1. NoneFits(spec, ds, deals, space, res)
      BY <1>2, <1>7, LeftOut
    <3>. QED
      BY <3>1, Zenon DEF NoneFits
  <2>. QED
    BY <1>10, <1>12, <1>13, <2>1, Zenon
<1>15. spec.MinPiece > 0 => n >= spec.MinPiece
  BY <1>5, <1>13
<1>16. n = spec.MaxPiece \/ \A d \in from \ DealsIn(l) : WithinSpec(d, spec) => PieceSize[d] > free
  BY <1>14
<1>17. n = Cardinality({i \in DOMAIN l : l[i].deal # {}})
  BY <1>7, <1>13 DEF DealsAt
<1>18. ASSUME NEW i \in DOMAIN l
       PROVE  /\ StartOf(l, i) % l[i].size = 0
              /\ l[i].deal # {} => l[i].offset = StartOf(l, i)
              /\ \A d \in l[i].deal : WithinSpec(d, spec) /\ l[i].size = PieceSize[d]
  <2>1. /\ (0 + StartOf(l, i)) % l[i].size = 0
        /\ \A d \in l[i].deal : /\ l[i].deal = {d} /\ l[i].size = PieceSize[d] /\ WithinSpec(d, spec)
                                /\ l[i].offset = 0 + StartOf(l, i)
    BY <1>6, <1>7 DEF Continues
  <2>2. 0 + StartOf(l, i) = StartOf(l, i)
    <3>1. i \in 1..Len(l) + 1
      BY <1>7
    <3>2. StartOf(l, i) \in Nat
      BY <1>7, <3>1, Starts
    <3>. QED
      BY <3>2
  <2>. QED
    BY <2>1, <2>2
<1>19. StartOf(l, Len(l) + 1) = SectorSize
  BY <1>6 DEF Total
<1>20. FillsSector(l, spec, from)
  BY <1>8, <1>9, <1>11, <1>14, <1>15, <1>16, <1>17, <1>18, <1>19, Zenon DEF FillsSector, LastDeal
<1>21. DealsIn(l) \subseteq ds
  <2>1. \A i \in 1..deals : i \in 1..Len(order)
    BY <1>13
  <2>2. \A i \in 1..Len(order) : order[i] \in ds
    BY DEF InOrder
  <2>. QED
    BY <1>12, <1>13, <2>1, <2>2
<1>. QED
  BY <1>20, <1>21

-----------------------------------------------------------------------------
(* A deal goes to one sector.                                                *)

\* The layouts a call can compute and the offsets in them: whatever these are,
\* a record has the offset of the layout that it was saved from.
Orders(spec) == UNION {Sorted(ds) : ds \in SUBSET {d \in Deals : WithinSpec(d, spec)}}
Layouts == (UNION {{pickAndAlign(order, spec) : order \in Orders(spec)} : spec \in Specs}) \cup {<<>>}
Offsets == {OffsetOf(l, d) : l \in Layouts, d \in Deals} \cup {0}

Record == [id : BOOLEAN, cid : BOOLEAN, ended : BOOLEAN, status : Statuses,
           sector : Sectors \cup {NoSector}, offset : Offsets]
Request == [pc : {"idle", "saving"}, spec : Specs \cup {NoRequest.spec}, snap : [Deals -> Record],
            layout : Layouts, todo : SUBSET Deals]
Edit == [pc : {"idle", "read"}, deal : Deals \cup {NoEdit.deal}, kind : EditKinds, status : Statuses,
         sector : Sectors \cup {NoSector}, copy : Record]

AssignShape ==
  /\ rec \in [Deals -> Record] /\ req \in [Sectors -> Request] /\ edit \in [DealEditors -> Edit]
  /\ \A h \in handed : h.layout \in Layouts

\* The deal was never saved from a stale copy, nor moved by a caller.
Clean(d) == d \notin raced \cup reset

\* The record of d names the sector s and its place in the layout l.
Names(d, s, l) ==
  rec[d].id /\ rec[d].status # "Undefine" /\ rec[d].sector = s /\ rec[d].offset = OffsetOf(l, d)

\* The deals that the running call for s has saved.
Taken(s) == IF req[s].pc = "saving" THEN DealsIn(req[s].layout) \ req[s].todo ELSE {}

HandedNamed == \A h \in handed : \A d \in DealsIn(h.layout) : Clean(d) => Names(d, h.sector, h.layout)
TakenNamed == \A s \in Sectors : \A d \in Taken(s) : Clean(d) => Names(d, s, req[s].layout)

\* A deal that a call has still to save was free when the call read it.
TodoRead ==
  \A s \in Sectors : \A d \in req[s].todo :
    d \in DealsIn(req[s].layout) /\ req[s].snap[d].status = "Undefine" /\ req[s].snap[d].id
    /\ (Clean(d) => rec[d].id)

\* Nobody shares a deal.
HandedOnce == \A g, h \in handed : \A d \in DealsIn(g.layout) \cap DealsIn(h.layout) : Clean(d) => g = h
TakenOnce == \A s, t \in Sectors : \A d \in Taken(s) \cap Taken(t) : Clean(d) => s = t
TakenOrHanded == \A s \in Sectors : \A h \in handed : \A d \in Taken(s) \cap DealsIn(h.layout) : ~Clean(d)

\* The tracker never marks a deal unpacked.
TrackPacks == \A e \in DealEditors : edit[e].kind = "track" => edit[e].status # "Undefine"

PackInv ==
  /\ AssignShape /\ HandedNamed /\ TakenNamed /\ TodoRead
  /\ HandedOnce /\ TakenOnce /\ TakenOrHanded /\ TrackPacks

\* An empty layout has no deals.
LEMMA EmptyLayout == ASSUME NEW l, l = <<>> PROVE DealsIn(l) = {}
<1>1. DOMAIN l = {}
  OBVIOUS
<1>. QED
  BY <1>1 DEF DealsIn

\* pickAndAlign lays out only deals that it was given.
LEMMA PickedFrom ==
  ASSUME NEW spec \in Specs, NEW ds \in SUBSET Deals, \A d \in ds : WithinSpec(d, spec),
         NEW order \in Sorted(ds), NEW l, l = pickAndAlign(order, spec)
  PROVE  l \in Layouts /\ DealsIn(l) \subseteq ds
<1>1. order \in Orders(spec)
  BY DEF Orders
<1>2. l \in Layouts
  BY <1>1 DEF Layouts
<1>3. CASE l = <<>>
  BY <1>2, <1>3, EmptyLayout
<1>4. CASE l # <<>>
  <2>1. spec.MaxPiece \in Int /\ spec.MinPiece \in Int /\ InOrder(order, ds)
    BY DealAssignAssumption, SortedInOrder
  <2>. QED
    BY <1>2, <1>4, <2>1, PickFills
<1>. QED
  BY <1>3, <1>4

\* The deals of a layout are deals.
LEMMA LayoutDeals == ASSUME NEW l \in Layouts PROVE DealsIn(l) \subseteq Deals
<1>1. CASE l = <<>>
  BY <1>1, EmptyLayout
<1>2. CASE \E spec \in Specs : \E order \in Orders(spec) : l = pickAndAlign(order, spec)
  <2>1. PICK spec \in Specs : \E order \in Orders(spec) : l = pickAndAlign(order, spec)
    BY <1>2
  <2>2. PICK order \in Orders(spec) : l = pickAndAlign(order, spec)
    BY <2>1
  <2>3. PICK ds \in SUBSET {d \in Deals : WithinSpec(d, spec)} : order \in Sorted(ds)
    BY DEF Orders
  <2>4. DealsIn(l) \subseteq ds
    BY <2>2, <2>3, PickedFrom
  <2>. QED
    BY <2>3, <2>4
<1>. QED
  BY <1>1, <1>2 DEF Layouts

\* Records, requests and edits at rest.
LEMMA RestTypes == NewDeal \in Record /\ NoRequest \in Request /\ NoEdit \in Edit
<1>1. NewDeal \in Record
  BY DEF NewDeal, Record, Statuses, Offsets
<1>2. NoRequest \in Request
  BY <1>1 DEF NoRequest, Request, Layouts
<1>3. NoEdit \in Edit
  BY <1>1 DEF NoEdit, Edit, Statuses, EditKinds
<1>. QED
  BY <1>1, <1>2, <1>3

\* A step that leaves the calls and what was handed out alone: a record that is
\* still clean afterwards stays published, assigned and where it was.
LEMMA RecordsMove ==
  ASSUME PackInv, AssignShape', UNCHANGED <<req, handed>>, TrackPacks',
         raced \subseteq raced', reset \subseteq reset',
         \A d \in Deals : Clean(d)' /\ rec[d].id =>
           /\ rec'[d].id
           /\ rec[d].status # "Undefine" => /\ rec'[d].status # "Undefine"
                                            /\ rec'[d].sector = rec[d].sector /\ rec'[d].offset = rec[d].offset
  PROVE  PackInv'
<1>1. \A d : Clean(d)' => Clean(d)
  BY DEF Clean
<1>2. \A s \in Sectors : Taken(s)' = Taken(s) /\ Taken(s) \subseteq DealsIn(req[s].layout)
  BY DEF Taken
<1>3. /\ \A h \in handed : DealsIn(h.layout) \subseteq Deals
      /\ \A s \in Sectors : DealsIn(req[s].layout) \subseteq Deals /\ req[s].todo \subseteq Deals
  BY LayoutDeals DEF PackInv, AssignShape, Request
<1>4. ASSUME NEW d \in Deals, NEW s, NEW l, Names(d, s, l), Clean(d)'
      PROVE  Names(d, s, l)'
  BY <1>4 DEF Names
<1>5. HandedNamed'
  BY <1>1, <1>3, <1>4 DEF PackInv, HandedNamed
<1>6. TakenNamed'
  BY <1>1, <1>2, <1>3, <1>4 DEF PackInv, TakenNamed
<1>7. TodoRead'
  BY <1>1, <1>3 DEF PackInv, TodoRead
<1>8. HandedOnce' /\ TakenOnce' /\ TakenOrHanded'
  BY <1>1, <1>2 DEF PackInv, HandedOnce, TakenOnce, TakenOrHanded
<1>. QED
  BY <1>5, <1>6, <1>7, <1>8 DEF PackInv

\* The record that a call saves.
LEMMA AssignedRecordType ==
  ASSUME AssignShape, NEW s \in Sectors, NEW r \in Record, NEW d \in Deals
  PROVE  /\ AssignedRecord(s, r, d) \in Record
         /\ AssignedRecord(s, r, d).id = r.id /\ AssignedRecord(s, r, d).status = "Assigned"
         /\ AssignedRecord(s, r, d).sector = s /\ AssignedRecord(s, r, d).offset = OffsetOf(req[s].layout, d)
<1>1. req[s].layout \in Layouts
  BY DEF AssignShape, Request
<1>2. PICK o : o = OffsetOf(req[s].layout, d)
  OBVIOUS
<1>3. o \in Offsets
  BY <1>1, <1>2 DEF Offsets
<1>4. PICK q : q = AssignedRecord(s, r, d)
  OBVIOUS
<1>5. q = [r EXCEPT !.status = "Assigned", !.offset = o, !.sector = s]
  BY <1>2, <1>4, Zenon DEF AssignedRecord
<1>6. q \in Record /\ q.id = r.id /\ q.status = "Assigned" /\ q.sector = s /\ q.offset = o
  BY <1>3, <1>5 DEF Record, Statuses
<1>. QED
  BY <1>2, <1>4, <1>6

\* The call for s saves the deals of D: one that stays clean was free.
LEMMA DealsSaved ==
  ASSUME PackInv, AssignShape', NEW s \in Sectors, NEW D \in SUBSET req[s].todo, req[s].pc = "saving",
         UNCHANGED <<edit, handed, reset>>, raced \subseteq raced',
         req' = [req EXCEPT ![s].todo = req[s].todo \ D],
         \A d \in Deals \ D : rec'[d] = rec[d],
         \A d \in D : Clean(d)' => rec[d].status = "Undefine" /\ rec'[d] = AssignedRecord(s, rec[d], d)
  PROVE  PackInv'
<1>1. \A d : Clean(d)' => Clean(d)
  BY DEF Clean
<1>2. /\ req \in [Sectors -> Request] /\ rec \in [Deals -> Record]
      /\ \A t \in Sectors : req[t] \in Request /\ req[t].todo \subseteq Deals /\ req[t].layout \in Layouts
  BY DEF PackInv, AssignShape, Request
<1>3. /\ \A t \in Sectors : req'[t].pc = req[t].pc /\ req'[t].layout = req[t].layout /\ req'[t].snap = req[t].snap
      /\ \A t \in Sectors \ {s} : req'[t].todo = req[t].todo
      /\ req'[s].todo = req[s].todo \ D
  BY <1>2 DEF Request
<1>4. /\ \A h \in handed : DealsIn(h.layout) \subseteq Deals
      /\ \A t \in Sectors : DealsIn(req[t].layout) \subseteq Deals
  BY <1>2, LayoutDeals DEF PackInv, AssignShape
<1>5. D \subseteq Deals /\ D \subseteq DealsIn(req[s].layout)
  BY <1>2 DEF PackInv, TodoRead
<1>6. \A t \in Sectors \ {s} : Taken(t)' = Taken(t)
  BY <1>3 DEF Taken
<1>7. Taken(s)' = Taken(s) \cup D
  BY <1>3, <1>5 DEF Taken
<1>8. \A t \in Sectors : Taken(t) \subseteq Deals
  BY <1>4 DEF Taken
<1>9. ASSUME NEW d \in D, Clean(d)'
      PROVE  /\ Names(d, s, req[s].layout)'
             /\ \A h \in handed : d \notin DealsIn(h.layout)
             /\ \A t \in Sectors : d \notin Taken(t)
  <2>1. rec[d].status = "Undefine" /\ rec[d].id /\ d \in Deals /\ Clean(d) /\ rec[d] \in Record
    BY <1>1, <1>2, <1>5, <1>9 DEF PackInv, TodoRead
  <2>2. /\ rec'[d].id = rec[d].id /\ rec'[d].status = "Assigned" /\ rec'[d].sector = s
        /\ rec'[d].offset = OffsetOf(req[s].layout, d)
    <3>1. PICK r : r = rec[d]
      OBVIOUS
    <3>2. PICK q : q = AssignedRecord(s, r, d)
      OBVIOUS
    <3>3. rec'[d] = q /\ r \in Record /\ AssignShape
      BY <1>9, <2>1, <3>1, <3>2, Zenon DEF PackInv
    <3>4. q.id = r.id /\ q.status = "Assigned" /\ q.sector = s /\ q.offset = OffsetOf(req[s].layout, d)
      BY <2>1, <3>2, <3>3, AssignedRecordType
    <3>. QED
      BY <3>1, <3>3, <3>4
  <2>3. Names(d, s, req[s].layout)'
    <3>1. PICK o : o = OffsetOf(req[s].layout, d)
      OBVIOUS
    <3>2. OffsetOf(req[s].layout, d)' = o
      BY <1>3, <3>1 DEF OffsetOf
    <3>. QED
      BY <2>1, <2>2, <3>1, <3>2 DEF Names
  <2>. QED
    BY <2>1, <2>3 DEF PackInv, HandedNamed, TakenNamed, Names
<1>10. ASSUME NEW d \in Deals \ D, NEW t, NEW l, Names(d, t, l)
       PROVE  Names(d, t, l)'
  BY <1>10 DEF Names
<1>11. HandedNamed'
  BY <1>1, <1>4, <1>9, <1>10 DEF PackInv, HandedNamed
<1>12. TakenNamed'
  <2>. SUFFICES ASSUME NEW t \in Sectors, NEW d \in Taken(t)', Clean(d)'
                PROVE  Names(d, t, req[t].layout)'
    BY DEF TakenNamed
  <2>1. CASE d \in D
    <3>1. t = s
      BY <1>6, <1>9, <2>1
    <3>. QED
      BY <1>9, <2>1, <3>1
  <2>2. CASE d \notin D
    <3>1. d \in Taken(t) /\ d \in Deals \ D /\ Clean(d)
      BY <1>1, <1>6, <1>7, <1>8, <2>2
    <3>2. PICK l : l = req[t].layout
      OBVIOUS
    <3>3. Names(d, t, l)
      BY <3>1, <3>2 DEF PackInv, TakenNamed
    <3>4. Names(d, t, l)'
      BY <1>10, <3>1, <3>3
    <3>5. l = req'[t].layout
      BY <1>3, <3>2
    <3>. QED
      BY <3>4, <3>5 DEF Names
  <2>. QED
    BY <2>1, <2>2
<1>13. TodoRead'
  <2>. SUFFICES ASSUME NEW t \in Sectors, NEW d \in req'[t].todo
                PROVE  /\ d \in DealsIn(req'[t].layout) /\ req'[t].snap[d].status = "Undefine" /\ req'[t].snap[d].id
                       /\ Clean(d)' => rec'[d].id
    BY DEF TodoRead
  <2>1. d \in req[t].todo /\ d \in Deals
    BY <1>2, <1>3
  <2>2. /\ d \in DealsIn(req[t].layout) /\ req[t].snap[d].status = "Undefine" /\ req[t].snap[d].id
        /\ Clean(d) => rec[d].id
    BY <2>1 DEF PackInv, TodoRead
  <2>3. Clean(d)' => rec'[d].id
    BY <1>1, <1>9, <2>1, <2>2 DEF Names
  <2>. QED
    BY <1>3, <2>2, <2>3
<1>14. HandedOnce'
  BY <1>1 DEF PackInv, HandedOnce
<1>15. TakenOnce'
  BY <1>1, <1>6, <1>7, <1>9 DEF PackInv, TakenOnce
<1>16. TakenOrHanded'
  BY <1>1, <1>6, <1>7, <1>9 DEF PackInv, TakenOrHanded
<1>17. TrackPacks'
  BY DEF PackInv, TrackPacks
<1>. QED
  BY <1>11, <1>12, <1>13, <1>14, <1>15, <1>16, <1>17 DEF PackInv

\* AssignUnPackedDeals reads the deals and lays them out.
LEMMA PicksKeep ==
  ASSUME PackInv, NEW s \in Sectors, NEW spec \in Specs, AssignPicks(s, spec)
  PROVE  PackInv'
<1>1. UNCHANGED <<rec, edit, handed, raced, reset>> /\ req[s].pc = "idle"
  BY DEF AssignPicks
<1>2. PICK ds : ds = {d \in UnPackedDeals : WithinSpec(d, spec)}
  OBVIOUS
<1>3. ds \in SUBSET Deals /\ \A d \in ds : rec[d].status = "Undefine" /\ rec[d].id /\ WithinSpec(d, spec)
  BY <1>2 DEF UnPackedDeals
<1>4. PICK order \in Sorted(ds) :
        \/ req' = req
        \/ req' = [req EXCEPT ![s] = [pc |-> "saving", spec |-> spec, snap |-> rec,
                     layout |-> pickAndAlign(order, spec), todo |-> DealsIn(pickAndAlign(order, spec))]]
  BY <1>2 DEF AssignPicks
<1>5. CASE req' = req
  <2>1. AssignShape' /\ TrackPacks'
    BY <1>1, <1>5 DEF PackInv, AssignShape, TrackPacks
  <2>. QED
    BY <1>1, <1>5, <2>1, RecordsMove
<1>6. CASE req' # req
  <2>1. PICK l : l = pickAndAlign(order, spec)
    OBVIOUS
  <2>2. l \in Layouts /\ DealsIn(l) \subseteq ds
    BY <1>3, <2>1, PickedFrom
  <2>3. PICK q : q = [pc |-> "saving", spec |-> spec, snap |-> rec, layout |-> l, todo |-> DealsIn(l)]
    OBVIOUS
  <2>4. req' = [req EXCEPT ![s] = q]
    BY <1>4, <1>6, <2>1, <2>3
  <2>5. /\ req \in [Sectors -> Request] /\ rec \in [Deals -> Record]
    BY DEF PackInv, AssignShape
  <2>6. q \in Request
    BY <1>3, <2>2, <2>3, <2>5 DEF Request
  <2>7. /\ req'[s] = q /\ \A t \in Sectors \ {s} : req'[t] = req[t]
    BY <2>4, <2>5
  <2>8. AssignShape'
    BY <1>1, <2>4, <2>5, <2>6 DEF PackInv, AssignShape
  <2>9. Taken(s)' = {} /\ \A t \in Sectors \ {s} : Taken(t)' = Taken(t)
    BY <2>3, <2>7 DEF Taken
  <2>10. \A d : Clean(d)' <=> Clean(d)
    BY <1>1 DEF Clean
  <2>11. HandedNamed' /\ HandedOnce' /\ TrackPacks'
    BY <1>1, <2>10 DEF PackInv, HandedNamed, HandedOnce, TrackPacks, Names
  <2>12. TakenNamed'
    BY <1>1, <2>7, <2>9, <2>10 DEF PackInv, TakenNamed, Names
  <2>13. TodoRead'
    BY <1>1, <1>3, <2>2, <2>3, <2>7, <2>10 DEF PackInv, TodoRead
  <2>14. TakenOnce' /\ TakenOrHanded'
    BY <1>1, <2>9, <2>10 DEF PackInv, TakenOnce, TakenOrHanded
  <2>. QED
    BY <2>8, <2>11, <2>12, <2>13, <2>14 DEF PackInv
<1>. QED
  BY <1>5, <1>6

\* Badger saves one deal.
LEMMA SavesKeep ==
  ASSUME PackInv, NEW s \in Sectors, AssignSaves(s)
  PROVE  PackInv'
<1>1. UNCHANGED <<edit, handed, reset>> /\ req[s].pc = "saving"
  BY DEF AssignSaves
<1>2. PICK d \in req[s].todo :
        /\ rec' = [rec EXCEPT ![d] = AssignedRecord(s, rec[d], d)]
        /\ raced' = IF rec[d].status = "Undefine" THEN raced ELSE raced \cup {d}
        /\ req' = [req EXCEPT ![s].todo = req[s].todo \ {d}]
  BY DEF AssignSaves
<1>3. /\ req \in [Sectors -> Request] /\ rec \in [Deals -> Record] /\ req[s] \in Request
      /\ d \in Deals
  BY <1>2 DEF PackInv, AssignShape, Request
<1>4. PICK q : q = AssignedRecord(s, rec[d], d)
  OBVIOUS
<1>5. q \in Record
  BY <1>3, <1>4, AssignedRecordType DEF PackInv
<1>6. rec' = [rec EXCEPT ![d] = q]
  BY <1>2, <1>4, Zenon
<1>7. [req[s] EXCEPT !.todo = req[s].todo \ {d}] \in Request
  BY <1>3 DEF Request
<1>8. AssignShape'
  BY <1>1, <1>2, <1>3, <1>5, <1>6, <1>7 DEF PackInv, AssignShape
<1>9. PICK D : D = {d}
  OBVIOUS
<1>10. D \in SUBSET req[s].todo /\ req' = [req EXCEPT ![s].todo = req[s].todo \ D]
  BY <1>2, <1>9
<1>11. \A e \in Deals \ D : rec'[e] = rec[e]
  BY <1>3, <1>6, <1>9
<1>12. Clean(d)' => rec[d].status = "Undefine" /\ rec'[d] = q
  BY <1>2, <1>3, <1>6 DEF Clean
<1>13. \A e \in D : Clean(e)' => rec[e].status = "Undefine" /\ rec'[e] = AssignedRecord(s, rec[e], e)
  BY <1>4, <1>9, <1>12, Zenon
<1>14. raced \subseteq raced'
  BY <1>2
<1>. QED
  BY <1>1, <1>8, <1>10, <1>11, <1>13, <1>14, DealsSaved

\* MySQL commits all of them.
LEMMA CommitsKeep ==
  ASSUME PackInv, NEW s \in Sectors, AssignCommits(s)
  PROVE  PackInv'
<1>1. /\ UNCHANGED <<edit, handed, reset>> /\ req[s].pc = "saving"
      /\ rec' = [d \in Deals |-> IF d \in req[s].todo THEN AssignedRecord(s, req[s].snap[d], d) ELSE rec[d]]
      /\ raced' = raced \cup {d \in req[s].todo : rec[d] # req[s].snap[d]}
      /\ req' = [req EXCEPT ![s].todo = {}]
  BY DEF AssignCommits
<1>2. PICK D : D = req[s].todo
  OBVIOUS
<1>3. PICK seen : seen = req[s].snap
  OBVIOUS
<1>4. /\ req \in [Sectors -> Request] /\ rec \in [Deals -> Record] /\ req[s] \in Request
      /\ D \subseteq Deals /\ seen \in [Deals -> Record]
  BY <1>2, <1>3 DEF PackInv, AssignShape, Request
<1>5. \A d \in D : rec'[d] = AssignedRecord(s, seen[d], d)
  BY <1>1, <1>2, <1>3, <1>4
<1>6. \A d \in Deals \ D : rec'[d] = rec[d]
  BY <1>1, <1>2
<1>7. \A d \in D : rec'[d] \in Record
  <2>. SUFFICES ASSUME NEW d \in D PROVE rec'[d] \in Record
    OBVIOUS
  <2>1. PICK r : r = seen[d]
    OBVIOUS
  <2>2. r \in Record /\ d \in Deals
    BY <1>4, <2>1
  <2>3. AssignedRecord(s, r, d) \in Record
    BY <2>2, AssignedRecordType DEF PackInv
  <2>. QED
    BY <1>5, <2>1, <2>3, Zenon
<1>8. rec' \in [Deals -> Record]
  <2>1. rec' = [d \in Deals |-> rec'[d]]
    BY <1>1
  <2>2. \A d \in Deals : rec'[d] \in Record
    BY <1>4, <1>6, <1>7
  <2>. QED
    BY <2>1, <2>2
<1>9. [req[s] EXCEPT !.todo = {}] \in Request
  BY <1>4 DEF Request
<1>10. AssignShape'
  BY <1>1, <1>4, <1>8, <1>9 DEF PackInv, AssignShape
<1>11. \A d \in D : Clean(d)' => rec[d].status = "Undefine" /\ rec'[d] = AssignedRecord(s, rec[d], d)
  <2>. SUFFICES ASSUME NEW d \in D, Clean(d)'
                PROVE  rec[d].status = "Undefine" /\ rec'[d] = AssignedRecord(s, rec[d], d)
    OBVIOUS
  <2>1. rec[d] = seen[d]
    BY <1>1, <1>2, <1>3 DEF Clean
  <2>2. seen[d].status = "Undefine"
    BY <1>2, <1>3 DEF PackInv, TodoRead
  <2>. QED
    BY <1>5, <2>1, <2>2, Zenon
<1>12. req' = [req EXCEPT ![s].todo = req[s].todo \ D] /\ D \in SUBSET req[s].todo /\ raced \subseteq raced'
  <2>1. req[s].todo \ D = {}
    BY <1>2
  <2>. QED
    BY <1>1, <1>2, <2>1
<1>. QED
  BY <1>1, <1>6, <1>10, <1>11, <1>12, DealsSaved

\* The call ends, with an error or with its layout.
LEMMA CallEnds ==
  ASSUME PackInv, NEW s \in Sectors, AssignFails(s) \/ AssignReturns(s)
  PROVE  PackInv'
<1>1. UNCHANGED <<rec, edit, raced, reset>> /\ req' = [req EXCEPT ![s] = NoRequest] /\ req[s].pc = "saving"
  BY DEF AssignFails, AssignReturns
<1>2. /\ req \in [Sectors -> Request] /\ req[s] \in Request /\ req[s].layout \in Layouts
  BY DEF PackInv, AssignShape, Request
<1>3. req'[s] = NoRequest /\ \A t \in Sectors \ {s} : req'[t] = req[t]
  BY <1>1, <1>2
<1>4. NoRequest.pc = "idle" /\ NoRequest.todo = {}
  BY DEF NoRequest
<1>5. Taken(s)' = {} /\ \A t \in Sectors \ {s} : Taken(t)' = Taken(t)
  BY <1>3, <1>4 DEF Taken
<1>6. \A d : Clean(d)' <=> Clean(d)
  BY <1>1 DEF Clean
<1>7. TakenNamed' /\ TodoRead' /\ TakenOnce' /\ TrackPacks'
  <2>1. TakenNamed'
    BY <1>1, <1>3, <1>5, <1>6 DEF PackInv, TakenNamed, Names
  <2>2. TodoRead'
    BY <1>1, <1>3, <1>4, <1>6 DEF PackInv, TodoRead
  <2>3. TakenOnce'
    BY <1>5, <1>6 DEF PackInv, TakenOnce
  <2>4. TrackPacks'
    BY <1>1 DEF PackInv, TrackPacks
  <2>. QED
    BY <2>1, <2>2, <2>3, <2>4
<1>8. CASE handed' = handed
  <2>1. AssignShape'
    BY <1>1, <1>2, <1>8, RestTypes DEF PackInv, AssignShape
  <2>2. HandedNamed' /\ HandedOnce'
    BY <1>1, <1>6, <1>8 DEF PackInv, HandedNamed, HandedOnce, Names
  <2>3. TakenOrHanded'
    BY <1>5, <1>6, <1>8 DEF PackInv, TakenOrHanded
  <2>. QED
    BY <1>7, <2>1, <2>2, <2>3 DEF PackInv
<1>9. CASE AssignReturns(s)
  <2>1. PICK h : h = [sector |-> s, spec |-> req[s].spec, layout |-> req[s].layout,
                      from |-> {d \in Deals : req[s].snap[d].status = "Undefine"
                                              /\ req[s].snap[d].id /\ ~req[s].snap[d].ended}]
    OBVIOUS
  <2>2. h.sector = s /\ h.layout = req[s].layout
    BY <2>1
  <2>3. handed' = handed \cup {h} /\ req[s].todo = {}
    BY <1>9, <2>1 DEF AssignReturns
  <2>4. AssignShape'
    BY <1>1, <1>2, <2>2, <2>3, RestTypes DEF PackInv, AssignShape
  <2>5. DealsIn(h.layout) = Taken(s)
    BY <1>1, <2>2, <2>3 DEF Taken
  <2>6. /\ \A d \in DealsIn(h.layout) : Clean(d) => Names(d, h.sector, h.layout)
        /\ \A g \in handed : \A d \in DealsIn(g.layout) \cap DealsIn(h.layout) : ~Clean(d)
        /\ \A t \in Sectors \ {s} : \A d \in Taken(t) \cap DealsIn(h.layout) : ~Clean(d)
    BY <2>2, <2>5 DEF PackInv, TakenNamed, TakenOnce, TakenOrHanded
  <2>7. HandedNamed'
    BY <1>1, <1>6, <2>3, <2>6 DEF PackInv, HandedNamed, Names
  <2>8. HandedOnce'
    BY <1>6, <2>3, <2>6 DEF PackInv, HandedOnce
  <2>9. TakenOrHanded'
    BY <1>5, <1>6, <2>3, <2>6 DEF PackInv, TakenOrHanded
  <2>. QED
    BY <1>7, <2>4, <2>7, <2>8, <2>9 DEF PackInv
<1>. QED
  BY <1>8, <1>9 DEF AssignFails

\* A goroutine reads a deal to change it.
LEMMA EditReadsKeep ==
  ASSUME PackInv, NEW e \in DealEditors, NEW d \in Deals, NEW kind \in EditKinds, NEW st \in Statuses,
         NEW s \in Sectors \cup {NoSector}, kind = "track" => st # "Undefine", EditReads(e, d, kind, st, s)
  PROVE  PackInv'
<1>1. UNCHANGED <<rec, req, handed, raced, reset>>
  BY DEF EditReads
<1>2. PICK q : q = [pc |-> "read", deal |-> d, kind |-> kind, status |-> st, sector |-> s, copy |-> rec[d]]
  OBVIOUS
<1>3. edit' = [edit EXCEPT ![e] = q]
  BY <1>2 DEF EditReads
<1>4. rec \in [Deals -> Record] /\ edit \in [DealEditors -> Edit]
  BY DEF PackInv, AssignShape
<1>5. q \in Edit /\ q.kind = kind /\ q.status = st
  BY <1>2, <1>4 DEF Edit
<1>6. AssignShape'
  BY <1>1, <1>3, <1>4, <1>5 DEF PackInv, AssignShape
<1>7. TrackPacks'
  BY <1>3, <1>4, <1>5 DEF PackInv, TrackPacks
<1>. QED
  BY <1>1, <1>6, <1>7, RecordsMove

\* What an edit makes of a record.
LEMMA EditedRecord ==
  ASSUME NEW r \in Record, NEW kind \in EditKinds, NEW st \in Statuses, NEW s \in Sectors \cup {NoSector},
         NEW q, q = Edited(r, kind, st, s)
  PROVE  /\ q \in Record
         /\ r.id => q.id
         /\ kind # "place" => q.sector = r.sector /\ q.offset = r.offset
         /\ kind # "place" /\ ~(kind \in {"status", "track"} /\ st = "Undefine")
              => (r.status # "Undefine" => q.status # "Undefine")
<1>1. 0 \in Offsets /\ "Assigned" \in Statuses
  BY DEF Offsets, Statuses
<1>2. CASE kind = "publish"
  <2>1. q = [r EXCEPT !.id = TRUE, !.cid = TRUE]
    BY <1>2 DEF Edited
  <2>. QED
    BY <1>2, <2>1 DEF Record
<1>3. CASE kind = "fail"
  <2>1. q = [r EXCEPT !.ended = TRUE]
    BY <1>3 DEF Edited
  <2>. QED
    BY <1>3, <2>1 DEF Record
<1>4. CASE kind = "mark"
  <2>1. q = [r EXCEPT !.status = "Assigned"]
    BY <1>4 DEF Edited
  <2>. QED
    BY <1>1, <1>4, <2>1 DEF Record
<1>5. CASE kind = "place"
  <2>1. q = [r EXCEPT !.status = "Assigned", !.sector = s, !.offset = 0]
    BY <1>5 DEF Edited
  <2>. QED
    BY <1>1, <1>5, <2>1 DEF Record
<1>6. CASE kind \in {"status", "track"}
  <2>1. q = [r EXCEPT !.status = st]
    BY <1>6 DEF Edited
  <2>. QED
    BY <1>6, <2>1 DEF Record
<1>. QED
  BY <1>2, <1>3, <1>4, <1>5, <1>6 DEF EditKinds

\* The goroutine saves it.
LEMMA EditSavesKeep ==
  ASSUME PackInv, NEW e \in DealEditors, EditSaves(e)
  PROVE  PackInv'
<1>1. UNCHANGED <<req, handed>> /\ edit' = [edit EXCEPT ![e] = NoEdit]
  BY DEF EditSaves
<1>2. PICK d : d = edit[e].deal
  OBVIOUS
<1>3. PICK base : base = IF ~(backend = "mysql" /\ edit[e].kind = "track") THEN edit[e].copy ELSE rec[d]
  OBVIOUS
<1>4. PICK q : q = Edited(base, edit[e].kind, edit[e].status, edit[e].sector)
  OBVIOUS
<1>5. /\ rec' = [rec EXCEPT ![d] = q]
      /\ raced' = IF base = rec[d] THEN raced ELSE raced \cup {d}
      /\ reset' = IF edit[e].kind = "place" \/ (edit[e].kind = "status" /\ edit[e].status = "Undefine")
                  THEN reset \cup {d} ELSE reset
  BY <1>2, <1>3, <1>4 DEF EditSaves
<1>6. rec \in [Deals -> Record] /\ edit \in [DealEditors -> Edit] /\ edit[e] \in Edit
  BY DEF PackInv, AssignShape
<1>7. AssignShape' /\ TrackPacks'
  <2>1. CASE d \in Deals
    <3>1. base \in Record
      BY <1>3, <1>6, <2>1 DEF Edit
    <3>2. q \in Record
      BY <1>4, <1>6, <3>1, EditedRecord DEF Edit
    <3>3. AssignShape'
      BY <1>1, <1>5, <1>6, <3>2, RestTypes DEF PackInv, AssignShape
    <3>. QED
      BY <1>1, <1>6, <3>3 DEF PackInv, TrackPacks, NoEdit
  <2>2. CASE d \notin Deals
    <3>1. rec' = rec
      BY <1>5, <1>6, <2>2
    <3>2. AssignShape'
      BY <1>1, <1>6, <3>1, RestTypes DEF PackInv, AssignShape
    <3>. QED
      BY <1>1, <1>6, <3>2 DEF PackInv, TrackPacks, NoEdit
  <2>. QED
    BY <2>1, <2>2
<1>8. raced \subseteq raced' /\ reset \subseteq reset'
  BY <1>5
<1>9. ASSUME NEW c \in Deals, Clean(c)', rec[c].id
      PROVE  /\ rec'[c].id
             /\ rec[c].status # "Undefine" => /\ rec'[c].status # "Undefine"
                                              /\ rec'[c].sector = rec[c].sector /\ rec'[c].offset = rec[c].offset
  <2>1. CASE c = d
    <3>1. /\ base = rec[c] /\ edit[e].kind # "place" /\ rec'[c] = q
          /\ ~(edit[e].kind = "status" /\ edit[e].status = "Undefine")
      BY <1>5, <1>6, <1>9, <2>1 DEF Clean
    <3>2. ~(edit[e].kind = "track" /\ edit[e].status = "Undefine")
      BY DEF PackInv, TrackPacks
    <3>3. base \in Record
      BY <1>6, <3>1
    <3>4. /\ base.id => q.id
          /\ q.sector = base.sector /\ q.offset = base.offset
          /\ base.status # "Undefine" => q.status # "Undefine"
      BY <1>4, <1>6, <3>1, <3>2, <3>3, EditedRecord DEF Edit
    <3>. QED
      BY <1>9, <3>1, <3>4
  <2>2. CASE c # d
    <3>1. rec'[c] = rec[c]
      BY <1>5, <1>6, <2>2
    <3>. QED
      BY <1>9, <3>1
  <2>. QED
    BY <2>1, <2>2
<1>. QED
  BY <1>1, <1>7, <1>8, <1>9, RecordsMove

\* A deal is imported over one that is not published.
LEMMA ImportKeeps ==
  ASSUME PackInv, NEW d \in Deals, ImportDeal(d)
  PROVE  PackInv'
<1>1. UNCHANGED <<req, edit, handed, reset>> /\ ~rec[d].id /\ raced \subseteq raced'
  BY DEF ImportDeal
<1>2. PICK q : q = [NewDeal EXCEPT !.id = TRUE]
  OBVIOUS
<1>3. rec' = [rec EXCEPT ![d] = q]
  BY <1>2 DEF ImportDeal
<1>4. rec \in [Deals -> Record]
  BY DEF PackInv, AssignShape
<1>5. q \in Record
  BY <1>2, RestTypes DEF Record
<1>6. AssignShape' /\ TrackPacks'
  BY <1>1, <1>3, <1>4, <1>5 DEF PackInv, AssignShape, TrackPacks
<1>7. \A c \in Deals \ {d} : rec'[c] = rec[c]
  BY <1>3, <1>4
<1>. QED
  BY <1>1, <1>6, <1>7, RecordsMove

\* Every step keeps the deals apart.
LEMMA PackStep == PackInv /\ [AssignNext]_assignVars => PackInv'
<1>. SUFFICES ASSUME PackInv, [AssignNext]_assignVars PROVE PackInv'
  OBVIOUS
<1>1. ASSUME NEW s \in Sectors, \/ \E spec \in Specs : AssignPicks(s, spec)
                                \/ AssignSaves(s) \/ AssignCommits(s) \/ AssignFails(s) \/ AssignReturns(s)
      PROVE  PackInv'
  BY <1>1, PicksKeep, SavesKeep, CommitsKeep, CallEnds
<1>2. ASSUME NEW e \in DealEditors, NEW d \in Deals, NEW kind \in EditKinds,
             \/ /\ kind \in {"publish", "fail", "mark"}
                /\ EditReads(e, d, kind, "Undefine", NoSector)
             \/ kind = "place" /\ \E s \in Sectors : EditReads(e, d, kind, "Undefine", s)
             \/ kind = "status" /\ \E st \in Statuses : EditReads(e, d, kind, st, NoSector)
             \/ kind = "track" /\ EditReads(e, d, kind, "Packing", NoSector)
      PROVE  PackInv'
  <2>1. "Undefine" \in Statuses /\ "Packing" \in Statuses
    BY DEF Statuses
  <2>2. PICK st \in Statuses, s \in Sectors \cup {NoSector} :
          EditReads(e, d, kind, st, s) /\ (kind = "track" => st # "Undefine")
    BY <1>2, <2>1
  <2>. QED
    BY <2>2, EditReadsKeep
<1>3. ASSUME NEW e \in DealEditors, EditSaves(e) PROVE PackInv'
  BY <1>3, EditSavesKeep
<1>4. ASSUME NEW d \in Deals, ImportDeal(d) PROVE PackInv'
  BY <1>4, ImportKeeps
<1>5. CASE UNCHANGED assignVars
  <2>1. UNCHANGED <<rec, req, edit, handed, raced, reset>>
    BY <1>5 DEF assignVars
  <2>2. AssignShape' /\ TrackPacks'
    BY <2>1 DEF PackInv, AssignShape, TrackPacks
  <2>. QED
    BY <2>1, <2>2, RecordsMove
<1>. QED
  BY <1>1, <1>2, <1>3, <1>4, <1>5 DEF AssignNext

\* At the start nothing is assigned.
LEMMA PackInit == AssignInit => PackInv
<1>. SUFFICES ASSUME AssignInit PROVE PackInv
  OBVIOUS
<1>1. PICK new \in SUBSET Deals :
        rec = [d \in Deals |-> [NewDeal EXCEPT !.id = d \notin new, !.cid = d \notin new]]
  BY DEF AssignInit
<1>2. ASSUME NEW d \in Deals PROVE rec[d] \in Record
  <2>1. PICK b : b = (d \notin new)
    OBVIOUS
  <2>2. rec[d] = [NewDeal EXCEPT !.id = b, !.cid = b] /\ b \in BOOLEAN
    BY <1>1, <2>1
  <2>. QED
    BY <2>2, RestTypes DEF Record
<1>3. rec \in [Deals -> Record]
  <2>1. rec = [d \in Deals |-> rec[d]]
    BY <1>1
  <2>. QED
    BY <1>2, <2>1
<1>4. /\ req = [s \in Sectors |-> NoRequest] /\ edit = [e \in DealEditors |-> NoEdit] /\ handed = {}
      /\ NoRequest.pc = "idle" /\ NoRequest.todo = {} /\ NoEdit.kind = "mark"
  BY DEF AssignInit, NoRequest, NoEdit
<1>5. AssignShape
  BY <1>3, <1>4, RestTypes DEF AssignShape
<1>6. \A s \in Sectors : Taken(s) = {} /\ req[s].todo = {}
  BY <1>4 DEF Taken
<1>. QED
  BY <1>4, <1>5, <1>6 DEF PackInv, HandedNamed, TakenNamed, TodoRead, HandedOnce, TakenOnce, TakenOrHanded, TrackPacks

\* No two sectors are given the same deal, and its record says which one has it
\* and where, for any deals, specs, sectors and stores, whatever calls overlap and
\* fail, unless a stale copy of the record was saved or a caller moved the deal.
THEOREM DealsPackedOnce == AssignSpec => []PackedOnce
<1>1. PackInv => PackedOnce
  <2>. SUFFICES ASSUME PackInv, NEW h \in handed, NEW d \in DealsIn(h.layout), Clean(d)
                PROVE  /\ \A g \in handed : d \in DealsIn(g.layout) => g = h
                       /\ rec[d].status # "Undefine" /\ rec[d].sector = h.sector
                       /\ rec[d].offset = OffsetOf(h.layout, d)
    BY DEF PackedOnce, Clean
  <2>. QED
    BY DEF PackInv, HandedNamed, HandedOnce, Names
<1>. QED
  BY <1>1, PackInit, PackStep, PTL DEF AssignSpec

-----------------------------------------------------------------------------
(* What a sealer gets is a sector.                                           *)

\* The deals that a call found unpacked.
FreeIn(seen) == {d \in Deals : seen[d].status = "Undefine" /\ seen[d].id /\ ~seen[d].ended}

\* The layout of a running call is right for what the call has read, whatever
\* has been saved since.
CallsFill ==
  \A s \in Sectors : req[s].pc = "saving" => FillsSector(req[s].layout, req[s].spec, FreeIn(req[s].snap))

\* A call for s begins with a layout that fills the sector.
LEMMA PicksFill ==
  ASSUME PackInv, CallsFill, NEW s \in Sectors, NEW spec \in Specs, AssignPicks(s, spec)
  PROVE  CallsFill'
<1>1. req \in [Sectors -> Request]
  BY DEF PackInv, AssignShape
<1>2. PICK ds : ds = {d \in UnPackedDeals : WithinSpec(d, spec)}
  OBVIOUS
<1>3. ds \in SUBSET Deals /\ \A d \in ds : WithinSpec(d, spec)
  BY <1>2 DEF UnPackedDeals
<1>4. PICK order \in Sorted(ds) :
        \/ req' = req
        \/ /\ pickAndAlign(order, spec) # <<>>
           /\ req' = [req EXCEPT ![s] = [pc |-> "saving", spec |-> spec, snap |-> rec,
                        layout |-> pickAndAlign(order, spec), todo |-> DealsIn(pickAndAlign(order, spec))]]
  BY <1>2 DEF AssignPicks
<1>5. CASE req' = req
  BY <1>5 DEF CallsFill, FreeIn
<1>6. CASE req' # req
  <2>1. PICK l : l = pickAndAlign(order, spec)
    OBVIOUS
  <2>2. PICK q : q = [pc |-> "saving", spec |-> spec, snap |-> rec, layout |-> l, todo |-> DealsIn(l)]
    OBVIOUS
  <2>3. l # <<>> /\ req' = [req EXCEPT ![s] = q]
    BY <1>4, <1>6, <2>1, <2>2
  <2>4. req'[s] = q /\ \A t \in Sectors \ {s} : req'[t] = req[t]
    BY <1>1, <2>3
  <2>5. q.layout = l /\ q.spec = spec /\ q.snap = rec
    BY <2>2
  <2>6. PICK from : from = FreeIn(rec)
    OBVIOUS
  <2>7. \A d \in from : WithinSpec(d, spec) => d \in ds
    BY <1>2, <2>6 DEF FreeIn, UnPackedDeals
  <2>8. spec.MaxPiece \in Int /\ spec.MinPiece \in Int /\ InOrder(order, ds)
    BY <1>3, DealAssignAssumption, SortedInOrder
  <2>9. FillsSector(l, spec, from)
    BY <1>3, <2>1, <2>3, <2>7, <2>8, PickFills
  <2>10. FillsSector(q.layout, q.spec, FreeIn(q.snap))
    BY <2>5, <2>6, <2>9, Zenon
  <2>11. ASSUME NEW t \in Sectors, req'[t].pc = "saving"
         PROVE  FillsSector(req'[t].layout, req'[t].spec, FreeIn(req'[t].snap))
    <3>1. CASE t = s
      BY <2>4, <2>10, <3>1, Zenon
    <3>2. CASE t # s
      BY <2>4, <2>11, <3>2 DEF CallsFill
    <3>. QED
      BY <3>1, <3>2
  <2>. QED
    BY <2>11 DEF CallsFill, FreeIn
<1>. QED
  BY <1>5, <1>6

\* Saving deals leaves the layout of a call alone, and a call that ends is gone.
LEMMA CallsMove ==
  ASSUME PackInv, CallsFill,
         \/ req' = req
         \/ \E s \in Sectors : \/ req' = [req EXCEPT ![s] = NoRequest]
                               \/ \E D : req' = [req EXCEPT ![s].todo = D]
  PROVE  CallsFill'
<1>1. req \in [Sectors -> Request]
  BY DEF PackInv, AssignShape
<1>2. ASSUME NEW t \in Sectors, req'[t].pc = "saving"
      PROVE  req[t].pc = "saving" /\ req'[t].layout = req[t].layout /\ req'[t].spec = req[t].spec
             /\ req'[t].snap = req[t].snap
  <2>1. CASE req' = req
    BY <1>2, <2>1
  <2>2. ASSUME NEW s \in Sectors, req' = [req EXCEPT ![s] = NoRequest]
        PROVE  req'[t] = req[t]
    <3>1. NoRequest.pc = "idle"
      BY DEF NoRequest
    <3>. QED
      BY <1>1, <1>2, <2>2, <3>1
  <2>3. ASSUME NEW s \in Sectors, NEW D, req' = [req EXCEPT ![s].todo = D]
        PROVE  req[t].pc = "saving" /\ req'[t].layout = req[t].layout /\ req'[t].spec = req[t].spec
               /\ req'[t].snap = req[t].snap
    BY <1>1, <1>2, <2>3 DEF Request
  <2>. QED
    BY <1>2, <2>1, <2>2, <2>3
<1>3. ASSUME NEW t \in Sectors, req'[t].pc = "saving"
      PROVE  FillsSector(req'[t].layout, req'[t].spec, FreeIn(req'[t].snap))
  <2>1. FillsSector(req[t].layout, req[t].spec, FreeIn(req[t].snap))
    BY <1>2, <1>3 DEF CallsFill
  <2>. QED
    BY <1>2, <1>3, <2>1
<1>. QED
  BY <1>3 DEF CallsFill, FreeIn

\* Every step.
LEMMA FillStep ==
  PackInv /\ CallsFill /\ SectorFilled /\ [AssignNext]_assignVars => CallsFill' /\ SectorFilled'
<1>. SUFFICES ASSUME PackInv, CallsFill, SectorFilled, [AssignNext]_assignVars
              PROVE  CallsFill' /\ SectorFilled'
  OBVIOUS
<1>1. ASSUME NEW s \in Sectors, NEW spec \in Specs, AssignPicks(s, spec) PROVE CallsFill' /\ handed' = handed
  BY <1>1, PicksFill DEF AssignPicks
<1>2. ASSUME NEW s \in Sectors, AssignSaves(s) \/ AssignCommits(s) \/ AssignFails(s)
      PROVE  CallsFill' /\ handed' = handed
  <2>1. \/ req' = [req EXCEPT ![s] = NoRequest]
        \/ \E D : req' = [req EXCEPT ![s].todo = D]
    BY <1>2 DEF AssignSaves, AssignCommits, AssignFails
  <2>. QED
    BY <1>2, <2>1, CallsMove DEF AssignSaves, AssignCommits, AssignFails
<1>3. ASSUME NEW s \in Sectors, AssignReturns(s) PROVE CallsFill' /\ SectorFilled'
  <2>1. req' = [req EXCEPT ![s] = NoRequest] /\ req[s].pc = "saving"
    BY <1>3 DEF AssignReturns
  <2>2. PICK h : h = [sector |-> s, spec |-> req[s].spec, layout |-> req[s].layout, from |-> FreeIn(req[s].snap)]
    OBVIOUS
  <2>3. handed' = handed \cup {h}
    BY <1>3, <2>2 DEF AssignReturns, FreeIn
  <2>4. h.layout = req[s].layout /\ h.spec = req[s].spec /\ h.from = FreeIn(req[s].snap)
    BY <2>2
  <2>5. FillsSector(req[s].layout, req[s].spec, FreeIn(req[s].snap))
    BY <2>1 DEF CallsFill
  <2>6. FillsSector(h.layout, h.spec, h.from)
    BY <2>4, <2>5, Zenon
  <2>7. SectorFilled'
    BY <2>3, <2>6 DEF SectorFilled
  <2>. QED
    BY <2>1, <2>7, CallsMove
<1>4. CASE req' = req /\ handed' = handed
  BY <1>4, CallsMove DEF SectorFilled
<1>5. ASSUME NEW s \in Sectors, \/ \E spec \in Specs : AssignPicks(s, spec)
                                \/ AssignSaves(s) \/ AssignCommits(s) \/ AssignFails(s) \/ AssignReturns(s)
      PROVE  CallsFill' /\ SectorFilled'
  BY <1>1, <1>2, <1>3, <1>5 DEF SectorFilled
<1>6. ASSUME NEW e \in DealEditors, NEW d \in Deals, NEW kind \in EditKinds,
             \/ /\ kind \in {"publish", "fail", "mark"}
                /\ EditReads(e, d, kind, "Undefine", NoSector)
             \/ kind = "place" /\ \E s \in Sectors : EditReads(e, d, kind, "Undefine", s)
             \/ kind = "status" /\ \E st \in Statuses : EditReads(e, d, kind, st, NoSector)
             \/ kind = "track" /\ EditReads(e, d, kind, "Packing", NoSector)
      PROVE  req' = req /\ handed' = handed
  BY <1>6 DEF EditReads
<1>7. ASSUME NEW e \in DealEditors, EditSaves(e) PROVE req' = req /\ handed' = handed
  BY <1>7 DEF EditSaves
<1>8. ASSUME NEW d \in Deals, ImportDeal(d) PROVE req' = req /\ handed' = handed
  BY <1>8 DEF ImportDeal
<1>9. CASE UNCHANGED assignVars
  BY <1>4, <1>9 DEF assignVars
<1>. QED
  BY <1>4, <1>5, <1>6, <1>7, <1>8, <1>9 DEF AssignNext

\* What AssignUnPackedDeals returns is a sector: its pieces fill it to the last
\* byte, each starts at a multiple of its size, deals are where their offset says
\* and within the sealer's limits, and no eligible deal was left out that the
\* space behind the last one could hold; for any deals and specs, any sizes that
\* are powers of two, and any interleaving with other calls and writers.
THEOREM SectorsAreFilled == AssignSpec => []SectorFilled
<1>1. AssignInit => CallsFill /\ SectorFilled
  <2>. SUFFICES ASSUME AssignInit PROVE CallsFill /\ SectorFilled
    OBVIOUS
  <2>1. \A s \in Sectors : req[s].pc = "idle"
    BY DEF AssignInit, NoRequest
  <2>2. handed = {}
    BY DEF AssignInit
  <2>. QED
    BY <2>1, <2>2 DEF CallsFill, SectorFilled
<1>. QED
  BY <1>1, PackInit, PackStep, FillStep, PTL DEF AssignSpec
=============================================================================
