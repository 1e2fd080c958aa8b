------------------------- MODULE AbstractBlockstore -------------------------
(***************************************************************************)
(* What a blockstore promises its callers, with a full garbage collection  *)
(* and crashes.  The store is a set of blocks; a call takes effect at one  *)
(* moment between its start and its return, and a collection changes       *)
(* nothing.  Two allowances are all that the code needs: blocks deleted,   *)
(* or put with an error, while a collection copies may be found or missed  *)
(* once it switches, and a crash after the switch and before the path      *)
(* names the new database goes back to the old one, or to an empty one.    *)
(***************************************************************************)
CONSTANTS Keys, Callers

VARIABLES
  blocks,    \* the blocks a read finds
  moving,    \* a collection is copying
  limbo,     \* blocks whose fate the running collection decides
  backup,    \* the database the path names after a switch, None once settled
  call       \* Callers -> [kind, keys, phase]

CONSTANT None

absVars == <<blocks, moving, limbo, backup, call>>

AbsKinds == {"put", "delete", "read"}

AbsInit ==
  /\ blocks = {} /\ moving = FALSE /\ limbo = {} /\ backup = None
  /\ call = [c \in Callers |-> [kind |-> "read", keys |-> {}, phase |-> "idle"]]

Resting(c) == call[c].phase \in {"idle", "ok", "error"}

AbsCall(c, kind, ks) ==
  /\ Resting(c)
  /\ call' = [call EXCEPT ![c] = [kind |-> kind, keys |-> ks, phase |-> "called"]]
  /\ UNCHANGED <<blocks, moving, limbo, backup>>

\* A call that concerns no stored block, or a store that is not open.
AbsAnswer(c) ==
  /\ Resting(c)
  /\ \E ph \in {"ok", "error"} :
       call' = [call EXCEPT ![c] = [kind |-> "read", keys |-> {}, phase |-> ph]]
  /\ UNCHANGED <<blocks, moving, limbo, backup>>

\* The effect of a call, once.  A read turns the keys asked for into those found.
AbsApply(c) ==
  /\ call[c].phase = "called"
  /\ LET ks == call[c].keys
         kind == call[c].kind
     IN /\ blocks' = CASE kind = "put" -> blocks \cup ks
                       [] kind = "delete" -> blocks \ ks
                       [] kind = "read" -> blocks
        /\ limbo' = CASE kind = "put" -> limbo \ ks
                      [] kind = "delete" -> IF moving THEN limbo \cup ks ELSE limbo
                      [] kind = "read" -> limbo
        /\ call' = [call EXCEPT ![c].phase = "applied",
                                ![c].keys = IF kind = "read" THEN ks \cap blocks ELSE ks]
  /\ UNCHANGED <<moving, backup>>

\* A call that fails has applied some of its keys, or all but in the copy.
AbsFail(c) ==
  LET ks == call[c].keys
  IN /\ call[c].kind # "read"
     /\ \/ /\ call[c].phase = "called"
           /\ \E some \in SUBSET ks :
                blocks' = IF call[c].kind = "put" THEN blocks \cup some ELSE blocks \ some
        \/ call[c].phase = "applied" /\ UNCHANGED blocks
     /\ limbo' = IF moving THEN limbo \cup ks ELSE limbo
     /\ call' = [call EXCEPT ![c].phase = "failed"]
     /\ UNCHANGED <<moving, backup>>

AbsReturn(c) ==
  /\ call[c].phase \in {"applied", "failed"}
  /\ call' = [call EXCEPT ![c].phase = IF @ = "applied" THEN "ok" ELSE "error"]
  /\ UNCHANGED <<blocks, moving, limbo, backup>>

AbsBegin ==
  /\ ~moving
  /\ moving' = TRUE /\ limbo' = {}
  /\ UNCHANGED <<blocks, backup, call>>

AbsAbort ==
  /\ moving
  /\ moving' = FALSE /\ limbo' = {}
  /\ UNCHANGED <<blocks, backup, call>>

AbsSwitch ==
  /\ moving
  /\ \E kept \in SUBSET limbo : blocks' = (blocks \ limbo) \cup kept
  /\ backup' = blocks
  /\ moving' = FALSE /\ limbo' = {}
  /\ UNCHANGED call

AbsSettle ==
  /\ backup # None
  /\ backup' = None
  /\ UNCHANGED <<blocks, moving, limbo, call>>

AbsCrash ==
  /\ blocks' \in IF backup = None THEN {blocks} ELSE {backup, {}}
  /\ moving' = FALSE /\ limbo' = {} /\ backup' = None
  /\ call' = [c \in Callers |-> IF Resting(c) THEN call[c] ELSE [call[c] EXCEPT !.phase = "error"]]

AbsNext ==
  \/ \E c \in Callers :
       \/ \E kind \in AbsKinds, ks \in SUBSET Keys : AbsCall(c, kind, ks)
       \/ AbsAnswer(c) \/ AbsApply(c) \/ AbsFail(c) \/ AbsReturn(c)
  \/ AbsBegin \/ AbsAbort \/ AbsSwitch \/ AbsSettle \/ AbsCrash

AbsSpec == AbsInit /\ [][AbsNext]_absVars
=============================================================================
