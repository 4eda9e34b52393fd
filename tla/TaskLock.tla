------------------------------- MODULE TaskLock -------------------------------
(***************************************************************************)
(* The cross-process lock of one terminal record (task-store.ts,           *)
(* withTaskLock): a directory .meta.lock holding owner.json, put in place  *)
(* by rename.  A lock whose owner is proven dead is renamed to a takeover  *)
(* directory of its own; a live lock that was moved by mistake stays       *)
(* there, blocks every other caller, and is released from there.           *)
(*                                                                         *)
(* Every step is one system call of one caller.  A Caller is one call of   *)
(* withTaskLock, with the fresh token that names it in owner.json; calls   *)
(* of one process never interleave, so concurrent callers are distinct     *)
(* processes.  Ghost is a process that died holding the lock.  A private   *)
(* .meta.lock-candidate or .meta.lock.release directory is seen by nobody  *)
(* and is left out.                                                        *)
(***************************************************************************)
EXTENDS FiniteSets, Naturals

CONSTANTS
  Caller,      \* calls of withTaskLock
  Ghost,       \* the owner that died before the calls began
  MaxDirs,     \* bound: takeover directories in use at once
  MaxCrashes,  \* bound: callers that die
  Deadline     \* TRUE when lockTimeoutMs may pass while a caller waits

ASSUME LockAssumption ==
  /\ Ghost \notin Caller /\ IsFiniteSet(Caller)
  /\ {"none", "erased", "absent"} \cap (Caller \cup {Ghost}) = {}
  /\ MaxDirs \in Nat /\ MaxCrashes \in Nat /\ Deadline \in BOOLEAN

Dir == 1..MaxDirs
LockOwner == Caller \cup {Ghost}

VARIABLES
  canonical,  \* owner of .meta.lock, or "none"
  takeover,   \* owner in each takeover directory; "erased": no owner.json; "absent"
  alive,      \* callers whose process lives
  call        \* where each call stands

vars == <<canonical, takeover, alive, call>>

Pc == {"list", "read", "erase", "remove", "rename", "owns", "ownsList", "ownsRead",
       "critical", "relList", "relCanonical", "relRename", "relRead", "relTake",
       "break", "breakRename", "breakCheck", "wait", "done", "failed"}

Call == [pc : Pc,
         acquired : BOOLEAN,       \* the candidate was renamed into place
         todo : SUBSET Dir,        \* takeover paths listed and not yet read
         blocked : BOOLEAN,        \* a takeover of somebody else was read
         pass : {1, 2},            \* releaseLock searches twice
         ran : BOOLEAN,            \* the operation has run
         at : Dir \cup {0},        \* takeover directory in hand
         use : {"scan", "break", "release"},  \* which removal that is
         seen : LockOwner \cup {"none"}]      \* dead owner read from .meta.lock

Begin == [pc |-> "list", acquired |-> FALSE, todo |-> {}, blocked |-> FALSE,
          pass |-> 1, ran |-> FALSE, at |-> 0,
          use |-> "scan", seen |-> "none"]

Init ==
  /\ canonical \in {"none", Ghost}
  /\ takeover = [d \in Dir |-> "absent"]
  /\ alive = Caller
  /\ call = [c \in Caller |-> Begin]

Listed == {d \in Dir : takeover[d] # "absent"}
ProvesOwnerGone(o) == o \in LockOwner \ alive

\* A random takeover name: a path that is gone and that no call still refers to.
Unused == {d \in Dir : takeover[d] = "absent"
                       /\ \A c \in alive : d \notin call[c].todo \cup {call[c].at}}
NewDir == CHOOSE d \in Unused : TRUE

At(c, pc) == c \in alive /\ call[c].pc = pc
Continue(c, r) == call' = [call EXCEPT ![c] = r]
Goto(c, pc) == Continue(c, [call[c] EXCEPT !.pc = pc])
Quiet == UNCHANGED <<canonical, takeover, alive>>

(***************************************************************************)
(* hasBlockingTakeover, before the candidate is renamed into place and     *)
(* again after.  A directory without a readable owner.json blocks.         *)
(***************************************************************************)
Scanned(r) ==
  [r EXCEPT !.pc = IF r.todo # {} THEN "read"
                   ELSE IF r.acquired THEN (IF r.blocked THEN "relList" ELSE "critical")
                   ELSE IF r.blocked THEN "wait" ELSE "rename"]

List(c) ==
  /\ At(c, "list")
  /\ Continue(c, Scanned([call[c] EXCEPT !.todo = Listed, !.blocked = FALSE]))
  /\ Quiet

Read(c) == \E d \in call[c].todo :
  LET r == [call[c] EXCEPT !.todo = @ \ {d}]
      o == takeover[d]
  IN /\ At(c, "read") /\ Quiet
     /\ IF ProvesOwnerGone(o)
        THEN Continue(c, [r EXCEPT !.pc = "erase", !.at = d, !.use = "scan"])
        ELSE Continue(c, Scanned([r EXCEPT !.blocked = @ \/ o # c]))

(***************************************************************************)
(* ownsLock: the canonical directory, then the takeover directories.       *)
(***************************************************************************)
Rename(c) ==
  /\ At(c, "rename")
  /\ IF canonical = "none"
     THEN canonical' = c /\ Continue(c, [call[c] EXCEPT !.pc = "owns", !.acquired = TRUE])
     ELSE Goto(c, "break") /\ UNCHANGED canonical
  /\ UNCHANGED <<takeover, alive>>

Owns(c) ==
  /\ At(c, "owns") /\ Quiet
  /\ Goto(c, IF canonical = c THEN "list" ELSE "ownsList")

Searched(r) == [r EXCEPT !.pc = IF r.todo = {} THEN "relList" ELSE "ownsRead"]

OwnsList(c) ==
  /\ At(c, "ownsList") /\ Quiet
  /\ Continue(c, Searched([call[c] EXCEPT !.todo = Listed]))

OwnsRead(c) == \E d \in call[c].todo :
  /\ At(c, "ownsRead") /\ Quiet
  /\ Continue(c, IF takeover[d] = c THEN [call[c] EXCEPT !.pc = "list", !.todo = {}]
                 ELSE Searched([call[c] EXCEPT !.todo = @ \ {d}]))

\* operation() returns or throws: releaseLock runs in the finally block.
Operate(c) ==
  /\ At(c, "critical") /\ Quiet
  /\ Continue(c, [call[c] EXCEPT !.pc = "relList", !.ran = TRUE])

(***************************************************************************)
(* releaseLock: twice, the canonical directory and then every takeover     *)
(* directory listed at the start of the pass.  A directory with the own    *)
(* token is renamed aside and removed.                                     *)
(***************************************************************************)
\* Mutant of Released: one pass only.
ReleasedAtOnce(r) ==
  [r EXCEPT !.pc = CASE r.todo # {}         -> "relRead"
                     [] r.todo = {} /\ r.ran  -> "done"
                     [] r.todo = {} /\ ~r.ran -> "break",
            !.acquired = @ /\ r.todo # {}]

Released(r) ==
  [r EXCEPT !.pc = CASE r.todo # {}              -> "relRead"
                     [] r.todo = {} /\ r.pass = 1 -> "relList"
                     [] r.todo = {} /\ r.pass = 2 -> IF r.ran THEN "done" ELSE "break",
            !.pass = IF r.todo = {} THEN 3 - @ ELSE @,
            !.acquired = @ /\ ~(r.todo = {} /\ r.pass = 2)]

RelList(c) ==
  /\ At(c, "relList") /\ Quiet
  /\ Continue(c, [call[c] EXCEPT !.pc = "relCanonical", !.todo = Listed])

RelCanonical(c) ==
  /\ At(c, "relCanonical") /\ Quiet
  /\ Continue(c, IF canonical = c THEN [call[c] EXCEPT !.pc = "relRename"] ELSE Released(call[c]))

\* The rename moves whatever is there by now; ENOENT is ignored.
RelRename(c) ==
  /\ At(c, "relRename")
  /\ canonical' = "none"
  /\ Continue(c, Released(call[c]))
  /\ UNCHANGED <<takeover, alive>>

RelRead(c) == \E d \in call[c].todo :
  LET r == [call[c] EXCEPT !.todo = @ \ {d}]
  IN /\ At(c, "relRead") /\ Quiet
     /\ Continue(c, IF takeover[d] = c THEN [r EXCEPT !.pc = "relTake", !.at = d] ELSE Released(r))

\* The name set aside, .meta.lock.takeover-X.release-Y, is a takeover name too.
RelTake(c) ==
  LET d == call[c].at
  IN /\ At(c, "relTake") /\ Unused # {}
     /\ takeover' = [takeover EXCEPT ![d] = "absent", ![NewDir] = takeover[d]]
     /\ Continue(c, [call[c] EXCEPT !.pc = "erase", !.at = NewDir, !.use = "release"])
     /\ UNCHANGED <<canonical, alive>>

(***************************************************************************)
(* breakAbandonedLock.                                                     *)
(***************************************************************************)
Break(c) ==
  /\ At(c, "break") /\ Quiet
  /\ IF ProvesOwnerGone(canonical)
     THEN Continue(c, [call[c] EXCEPT !.pc = "breakRename", !.seen = canonical])
     ELSE Goto(c, "wait")

BreakRename(c) ==
  /\ At(c, "breakRename")
  /\ IF canonical = "none"
     THEN Continue(c, [call[c] EXCEPT !.pc = "list", !.seen = "none"]) /\ UNCHANGED takeover
     ELSE /\ Unused # {}
          /\ takeover' = [takeover EXCEPT ![NewDir] = canonical]
          /\ Continue(c, [call[c] EXCEPT !.pc = "breakCheck", !.at = NewDir])
  /\ canonical' = "none"
  /\ UNCHANGED alive

\* Mutant of BreakCheck: the token of the moved owner is not compared.
BreakUnchecked(c) ==
  /\ At(c, "breakCheck") /\ Quiet
  /\ Continue(c, [call[c] EXCEPT !.pc = "erase", !.use = "break", !.seen = "none"])

\* A replacement owner moved by mistake is neither restored nor deleted.
BreakCheck(c) ==
  /\ At(c, "breakCheck") /\ Quiet
  /\ Continue(c, IF takeover[call[c].at] = call[c].seen
                 THEN [call[c] EXCEPT !.pc = "erase", !.use = "break", !.seen = "none"]
                 ELSE [call[c] EXCEPT !.pc = "wait", !.at = 0, !.seen = "none"])

(***************************************************************************)
(* rmSync of a takeover directory: owner.json first, then the directory.   *)
(***************************************************************************)
Erase(c) ==
  LET d == call[c].at
  IN /\ At(c, "erase")
     /\ takeover' = [takeover EXCEPT ![d] = IF @ = "absent" THEN @ ELSE "erased"]
     /\ Goto(c, "remove") /\ UNCHANGED <<canonical, alive>>

\* Mutant of Remove: the directory outlives its owner.json.
RemoveNothing(c) ==
  LET r == [call[c] EXCEPT !.at = 0]
  IN /\ At(c, "remove") /\ Quiet
     /\ Continue(c, CASE r.use = "scan"    -> Scanned(r)
                      [] r.use = "break"   -> [r EXCEPT !.pc = "list"]
                      [] r.use = "release" -> Released(r))

Remove(c) ==
  LET r == [call[c] EXCEPT !.at = 0]
  IN /\ At(c, "remove")
     /\ takeover' = [takeover EXCEPT ![call[c].at] = "absent"]
     /\ Continue(c, CASE r.use = "scan"    -> Scanned(r)
                      [] r.use = "break"   -> [r EXCEPT !.pc = "list"]
                      [] r.use = "release" -> Released(r))
     /\ UNCHANGED <<canonical, alive>>

(***************************************************************************)
(* A blocked caller sleeps and starts over, or throws                      *)
(* TerminalTaskLockBusyError once its deadline has passed.                 *)
(***************************************************************************)
Retry(c) == At(c, "wait") /\ Goto(c, "list") /\ Quiet
TimesOut(c) == At(c, "wait") /\ Deadline /\ Goto(c, "failed") /\ Quiet

Crash(c) ==
  /\ c \in alive /\ call[c].pc \notin {"done", "failed"}
  /\ Cardinality(Caller \ alive) < MaxCrashes
  /\ alive' = alive \ {c}
  /\ UNCHANGED <<canonical, takeover, call>>

Step(c) ==
  \/ List(c) \/ Read(c) \/ Rename(c) \/ Owns(c) \/ OwnsList(c) \/ OwnsRead(c)
  \/ Operate(c)
  \/ RelList(c) \/ RelCanonical(c) \/ RelRename(c) \/ RelRead(c) \/ RelTake(c)
  \/ Break(c) \/ BreakRename(c) \/ BreakCheck(c)
  \/ Erase(c) \/ Remove(c) \/ Retry(c)

Next == \E c \in Caller : Step(c) \/ TimesOut(c) \/ Crash(c)

Spec == Init /\ [][Next]_vars

\* A synchronous call runs on until it returns; only a crash stops it.
FairSpec == Spec /\ \A c \in Caller : WF_vars(Step(c))

(***************************************************************************)
(* Properties.                                                             *)
(***************************************************************************)
\* The state has its type.
TypeOK ==
  /\ canonical \in LockOwner \cup {"none"}
  /\ takeover \in [Dir -> LockOwner \cup {"erased", "absent"}]
  /\ alive \subseteq Caller
  /\ call \in [Caller -> Call]

\* At most one live caller runs its read-check-write of meta.json
\* (task-store.ts:954): the record's revision check relies on it.
MutualExclusion == Cardinality({c \in alive : call[c].pc = "critical"}) <= 1

\* A call that returned or threw leaves none of its lock directories behind, so
\* no live owner blocks the record for ever, wherever a contender had moved its
\* lock in the meantime (releaseLock's two passes).
NothingLeftBehind ==
  \A c \in alive : call[c].pc \in {"done", "failed"} =>
    /\ canonical # c
    /\ \A d \in Dir : takeover[d] # c

\* While no process dies, no contender retries for ever, a dead owner's lock
\* included: every call returns even if its deadline never passes.
EveryCallReturns ==
  \A c \in Caller : <>(alive # Caller \/ call[c].pc \in {"done", "failed"})
=============================================================================
