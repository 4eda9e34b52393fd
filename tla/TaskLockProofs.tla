---------------------------- MODULE TaskLockProofs ----------------------------
(***************************************************************************)
(* Proofs about TaskLock: what a call leaves behind, for any callers, and  *)
(* mutual exclusion, for two of them.                                      *)
(***************************************************************************)
EXTENDS TaskLock, FiniteSetTheorems, TLAPS

(***************************************************************************)
(* The invariant, for any callers.                                         *)
(***************************************************************************)
Erasing(r) == r.pc \in {"erase", "remove"}
Disposing(r) == Erasing(r) /\ r.use = "release"
Releasing(r) ==
  r.pc \in {"relList", "relCanonical", "relRename", "relRead", "relTake"} \/ Disposing(r)

\* Whether a call has put its candidate in place, by where it stands.
Flags(r) ==
  /\ r.pc \in {"rename", "break", "breakRename", "breakCheck", "wait", "done", "failed"}
       => ~r.acquired
  /\ r.pc \in {"owns", "ownsList", "ownsRead", "critical"} \/ Releasing(r) => r.acquired
  /\ Erasing(r) /\ r.use = "break" => ~r.acquired
  /\ r.pass = 2 => Releasing(r) /\ r.pc # "relRename"
  /\ Erasing(r) \/ r.pc \in {"relTake", "breakCheck"} => r.at \in Dir

Parked(c) == \E d \in Dir : takeover[d] = c

\* The lock of c is in one place at most, and in none unless it was acquired.
Placed(c, r) ==
  /\ canonical = c \/ Parked(c) => r.acquired
  /\ ~(canonical = c /\ Parked(c))
  /\ \A d, e \in Dir : takeover[d] = c /\ takeover[e] = c => d = e

\* What releaseLock knows of the lock it searches.  It does not come back to
\* .meta.lock, so the second pass lists it wherever it is.
Searches(c, r) ==
  /\ r.pass = 2 \/ r.pc \in {"relRead", "relTake"} \/ Disposing(r) => canonical # c
  /\ r.pass = 2 /\ r.pc \in {"relCanonical", "relRead"} =>
       \A d \in Dir : takeover[d] = c => d \in r.todo
  /\ r.pc = "relTake" => takeover[r.at] = c
  /\ Disposing(r) => \A d \in Dir : takeover[d] = c => r.pc = "erase" /\ d = r.at

\* Only a lock of the dead is erased, or one's own.
Erases(c, r) ==
  /\ Erasing(r) /\ takeover[r.at] \in alive => Disposing(r) /\ takeover[r.at] = c
  /\ r.pc \in {"breakRename", "breakCheck"} => r.seen \in LockOwner \ alive

LockInv ==
  /\ TypeOK
  /\ \A c \in Caller : Flags(call[c]) /\ Placed(c, call[c])
  /\ \A c \in alive : Searches(c, call[c]) /\ Erases(c, call[c])

(***************************************************************************)
(* The invariant, for two callers.                                         *)
(***************************************************************************)
\* A call that has acquired the lock and does not release it has it somewhere,
\* and one about to rename it aside has it unless a contender moved it.
Holds(c, r) ==
  (r.acquired /\ ~Releasing(r)) \/ r.pc = "relRename" => canonical = c \/ Parked(c)

\* A lock e that was moved to a takeover directory blocks the other caller, at r,
\* which has not acquired its own, until its owner, at s, takes it.
Blocks(e, s, r) ==
  Parked(e) /\ ~Disposing(s) =>
    /\ ~r.acquired /\ r.pc # "rename"
    /\ r.pc = "read" \/ (Erasing(r) /\ r.use = "scan") =>
         r.blocked \/ \E d \in r.todo : takeover[d] = e

PairInv ==
  /\ \A c \in alive : Holds(c, call[c])
  /\ \A c, e \in alive : c # e => Blocks(e, call[e], call[c])

-----------------------------------------------------------------------------
(***************************************************************************)
(* Records.                                                                *)
(***************************************************************************)
\* s differs from r in pc only.
Moved(r, s) ==
  /\ s.acquired = r.acquired /\ s.todo = r.todo /\ s.blocked = r.blocked /\ s.pass = r.pass
  /\ s.ran = r.ran /\ s.at = r.at /\ s.use = r.use /\ s.seen = r.seen

LEMMA Fields ==
  ASSUME NEW r \in Call
  PROVE  /\ r.pc \in Pc /\ r.acquired \in BOOLEAN /\ r.todo \subseteq Dir /\ r.blocked \in BOOLEAN
         /\ r.pass \in {1, 2} /\ r.ran \in BOOLEAN /\ r.at \in Dir \cup {0}
         /\ r.use \in {"scan", "break", "release"} /\ r.seen \in LockOwner \cup {"none"}
  BY DEF Call

LEMMA Going ==
  ASSUME NEW r \in Call, NEW p \in Pc
  PROVE  LET s == [r EXCEPT !.pc = p] IN s \in Call /\ s.pc = p /\ Moved(r, s)
  BY DEF Call, Moved

LEMMA Scanning ==
  ASSUME NEW r \in Call
  PROVE  LET s == Scanned(r) IN
         /\ s \in Call /\ Moved(r, s)
         /\ s.pc \in {"read", "relList", "critical", "wait", "rename"}
         /\ s.pc = "read" <=> r.todo # {}
         /\ s.pc \in {"relList", "critical"} => r.acquired
         /\ s.pc \in {"wait", "rename"} => ~r.acquired
         /\ s.pc = "rename" => ~r.blocked
<1> DEFINE p == IF r.todo # {} THEN "read"
                ELSE IF r.acquired THEN (IF r.blocked THEN "relList" ELSE "critical")
                ELSE IF r.blocked THEN "wait" ELSE "rename"
<1>1. Scanned(r) = [r EXCEPT !.pc = p]
  BY DEF Scanned
<1>2. PICK b \in BOOLEAN, a \in BOOLEAN : b = r.blocked /\ a = r.acquired
  BY Fields
<1>3. /\ p \in {"read", "relList", "critical", "wait", "rename"}
      /\ p = "read" <=> r.todo # {}
      /\ p \in {"relList", "critical"} => a
      /\ p \in {"wait", "rename"} => ~a
      /\ p = "rename" => ~b
  <2>1. CASE r.todo # {}
    BY <2>1
  <2>2. CASE r.todo = {} /\ r.acquired /\ r.blocked
    BY <1>2, <2>2
  <2>3. CASE r.todo = {} /\ r.acquired /\ ~r.blocked
    BY <1>2, <2>3
  <2>4. CASE r.todo = {} /\ ~r.acquired /\ r.blocked
    BY <1>2, <2>4
  <2>5. CASE r.todo = {} /\ ~r.acquired /\ ~r.blocked
    BY <1>2, <2>5
  <2> QED BY <2>1, <2>2, <2>3, <2>4, <2>5
<1> HIDE DEF p
<1>4. p \in Pc
  BY <1>3 DEF Pc
<1> QED BY <1>1, <1>2, <1>3, <1>4, Going

LEMMA Searching ==
  ASSUME NEW r \in Call
  PROVE  LET s == Searched(r) IN
         s \in Call /\ Moved(r, s) /\ s.pc \in {"relList", "ownsRead"}
<1> DEFINE p == IF r.todo = {} THEN "relList" ELSE "ownsRead"
<1>1. Searched(r) = [r EXCEPT !.pc = p] /\ p \in {"relList", "ownsRead"} /\ p \in Pc
  BY DEF Searched, Pc
<1> HIDE DEF p
<1> QED BY <1>1, Going

\* The end of a pass, or the next directory of it.
LEMMA Releases ==
  ASSUME NEW r \in Call
  PROVE  LET s == Released(r) IN
         /\ s \in Call /\ s.todo = r.todo /\ s.at = r.at /\ s.use = r.use /\ s.seen = r.seen
         /\ r.todo # {} => s.pc = "relRead" /\ s.pass = r.pass /\ s.acquired = r.acquired
         /\ r.todo = {} /\ r.pass = 1 => s.pc = "relList" /\ s.pass = 2 /\ s.acquired = r.acquired
         /\ r.todo = {} /\ r.pass = 2 => s.pc \in {"done", "break"} /\ s.pass = 1 /\ ~s.acquired
<1> DEFINE p == CASE r.todo # {}              -> "relRead"
                  [] r.todo = {} /\ r.pass = 1 -> "relList"
                  [] r.todo = {} /\ r.pass = 2 -> IF r.ran THEN "done" ELSE "break"
           q == IF r.todo = {} THEN 3 - r.pass ELSE r.pass
           a == r.acquired /\ ~(r.todo = {} /\ r.pass = 2)
<1>1. Released(r) = [r EXCEPT !.pc = p, !.pass = q, !.acquired = a]
  BY DEF Released
<1>2. /\ r.todo # {} => p = "relRead" /\ q = r.pass
      /\ r.todo = {} /\ r.pass = 1 => p = "relList" /\ q = 2
      /\ r.todo = {} /\ r.pass = 2 => p \in {"done", "break"} /\ q = 1
      /\ q \in {1, 2}
  BY Fields
<1>3. p \in Pc
  BY <1>2, Fields DEF Pc
<1>4. a \in BOOLEAN
  OBVIOUS
<1>5. /\ r.todo # {} => a = r.acquired
      /\ r.todo = {} /\ r.pass = 1 => a = r.acquired
      /\ r.todo = {} /\ r.pass = 2 => ~a
  BY Fields
<1> HIDE DEF p, q, a
<1>6. /\ Released(r) \in Call /\ Released(r).pc = p /\ Released(r).pass = q /\ Released(r).acquired = a
      /\ Released(r).todo = r.todo /\ Released(r).at = r.at /\ Released(r).use = r.use
      /\ Released(r).seen = r.seen
  BY <1>1, <1>2, <1>3, <1>4 DEF Call
<1> QED BY <1>2, <1>5, <1>6

\* The values a directory may have are told apart.
LEMMA Owners ==
  /\ \A o \in LockOwner : o \notin {"none", "erased", "absent"}
  /\ Caller \subseteq LockOwner
  BY LockAssumption DEF LockOwner

-----------------------------------------------------------------------------
(***************************************************************************)
(* Steps which only the call that takes them can see.                      *)
(***************************************************************************)
LEMMA Typed ==
  ASSUME LockInv, NEW x \in Caller
  PROVE  /\ call[x] \in Call /\ alive \subseteq Caller
         /\ call \in [Caller -> Call] /\ takeover \in [Dir -> LockOwner \cup {"erased", "absent"}]
         /\ canonical \in LockOwner \cup {"none"}
         /\ Flags(call[x]) /\ Placed(x, call[x])
         /\ x \in alive => Searches(x, call[x]) /\ Erases(x, call[x])
  BY DEF LockInv, TypeOK

\* The call of x stands at s.
LEMMA Continues ==
  ASSUME LockInv, NEW x \in Caller, NEW s, Continue(x, s)
  PROVE  call'[x] = s /\ \A c \in Caller : c # x => call'[c] = call[c]
  BY Typed DEF Continue

\* What s has to satisfy for the call of x to go on there.
Fits(x, s) == s \in Call /\ Flags(s) /\ Placed(x, s) /\ Searches(x, s) /\ Erases(x, s)

LEMMA QuietKeeps ==
  ASSUME LockInv, NEW x \in alive, NEW s, Fits(x, s), Continue(x, s), Quiet
  PROVE  LockInv'
<1>1. x \in Caller /\ alive \subseteq Caller /\ s \in Call /\ call \in [Caller -> Call]
  BY DEF LockInv, TypeOK, Fits
<1>2. call'[x] = s /\ \A c \in Caller : c # x => call'[c] = call[c]
  BY <1>1, Continues
<1>3. canonical' = canonical /\ takeover' = takeover /\ alive' = alive
  BY DEF Quiet
<1>4. TypeOK'
  BY <1>1, <1>3 DEF LockInv, TypeOK, Continue
<1>5. ASSUME NEW c \in Caller PROVE Flags(call'[c]) /\ Placed(c, call[c])'
  <2>1. Flags(call'[c]) /\ Placed(c, call'[c])
    BY <1>1, <1>2 DEF LockInv, Fits
  <2> QED BY <2>1, <1>3 DEF Placed, Parked
<1>6. ASSUME NEW c \in alive PROVE Searches(c, call[c])' /\ Erases(c, call[c])'
  <2>1. Searches(c, call'[c]) /\ Erases(c, call'[c])
    BY <1>1, <1>2 DEF LockInv, Fits
  <2> QED BY <2>1, <1>3 DEF Searches, Erases
<1> QED BY <1>3, <1>4, <1>5, <1>6 DEF LockInv

\* Outside of releaseLock a call has not begun its second pass.
LEMMA FirstPass ==
  ASSUME LockInv, NEW x \in Caller, ~Releasing(call[x])
  PROVE  call[x].pass = 1
  BY Typed, Fields DEF Flags

\* A place outside of releaseLock and of the removals.
LEMMA Plain ==
  ASSUME LockInv, NEW x \in alive, NEW s \in Call, Flags(s), s.pass = 1,
         s.acquired \/ s.acquired = call[x].acquired,
         ~Erasing(s), s.pc \notin {"relRead", "relTake", "breakRename", "breakCheck"}
  PROVE  Fits(x, s)
<1>1. x \in Caller /\ Placed(x, call[x]) /\ s.acquired \in BOOLEAN /\ call[x].acquired \in BOOLEAN
  BY Typed, Fields DEF LockInv, TypeOK
<1>2. Placed(x, s)
  BY <1>1 DEF Placed
<1>3. Searches(x, s) /\ Erases(x, s)
  BY DEF Searches, Erases, Disposing
<1> QED BY <1>2, <1>3 DEF Fits

\* What s has to satisfy for two callers.
PairFits(x, s) ==
  /\ ~Disposing(call[x]) /\ Holds(x, s)
  /\ \A e \in alive : e # x => Blocks(e, call[e], s)

\* The step of x goes on at s.
Goes(x, s) == Fits(x, s) /\ Continue(x, s) /\ Quiet /\ (PairInv => PairFits(x, s))

\* A call that acquires nothing, and neither scans nor is about to rename.
LEMMA PairPlain ==
  ASSUME LockInv, NEW x \in alive, NEW s \in Call, ~Disposing(call[x]),
         s.acquired => call[x].acquired,
         s.acquired /\ ~Releasing(s) => ~Releasing(call[x]),
         s.pc \notin {"read", "rename"}, ~(Erasing(s) /\ s.use = "scan"),
         s.pc = "relRename" => canonical = x
  PROVE  PairInv => PairFits(x, s)
<1> SUFFICES ASSUME PairInv PROVE PairFits(x, s)
  OBVIOUS
<1>1. Holds(x, s)
  BY DEF PairInv, Holds
<1>2. ASSUME NEW e \in alive, e # x PROVE Blocks(e, call[e], s)
  BY <1>2 DEF PairInv, Blocks
<1> QED BY <1>1, <1>2 DEF PairFits

\* Such a place outside of releaseLock.
LEMMA PlainStep ==
  ASSUME LockInv, NEW x \in alive, NEW s \in Call, ~Releasing(call[x]),
         s.acquired = call[x].acquired, s.pass = call[x].pass,
         \/ s.acquired /\ s.pc \in {"list", "ownsList", "ownsRead", "relList"}
         \/ ~s.acquired /\ s.pc \in {"list", "break", "wait", "failed"},
         Continue(x, s), Quiet
  PROVE  Goes(x, s)
<1> DEFINE r == call[x]
<1>1. x \in Caller /\ s.pass = 1
  BY FirstPass DEF LockInv, TypeOK
<1>2. ~Erasing(s) /\ Flags(s)
  BY <1>1 DEF Flags, Releasing, Disposing, Erasing
<1>3. Fits(x, s)
  BY <1>1, <1>2, Plain
<1>4. PairInv => PairFits(x, s)
  BY <1>2, PairPlain DEF Releasing
<1> QED BY <1>3, <1>4 DEF Goes

\* Where a caller that lives stands.
LEMMA Here ==
  ASSUME LockInv, NEW x \in alive
  PROVE  /\ x \in Caller /\ call[x] \in Call /\ Flags(call[x]) /\ Placed(x, call[x])
         /\ Searches(x, call[x]) /\ Erases(x, call[x])
         /\ call[x].acquired \in BOOLEAN /\ call[x].todo \subseteq Dir
         /\ Listed \subseteq Dir
  BY Typed, Fields DEF LockInv, TypeOK, Listed

LEMMA WaitStep ==
  ASSUME LockInv, NEW x \in alive, Retry(x) \/ TimesOut(x) PROVE \E s : Goes(x, s)
<1>1. PICK p \in {"list", "failed"} : Goto(x, p) /\ Quiet /\ call[x].pc = "wait"
  BY DEF Retry, TimesOut, At
<1> DEFINE r == call[x]
           s == [r EXCEPT !.pc = p]
<1>2. s \in Call /\ s.pc = p /\ Moved(r, s) /\ Continue(x, s)
  <2>1. p \in Pc /\ r \in Call /\ Continue(x, s)
    BY <1>1, Here DEF Pc, Goto
  <2> QED BY <2>1, Going
<1>3. ~r.acquired /\ ~Releasing(r)
  BY <1>1, Here DEF Flags, Releasing, Disposing, Erasing
<1> HIDE DEF s
<1> QED BY <1>1, <1>2, <1>3, PlainStep DEF Moved

LEMMA OwnsStep == ASSUME LockInv, NEW x \in alive, Owns(x) PROVE \E s : Goes(x, s)
<1>1. PICK p \in {"list", "ownsList"} : Goto(x, p) /\ Quiet /\ call[x].pc = "owns"
  BY DEF Owns, At
<1> DEFINE r == call[x]
           s == [r EXCEPT !.pc = p]
<1>2. s \in Call /\ s.pc = p /\ Moved(r, s) /\ Continue(x, s)
  <2>1. p \in Pc /\ r \in Call /\ Continue(x, s)
    BY <1>1, Here DEF Pc, Goto
  <2> QED BY <2>1, Going
<1>3. r.acquired /\ ~Releasing(r)
  BY <1>1, Here DEF Flags, Releasing, Disposing, Erasing
<1> HIDE DEF s
<1> QED BY <1>1, <1>2, <1>3, PlainStep DEF Moved

LEMMA OwnsListStep == ASSUME LockInv, NEW x \in alive, OwnsList(x) PROVE \E s : Goes(x, s)
<1> DEFINE r == call[x]
           m == [r EXCEPT !.todo = Listed]
           s == Searched(m)
<1>1. Continue(x, s) /\ Quiet /\ r.pc = "ownsList"
  BY DEF OwnsList, At
<1>2. m \in Call /\ m.acquired = r.acquired /\ m.pass = r.pass
  BY Here DEF Call
<1> HIDE DEF m
<1>3. s \in Call /\ s.pc \in {"relList", "ownsRead"} /\ s.acquired = r.acquired /\ s.pass = r.pass
  BY <1>2, Searching DEF Moved
<1>4. r.acquired /\ ~Releasing(r)
  BY <1>1, Here DEF Flags, Releasing, Disposing, Erasing
<1> HIDE DEF s
<1> QED BY <1>1, <1>3, <1>4, PlainStep

LEMMA OwnsReadStep == ASSUME LockInv, NEW x \in alive, OwnsRead(x) PROVE \E s : Goes(x, s)
<1> DEFINE r == call[x]
<1>1. PICK d \in r.todo :
        Continue(x, IF takeover[d] = x THEN [r EXCEPT !.pc = "list", !.todo = {}]
                    ELSE Searched([r EXCEPT !.todo = @ \ {d}]))
  BY DEF OwnsRead
<1> DEFINE a == [r EXCEPT !.pc = "list", !.todo = {}]
           m == [r EXCEPT !.todo = @ \ {d}]
           b == Searched(m)
           s == IF takeover[d] = x THEN a ELSE b
<1>2. Continue(x, s) /\ Quiet /\ r.pc = "ownsRead"
  BY <1>1 DEF OwnsRead, At
<1>3. a \in Call /\ a.pc = "list" /\ a.acquired = r.acquired /\ a.pass = r.pass
  BY Here DEF Call, Pc
<1>4. m \in Call /\ m.acquired = r.acquired /\ m.pass = r.pass
  BY Here DEF Call
<1> HIDE DEF m
<1>5. b \in Call /\ b.pc \in {"relList", "ownsRead"} /\ b.acquired = r.acquired /\ b.pass = r.pass
  BY <1>4, Searching DEF Moved
<1> HIDE DEF a, b
<1>6. s \in Call /\ s.pc \in {"list", "relList", "ownsRead"} /\ s.acquired = r.acquired
      /\ s.pass = r.pass
  BY <1>3, <1>5
<1>7. r.acquired /\ ~Releasing(r)
  BY <1>2, Here DEF Flags, Releasing, Disposing, Erasing
<1> HIDE DEF s
<1> QED BY <1>2, <1>6, <1>7, PlainStep

LEMMA OperateStep == ASSUME LockInv, NEW x \in alive, Operate(x) PROVE \E s : Goes(x, s)
<1> DEFINE r == call[x]
           s == [r EXCEPT !.pc = "relList", !.ran = TRUE]
<1>1. Continue(x, s) /\ Quiet /\ r.pc = "critical"
  BY DEF Operate, At
<1>2. s \in Call /\ s.pc = "relList" /\ s.acquired = r.acquired /\ s.pass = r.pass
  BY Here DEF Call, Pc
<1>3. r.acquired /\ ~Releasing(r)
  BY <1>1, Here DEF Flags, Releasing, Disposing, Erasing
<1> HIDE DEF s
<1> QED BY <1>1, <1>2, <1>3, PlainStep

\* A lock in a takeover directory is listed.
LEMMA Lists ==
  ASSUME LockInv, NEW x \in Caller, NEW d \in Dir, takeover[d] = x
  PROVE  d \in Listed
  BY Owners DEF Listed

LEMMA RelListStep == ASSUME LockInv, NEW x \in alive, RelList(x) PROVE \E s : Goes(x, s)
<1> DEFINE r == call[x]
           s == [r EXCEPT !.pc = "relCanonical", !.todo = Listed]
<1>1. Continue(x, s) /\ Quiet /\ r.pc = "relList"
  BY DEF RelList, At
<1>2. s \in Call /\ s.pc = "relCanonical" /\ s.todo = Listed /\ s.acquired = r.acquired
      /\ s.pass = r.pass
  BY Here DEF Call, Pc
<1>3. r.acquired /\ ~Disposing(r)
  BY <1>1, Here DEF Flags, Releasing, Disposing, Erasing
<1> HIDE DEF s
<1>4. Flags(s) /\ Erases(x, s) /\ Placed(x, s)
  BY <1>2, <1>3, Here DEF Flags, Releasing, Disposing, Erasing, Erases, Placed
<1>5. Searches(x, s)
  <2>1. s.pass = 2 => canonical # x
    BY <1>2, Here DEF Searches
  <2>2. \A d \in Dir : takeover[d] = x => d \in s.todo
    BY <1>2, Here, Lists
  <2> QED BY <1>2, <2>1, <2>2 DEF Searches, Disposing, Erasing
<1>6. PairInv => PairFits(x, s)
  BY <1>2, <1>3, PairPlain DEF Releasing, Erasing
<1> QED BY <1>1, <1>2, <1>4, <1>5, <1>6 DEF Goes, Fits

\* The call goes on to the next directory of the pass, or to its end.
LEMMA ReleasedStep ==
  ASSUME LockInv, NEW x \in alive, NEW m \in Call, m.acquired, call[x].acquired, canonical # x,
         m.pass = 2 => \A d \in Dir : takeover[d] = x => d \in m.todo,
         ~Disposing(call[x]), Continue(x, Released(m)), Quiet
  PROVE  Goes(x, Released(m))
<1> DEFINE s == Released(m)
<1>1. /\ s \in Call /\ s.todo = m.todo
      /\ m.todo # {} => s.pc = "relRead" /\ s.pass = m.pass /\ s.acquired = m.acquired
      /\ m.todo = {} /\ m.pass = 1 => s.pc = "relList" /\ s.pass = 2 /\ s.acquired = m.acquired
      /\ m.todo = {} /\ m.pass = 2 => s.pc \in {"done", "break"} /\ s.pass = 1 /\ ~s.acquired
      /\ m.pass \in {1, 2}
  BY Releases, Fields
<1> HIDE DEF s
<1>2. Flags(s)
  BY <1>1 DEF Flags, Releasing, Disposing, Erasing
<1>3. ~s.acquired => ~Parked(x)
  BY <1>1 DEF Parked
<1>4. Placed(x, s)
  BY <1>3, Here DEF Placed
<1>5. Searches(x, s)
  <2>1. s.pass = 2 /\ s.pc = "relRead" => \A d \in Dir : takeover[d] = x => d \in s.todo
    BY <1>1
  <2>2. s.pc \notin {"relCanonical", "relTake"} /\ ~Disposing(s)
    BY <1>1 DEF Disposing, Erasing
  <2> QED BY <2>1, <2>2 DEF Searches
<1>6. Erases(x, s)
  BY <1>1 DEF Erases, Erasing
<1>7. PairInv => PairFits(x, s)
  <2>1. s.pc \in {"relRead", "relList", "done", "break"} /\ (s.acquired => Releasing(s))
    BY <1>1 DEF Releasing
  <2>2. ~Erasing(s)
    BY <2>1 DEF Erasing
  <2> QED BY <1>1, <2>1, <2>2, PairPlain
<1> QED BY <1>1, <1>2, <1>4, <1>5, <1>6, <1>7 DEF Goes, Fits, s

LEMMA RelCanonicalStep ==
  ASSUME LockInv, NEW x \in alive, RelCanonical(x) PROVE \E s : Goes(x, s)
<1> DEFINE r == call[x]
<1>1. r.pc = "relCanonical" /\ Quiet
      /\ Continue(x, IF canonical = x THEN [r EXCEPT !.pc = "relRename"] ELSE Released(r))
  BY DEF RelCanonical, At
<1>2. r \in Call /\ r.acquired /\ ~Disposing(r)
  BY <1>1, Here DEF Flags, Releasing, Disposing, Erasing
<1>3. CASE canonical # x
  <2>1. r.pass = 2 => \A d \in Dir : takeover[d] = x => d \in r.todo
    BY <1>1, Here DEF Searches
  <2> QED BY <1>1, <1>2, <1>3, <2>1, ReleasedStep
<1>4. CASE canonical = x
  <2> DEFINE s == [r EXCEPT !.pc = "relRename"]
  <2>1. s \in Call /\ s.pc = "relRename" /\ Moved(r, s)
    BY <1>2, Going DEF Pc
  <2>2. r.pass = 1
    BY <1>2, <1>4, Here, Fields DEF Searches
  <2>3. Continue(x, s)
    BY <1>1, <1>4
  <2> HIDE DEF s
  <2>4. Flags(s) /\ Erases(x, s) /\ Placed(x, s)
    BY <1>2, <2>1, <2>2, Here DEF Flags, Releasing, Disposing, Erasing, Erases, Placed, Moved
  <2>5. Searches(x, s)
    BY <2>1, <2>2 DEF Searches, Disposing, Erasing, Moved
  <2>6. PairInv => PairFits(x, s)
    BY <1>2, <1>4, <2>1, PairPlain DEF Releasing, Erasing, Moved
  <2> QED BY <1>1, <2>1, <2>3, <2>4, <2>5, <2>6 DEF Goes, Fits
<1> QED BY <1>3, <1>4

LEMMA RelReadStep == ASSUME LockInv, NEW x \in alive, RelRead(x) PROVE \E s : Goes(x, s)
<1> DEFINE r == call[x]
<1>1. PICK d \in r.todo :
        Continue(x, IF takeover[d] = x THEN [[r EXCEPT !.todo = @ \ {d}] EXCEPT !.pc = "relTake", !.at = d]
                    ELSE Released([r EXCEPT !.todo = @ \ {d}]))
  BY DEF RelRead
<1> DEFINE m == [r EXCEPT !.todo = @ \ {d}]
<1>2. r.pc = "relRead" /\ Quiet /\ r \in Call /\ d \in Dir
  BY Here DEF RelRead, At
<1>3. r.acquired /\ ~Disposing(r) /\ canonical # x
  BY <1>2, Here DEF Flags, Releasing, Disposing, Erasing, Searches
<1>4. m \in Call /\ m.acquired = r.acquired /\ m.pass = r.pass /\ m.todo = r.todo \ {d} /\ m.use = r.use
  BY <1>2, Here DEF Call
<1>5. r.pass = 2 => \A e \in Dir : takeover[e] = x => e \in r.todo
  BY <1>2, Here DEF Searches
<1>6. CASE takeover[d] # x
  <2>1. m.pass = 2 => \A e \in Dir : takeover[e] = x => e \in m.todo
    BY <1>4, <1>5, <1>6
  <2>2. Continue(x, Released(m))
    BY <1>1, <1>6
  <2> HIDE DEF m
  <2> QED BY <1>2, <1>3, <1>4, <2>1, <2>2, ReleasedStep
<1>7. CASE takeover[d] = x
  <2> DEFINE s == [m EXCEPT !.pc = "relTake", !.at = d]
  <2>1. Continue(x, s)
    BY <1>1, <1>7
  <2>2. s \in Call /\ s.pc = "relTake" /\ s.at = d /\ s.acquired = r.acquired /\ s.pass = r.pass
    BY <1>2, <1>4 DEF Call, Pc
  <2> HIDE DEF m, s
  <2>3. Flags(s) /\ Erases(x, s) /\ Placed(x, s)
    BY <1>2, <1>3, <2>2, Here DEF Flags, Releasing, Disposing, Erasing, Erases, Placed
  <2>4. Searches(x, s)
    BY <1>3, <1>7, <2>2 DEF Searches, Disposing, Erasing
  <2>5. PairInv => PairFits(x, s)
    BY <1>3, <2>2, PairPlain DEF Releasing, Erasing
  <2> QED BY <1>2, <2>1, <2>2, <2>3, <2>4, <2>5 DEF Goes, Fits
<1> QED BY <1>6, <1>7

LEMMA BreakStep == ASSUME LockInv, NEW x \in alive, Break(x) PROVE \E s : Goes(x, s)
<1> DEFINE r == call[x]
<1>1. r.pc = "break" /\ Quiet /\ r \in Call /\ ~r.acquired /\ ~Releasing(r) /\ ~Disposing(r)
  BY Here DEF Break, At, Flags, Releasing, Disposing, Erasing
<1>2. CASE ProvesOwnerGone(canonical)
  <2> DEFINE s == [r EXCEPT !.pc = "breakRename", !.seen = canonical]
  <2>1. Continue(x, s) /\ canonical \in LockOwner \ alive
    BY <1>2 DEF Break, ProvesOwnerGone
  <2>2. s \in Call /\ s.pc = "breakRename" /\ s.seen = canonical /\ s.acquired = r.acquired
        /\ s.pass = r.pass
    BY <1>1, <2>1 DEF Call, Pc
  <2>3. s.pass = 1
    BY <1>1, <2>2, FirstPass, Here
  <2> HIDE DEF s
  <2>4. Flags(s) /\ Erases(x, s) /\ Placed(x, s) /\ Searches(x, s)
    BY <1>1, <2>1, <2>2, <2>3, Here
       DEF Flags, Releasing, Disposing, Erasing, Erases, Placed, Searches
  <2>5. PairInv => PairFits(x, s)
    BY <1>1, <2>2, PairPlain DEF Erasing
  <2> QED BY <1>1, <2>1, <2>2, <2>4, <2>5 DEF Goes, Fits
<1>3. CASE ~ProvesOwnerGone(canonical)
  <2> DEFINE s == [r EXCEPT !.pc = "wait"]
  <2>1. Continue(x, s)
    BY <1>3 DEF Break, Goto
  <2>2. s \in Call /\ s.pc = "wait" /\ Moved(r, s)
    BY <1>1, Going DEF Pc
  <2> HIDE DEF s
  <2> QED BY <1>1, <2>1, <2>2, PlainStep DEF Moved
<1> QED BY <1>2, <1>3

LEMMA BreakCheckStep == ASSUME LockInv, NEW x \in alive, BreakCheck(x) PROVE \E s : Goes(x, s)
<1> DEFINE r == call[x]
<1>1. r.pc = "breakCheck" /\ Quiet /\ r \in Call /\ ~r.acquired /\ ~Releasing(r) /\ ~Disposing(r)
      /\ r.at \in Dir
  BY Here DEF BreakCheck, At, Flags, Releasing, Disposing, Erasing
<1>2. CASE takeover[r.at] = r.seen
  <2> DEFINE s == [r EXCEPT !.pc = "erase", !.use = "break", !.seen = "none"]
  <2>1. Continue(x, s)
    BY <1>2 DEF BreakCheck
  <2>2. s \in Call /\ s.pc = "erase" /\ s.use = "break" /\ s.acquired = r.acquired
        /\ s.pass = r.pass /\ s.at = r.at
    BY <1>1 DEF Call, Pc
  <2>3. s.pass = 1 /\ takeover[s.at] \notin alive
    BY <1>1, <1>2, <2>2, FirstPass, Here DEF Erases
  <2> HIDE DEF s
  <2>4. Flags(s) /\ Erases(x, s) /\ Placed(x, s) /\ Searches(x, s)
    BY <1>1, <2>2, <2>3, Here DEF Flags, Releasing, Disposing, Erasing, Erases, Placed, Searches
  <2>5. PairInv => PairFits(x, s)
    BY <1>1, <2>2, PairPlain DEF Erasing
  <2> QED BY <1>1, <2>1, <2>2, <2>4, <2>5 DEF Goes, Fits
<1>3. CASE takeover[r.at] # r.seen
  <2> DEFINE s == [r EXCEPT !.pc = "wait", !.at = 0, !.seen = "none"]
  <2>1. Continue(x, s)
    BY <1>3 DEF BreakCheck
  <2>2. s \in Call /\ s.pc = "wait" /\ s.acquired = r.acquired /\ s.pass = r.pass
    BY <1>1 DEF Call, Pc
  <2> HIDE DEF s
  <2> QED BY <1>1, <2>1, <2>2, PlainStep
<1> QED BY <1>2, <1>3

LEMMA ListStep == ASSUME LockInv, NEW x \in alive, List(x) PROVE \E s : Goes(x, s)
<1> DEFINE r == call[x]
           m == [r EXCEPT !.todo = Listed, !.blocked = FALSE]
           s == Scanned(m)
<1>1. r.pc = "list" /\ Continue(x, s) /\ Quiet /\ r \in Call /\ ~Releasing(r) /\ ~Disposing(r)
  BY Here DEF List, At, Releasing, Disposing, Erasing
<1>2. m \in Call /\ m.acquired = r.acquired /\ m.pass = r.pass /\ m.todo = Listed
  BY <1>1, Here DEF Call
<1> HIDE DEF m
<1>3. /\ s \in Call /\ s.acquired = r.acquired /\ s.pass = r.pass /\ s.todo = Listed
      /\ s.pc \in {"read", "relList", "critical", "wait", "rename"}
      /\ s.pc = "read" <=> Listed # {}
      /\ s.pc \in {"relList", "critical"} => r.acquired
      /\ s.pc \in {"wait", "rename"} => ~r.acquired
  BY <1>2, Scanning DEF Moved
<1> HIDE DEF s
<1>4. s.pass = 1 /\ ~Erasing(s)
  BY <1>1, <1>3, FirstPass, Here DEF Erasing
<1>5. Flags(s)
  BY <1>3, <1>4 DEF Flags, Releasing, Disposing
<1>6. Fits(x, s)
  BY <1>3, <1>4, <1>5, Plain
<1>7. ASSUME PairInv PROVE PairFits(x, s)
  <2>1. Holds(x, s)
    BY <1>1, <1>3, <1>7 DEF PairInv, Holds
  <2>2. ASSUME NEW e \in alive, e # x PROVE Blocks(e, call[e], s)
    <3> SUFFICES ASSUME Parked(e), ~Disposing(call[e])
                 PROVE  ~s.acquired /\ s.pc # "rename" /\ \E d \in s.todo : takeover[d] = e
      BY DEF Blocks
    <3>1. ~r.acquired
      BY <1>7, <2>2 DEF PairInv, Blocks
    <3>2. PICK d \in Dir : takeover[d] = e
      BY DEF Parked
    <3>3. d \in Listed
      BY <3>2, Here, Lists
    <3> QED BY <1>3, <3>1, <3>2, <3>3
  <2> QED BY <1>1, <2>1, <2>2 DEF PairFits
<1> QED BY <1>1, <1>6, <1>7 DEF Goes

LEMMA ReadStep == ASSUME LockInv, NEW x \in alive, Read(x) PROVE \E s : Goes(x, s)
<1> DEFINE r == call[x]
<1>1. PICK d \in r.todo :
        IF ProvesOwnerGone(takeover[d])
        THEN Continue(x, [[r EXCEPT !.todo = @ \ {d}] EXCEPT !.pc = "erase", !.at = d, !.use = "scan"])
        ELSE Continue(x, Scanned([[r EXCEPT !.todo = @ \ {d}] EXCEPT !.blocked = @ \/ takeover[d] # x]))
  BY DEF Read
<1> DEFINE m == [r EXCEPT !.todo = @ \ {d}]
<1>2. /\ r.pc = "read" /\ Quiet /\ r \in Call /\ d \in Dir /\ ~Releasing(r) /\ ~Disposing(r)
      /\ r.pass = 1 /\ x \in Caller
  BY Here, FirstPass DEF Read, At, Releasing, Disposing, Erasing
<1>3. /\ m \in Call /\ m.acquired = r.acquired /\ m.pass = r.pass /\ m.todo = r.todo \ {d}
      /\ m.blocked = r.blocked
  BY <1>2, Here DEF Call
<1>4. ASSUME NEW e \in alive, e # x, Parked(e), ~Disposing(call[e]), PairInv
      PROVE  ~r.acquired /\ (r.blocked \/ \E c \in r.todo : takeover[c] = e)
  BY <1>2, <1>4 DEF PairInv, Blocks
<1>5. CASE ProvesOwnerGone(takeover[d])
  <2> DEFINE s == [m EXCEPT !.pc = "erase", !.at = d, !.use = "scan"]
  <2>1. Continue(x, s) /\ takeover[d] \notin alive
    BY <1>1, <1>5 DEF ProvesOwnerGone
  <2>2. /\ s \in Call /\ s.pc = "erase" /\ s.at = d /\ s.use = "scan" /\ s.acquired = r.acquired
        /\ s.pass = 1 /\ s.todo = r.todo \ {d} /\ s.blocked = r.blocked
    BY <1>2, <1>3 DEF Call, Pc
  <2> HIDE DEF m, s
  <2>3. Flags(s) /\ Erases(x, s) /\ Placed(x, s) /\ Searches(x, s)
    BY <1>2, <2>1, <2>2, Here DEF Flags, Releasing, Disposing, Erasing, Erases, Placed, Searches
  <2>4. ASSUME PairInv PROVE PairFits(x, s)
    <3>1. Holds(x, s)
      BY <1>2, <2>2, <2>4 DEF PairInv, Holds
    <3>2. ASSUME NEW e \in alive, e # x PROVE Blocks(e, call[e], s)
      BY <1>4, <2>1, <2>2, <2>4, <3>2 DEF Blocks
    <3> QED BY <1>2, <3>1, <3>2 DEF PairFits
  <2> QED BY <1>2, <2>1, <2>2, <2>3, <2>4 DEF Goes, Fits
<1>6. CASE ~ProvesOwnerGone(takeover[d])
  <2> DEFINE n == [m EXCEPT !.blocked = @ \/ takeover[d] # x]
             s == Scanned(n)
  <2>1. Continue(x, s)
    BY <1>1, <1>6
  <2>2. /\ n \in Call /\ n.acquired = r.acquired /\ n.pass = 1 /\ n.todo = r.todo \ {d}
        /\ n.blocked = (r.blocked \/ takeover[d] # x)
    BY <1>2, <1>3, Fields DEF Call
  <2> HIDE DEF m, n
  <2>3. /\ s \in Call /\ s.acquired = r.acquired /\ s.pass = 1 /\ s.todo = r.todo \ {d}
        /\ s.blocked = n.blocked
        /\ s.pc \in {"read", "relList", "critical", "wait", "rename"}
        /\ s.pc = "read" <=> s.todo # {}
        /\ s.pc \in {"relList", "critical"} => r.acquired
        /\ s.pc \in {"wait", "rename"} => ~r.acquired
        /\ s.pc = "rename" => ~s.blocked
    BY <2>2, Scanning DEF Moved
  <2> HIDE DEF s
  <2>4. ~Erasing(s) /\ Flags(s)
    BY <2>3 DEF Flags, Releasing, Disposing, Erasing
  <2>5. Fits(x, s)
    BY <2>3, <2>4, Plain
  <2>6. ASSUME PairInv PROVE PairFits(x, s)
    <3>1. Holds(x, s)
      BY <1>2, <2>3, <2>6 DEF PairInv, Holds
    <3>2. ASSUME NEW e \in alive, e # x PROVE Blocks(e, call[e], s)
      <4> SUFFICES ASSUME Parked(e), ~Disposing(call[e])
                   PROVE  /\ ~s.acquired /\ s.pc # "rename"
                          /\ s.blocked \/ \E c \in s.todo : takeover[c] = e
        BY DEF Blocks
      <4>1. ~r.acquired /\ (r.blocked \/ \E c \in r.todo : takeover[c] = e)
        BY <1>4, <2>6, <3>2
      <4>2. s.blocked \/ \E c \in s.todo : takeover[c] = e
        BY <2>2, <2>3, <3>2, <4>1
      <4> QED BY <2>3, <4>1, <4>2
    <3> QED BY <1>2, <3>1, <3>2 DEF PairFits
  <2> QED BY <1>2, <2>1, <2>5, <2>6 DEF Goes
<1> QED BY <1>5, <1>6

\* Such a step keeps the invariant of two callers, as any two of them are.
LEMMA QuietPairs ==
  ASSUME LockInv, PairInv, NEW x \in alive, NEW s, PairFits(x, s), Continue(x, s), Quiet
  PROVE  PairInv'
<1>1. x \in Caller /\ alive \subseteq Caller
  BY Here DEF LockInv, TypeOK
<1>2. call'[x] = s /\ \A c \in Caller : c # x => call'[c] = call[c]
  BY <1>1, Continues
<1>3. canonical' = canonical /\ takeover' = takeover /\ alive' = alive
  BY DEF Quiet
<1>4. ASSUME NEW c \in alive PROVE Holds(c, call[c])'
  <2>1. Holds(c, call'[c])
    BY <1>1, <1>2 DEF PairInv, PairFits
  <2> QED BY <1>3, <2>1 DEF Holds, Parked
<1>5. ASSUME NEW c \in alive, NEW e \in alive, c # e PROVE Blocks(e, call[e], call[c])'
  <2>1. Blocks(e, call'[e], call'[c])
    <3>1. CASE e = x
      BY <1>1, <1>2, <1>5, <3>1 DEF PairInv, PairFits, Blocks
    <3>2. CASE e # x
      BY <1>1, <1>2, <1>5, <3>2 DEF PairInv, PairFits
    <3> QED BY <3>1, <3>2
  <2> QED BY <1>3, <2>1 DEF Blocks, Parked
<1> QED BY <1>3, <1>4, <1>5 DEF PairInv

-----------------------------------------------------------------------------
(***************************************************************************)
(* Steps which change the lock.                                            *)
(***************************************************************************)
\* There are two callers at most.
Two == \A a, b, c \in Caller : a = b \/ a = c \/ b = c

\* A directory of a fresh name is nobody's.
LEMMA Fresh ==
  ASSUME LockInv, Unused # {}
  PROVE  /\ NewDir \in Dir /\ takeover[NewDir] = "absent"
         /\ \A c \in alive : NewDir # call[c].at /\ NewDir \notin call[c].todo
  BY DEF NewDir, Unused

\* What a call that takes no step keeps of its place,
LEMMA StaysPlaced ==
  ASSUME LockInv, NEW c \in Caller, call'[c] = call[c],
         canonical' = c => canonical = c,
         \A d \in Dir : takeover'[d] = c => takeover[d] = c
  PROVE  Flags(call'[c]) /\ Placed(c, call[c])'
  BY Typed DEF Placed, Parked

\* and of what it searches and erases.
LEMMA Unseen ==
  ASSUME LockInv, NEW c \in alive, call'[c] = call[c], alive' = alive,
         canonical' = c => canonical = c,
         \A d \in Dir : takeover'[d] = c <=> takeover[d] = c,
         Erasing(call[c]) /\ takeover'[call[c].at] \in alive =>
           takeover[call[c].at] = takeover'[call[c].at]
  PROVE  Searches(c, call[c])' /\ Erases(c, call[c])'
<1>1. Flags(call[c]) /\ Searches(c, call[c]) /\ Erases(c, call[c])
  BY Here
<1>2. Searches(c, call[c])'
  <2>1. call[c].pc = "relTake" => call[c].at \in Dir
    BY <1>1 DEF Flags
  <2> QED BY <1>1, <2>1 DEF Searches
<1>3. Erases(c, call[c])'
  BY <1>1 DEF Erases
<1> QED BY <1>2, <1>3

\* Whoever has a lock that stays where it is holds it.
LEMMA StaysHeld ==
  ASSUME PairInv, NEW c \in alive, call'[c] = call[c],
         canonical = c => canonical' = c \/ Parked(c)',
         \A d \in Dir : takeover'[d] = c <=> takeover[d] = c
  PROVE  Holds(c, call[c])'
  BY DEF PairInv, Holds, Parked

LEMMA RenameStep ==
  ASSUME LockInv, NEW x \in alive, Rename(x)
  PROVE  LockInv' /\ (PairInv /\ Two => PairInv')
<1> DEFINE r == call[x]
<1>0. /\ r.pc = "rename" /\ x \in Caller /\ r \in Call /\ ~r.acquired /\ ~Releasing(r)
      /\ r.pass = 1 /\ UNCHANGED <<takeover, alive>> /\ ~Parked(x)
  BY Here, FirstPass DEF Rename, At, Flags, Releasing, Disposing, Erasing, Placed
<1>1. CASE canonical # "none"
  <2> DEFINE s == [r EXCEPT !.pc = "break"]
  <2>1. Continue(x, s) /\ Quiet
    BY <1>1 DEF Rename, Goto, Quiet
  <2>2. s \in Call /\ s.pc = "break" /\ Moved(r, s)
    BY <1>0, Going DEF Pc
  <2> HIDE DEF s
  <2>3. Goes(x, s)
    BY <1>0, <2>1, <2>2, PlainStep DEF Moved
  <2> QED BY <2>3, QuietKeeps, QuietPairs DEF Goes
<1>2. CASE canonical = "none"
  <2> DEFINE s == [r EXCEPT !.pc = "owns", !.acquired = TRUE]
  <2>1. Continue(x, s) /\ canonical' = x
    BY <1>2 DEF Rename
  <2>2. s \in Call /\ s.pc = "owns" /\ s.acquired /\ s.pass = 1
    BY <1>0 DEF Call, Pc
  <2> HIDE DEF s
  <2>3. call'[x] = s /\ \A c \in Caller : c # x => call'[c] = call[c]
    BY <1>0, <2>1, Continues
  <2>4. x # "none" /\ \A c \in Caller : canonical # c
    BY <1>0, <1>2, Owners
  <2>5. TypeOK'
    BY <1>0, <2>1, <2>2, Owners DEF LockInv, TypeOK, Continue
  <2>6. Flags(s) /\ Placed(x, call[x])' /\ Searches(x, call[x])' /\ Erases(x, call[x])'
    BY <1>0, <2>1, <2>2, <2>3, Here
       DEF Flags, Releasing, Disposing, Erasing, Placed, Parked, Searches, Erases
  <2>7. LockInv'
    <3>1. ASSUME NEW c \in Caller PROVE Flags(call'[c]) /\ Placed(c, call[c])'
      BY <1>0, <2>1, <2>3, <2>6, StaysPlaced
    <3>2. ASSUME NEW c \in alive PROVE Searches(c, call[c])' /\ Erases(c, call[c])'
      <4>1. CASE c # x
        BY <1>0, <2>1, <2>3, <4>1, Here, Unseen
      <4> QED BY <2>6, <4>1
    <3> QED BY <1>0, <2>5, <3>1, <3>2 DEF LockInv
  <2>8. ASSUME PairInv, Two PROVE PairInv'
    <3>1. ASSUME NEW c \in alive PROVE Holds(c, call[c])'
      <4>1. CASE c # x
        BY <1>0, <2>3, <2>4, <2>8, <4>1, Here, StaysHeld
      <4>2. CASE c = x
        BY <2>1, <4>2 DEF Holds
      <4> QED BY <4>1, <4>2
    <3>2. ASSUME NEW c \in alive, NEW e \in alive, c # e PROVE Blocks(e, call[e], call[c])'
      <4>1. CASE c = x
        <5>1. Blocks(e, call[e], r)
          BY <2>8, <3>2, <4>1 DEF PairInv
        <5>2. ~(Parked(e) /\ ~Disposing(call[e]))
          BY <1>0, <5>1 DEF Blocks
        <5>3. ~(Parked(e)' /\ ~Disposing(call[e])')
          BY <1>0, <2>3, <3>2, <4>1, <5>2, Here DEF Parked, Disposing, Erasing
        <5> QED BY <5>3 DEF Blocks
      <4>2. CASE e = x
        BY <1>0, <4>2 DEF Blocks, Parked
      <4> QED BY <1>0, <2>8, <3>2, <4>1, <4>2, Here DEF Two
    <3> QED BY <1>0, <3>1, <3>2 DEF PairInv
  <2> QED BY <2>7, <2>8
<1> QED BY <1>1, <1>2

LEMMA RelRenameStep ==
  ASSUME LockInv, NEW x \in alive, RelRename(x)
  PROVE  LockInv' /\ (PairInv /\ Two => PairInv')
<1> DEFINE r == call[x]
           s == Released(r)
<1>0. /\ r.pc = "relRename" /\ x \in Caller /\ r \in Call /\ r.acquired /\ ~Disposing(r)
      /\ r.pass = 1 /\ canonical' = "none" /\ Continue(x, s) /\ UNCHANGED <<takeover, alive>>
      /\ alive \subseteq Caller
  BY Here, Fields DEF RelRename, At, Flags, Releasing, Disposing, Erasing, LockInv, TypeOK
<1>1. /\ s \in Call /\ s.acquired /\ s.pc \in {"relRead", "relList"}
      /\ s.pass = 2 => s.pc = "relList"
  BY <1>0, Releases
<1> HIDE DEF s
<1>2. call'[x] = s /\ \A c \in Caller : c # x => call'[c] = call[c]
  BY <1>0, Continues
<1>3. \A c \in Caller : canonical' # c
  BY <1>0, Owners
<1>4. TypeOK'
  BY <1>0, <1>1 DEF LockInv, TypeOK, Continue
<1>5. Flags(s) /\ Placed(x, call[x])' /\ Searches(x, call[x])' /\ Erases(x, call[x])'
  BY <1>0, <1>1, <1>2, <1>3, Here
     DEF Flags, Releasing, Disposing, Erasing, Placed, Parked, Searches, Erases
<1>6. LockInv'
  <2>1. ASSUME NEW c \in Caller PROVE Flags(call'[c]) /\ Placed(c, call[c])'
    BY <1>0, <1>2, <1>3, <1>5, StaysPlaced
  <2>2. ASSUME NEW c \in alive PROVE Searches(c, call[c])' /\ Erases(c, call[c])'
    <3>1. CASE c # x
      BY <1>0, <1>2, <1>3, <3>1, Here, Unseen
    <3> QED BY <1>5, <3>1
  <2> QED BY <1>0, <1>4, <2>1, <2>2 DEF LockInv
<1>7. ASSUME PairInv, Two PROVE PairInv'
  <2>1. ASSUME NEW c \in alive PROVE Holds(c, call[c])'
    <3>1. CASE c # x
      <4>1. canonical # c
        <5> SUFFICES ASSUME canonical = c PROVE FALSE
          OBVIOUS
        <5>1. Holds(x, r) /\ Blocks(x, r, call[c])
          BY <1>7, <3>1 DEF PairInv
        <5>2. Parked(x)
          BY <1>0, <3>1, <5>1 DEF Holds
        <5>3. ~call[c].acquired
          BY <1>0, <5>1, <5>2 DEF Blocks
        <5> QED BY <5>3, Here DEF Placed
      <4> QED BY <1>0, <1>2, <1>7, <3>1, <4>1, StaysHeld
    <3>2. CASE c = x
      BY <1>1, <1>2, <3>2 DEF Holds, Releasing
    <3> QED BY <3>1, <3>2
  <2>2. ASSUME NEW c \in alive, NEW e \in alive, c # e PROVE Blocks(e, call[e], call[c])'
    <3>1. Blocks(e, call[e], call[c])
      BY <1>7, <2>2 DEF PairInv
    <3>2. CASE c = x
      <4>1. ~(Parked(e) /\ ~Disposing(call[e]))
        BY <1>0, <3>1, <3>2 DEF Blocks
      <4>2. ~(Parked(e)' /\ ~Disposing(call[e])')
        BY <1>0, <1>2, <2>2, <3>2, <4>1 DEF Parked, Disposing, Erasing
      <4> QED BY <4>2 DEF Blocks
    <3>3. CASE e = x
      <4>1. call'[c] = call[c]
        BY <1>0, <1>2, <2>2, <3>3
      <4> QED BY <1>0, <3>1, <3>3, <4>1 DEF Blocks, Parked
    <3> QED BY <1>0, <1>7, <2>2, <3>2, <3>3 DEF Two
  <2> QED BY <1>0, <2>1, <2>2 DEF PairInv
<1> QED BY <1>6, <1>7

LEMMA RelTakeStep ==
  ASSUME LockInv, NEW x \in alive, RelTake(x)
  PROVE  LockInv' /\ (PairInv /\ Two => PairInv')
<1> DEFINE r == call[x]
           n == NewDir
           s == [r EXCEPT !.pc = "erase", !.at = NewDir, !.use = "release"]
<1>0. /\ r.pc = "relTake" /\ x \in Caller /\ r \in Call /\ r.acquired /\ ~Disposing(r)
      /\ r.at \in Dir /\ takeover[r.at] = x /\ canonical # x
      /\ Unused # {} /\ UNCHANGED <<canonical, alive>> /\ alive \subseteq Caller
      /\ takeover' = [takeover EXCEPT ![r.at] = "absent", ![n] = takeover[r.at]]
      /\ Continue(x, s)
  BY Here DEF RelTake, At, Flags, Releasing, Disposing, Erasing, Searches, LockInv, TypeOK
<1>1. n \in Dir /\ takeover[n] = "absent" /\ \A c \in alive : n # call[c].at
  BY <1>0, Fresh
<1>2. s \in Call /\ s.pc = "erase" /\ s.at = n /\ s.use = "release" /\ s.acquired /\ s.pass = r.pass
  BY <1>0, <1>1 DEF Call, Pc
<1> HIDE DEF s, n
<1>3. call'[x] = s /\ \A c \in Caller : c # x => call'[c] = call[c]
  BY <1>0, Continues
<1>4. /\ n # r.at /\ takeover'[n] = x /\ takeover'[r.at] = "absent"
      /\ \A d \in Dir : d # n /\ d # r.at => takeover'[d] = takeover[d]
  BY <1>0, <1>1, Typed
<1>5. \A c \in Caller, d \in Dir : c # x => (takeover'[d] = c <=> takeover[d] = c)
  BY <1>0, <1>1, <1>4, Owners
<1>6. \A d \in Dir : takeover'[d] = x => d = n
  BY <1>0, <1>4, Here, Owners DEF Placed
<1>7. TypeOK'
  BY <1>0, <1>1, <1>2 DEF LockInv, TypeOK, Continue, LockOwner
<1>8. Flags(s) /\ Placed(x, call[x])' /\ Searches(x, call[x])' /\ Erases(x, call[x])'
  <2>1. Flags(s)
    BY <1>1, <1>2 DEF Flags, Releasing, Disposing, Erasing
  <2>2. Placed(x, call[x])'
    BY <1>0, <1>2, <1>3, <1>6 DEF Placed
  <2>3. Searches(x, call[x])' /\ Erases(x, call[x])'
    BY <1>0, <1>2, <1>3, <1>4, <1>6 DEF Searches, Erases, Disposing, Erasing
  <2> QED BY <2>1, <2>2, <2>3
<1>9. LockInv'
  <2>1. ASSUME NEW c \in Caller PROVE Flags(call'[c]) /\ Placed(c, call[c])'
    BY <1>0, <1>3, <1>5, <1>8, StaysPlaced
  <2>2. ASSUME NEW c \in alive PROVE Searches(c, call[c])' /\ Erases(c, call[c])'
    <3>1. CASE c # x
      <4>1. ASSUME Erasing(call[c]), takeover'[call[c].at] \in alive
            PROVE  takeover[call[c].at] = takeover'[call[c].at]
        <5>1. call[c].at \in Dir
          BY <4>1, Here DEF Flags
        <5>2. call[c].at # n /\ call[c].at # r.at
          BY <1>0, <1>1, <1>4, <4>1, Owners
        <5> QED BY <1>4, <5>1, <5>2
      <4> QED BY <1>0, <1>3, <1>5, <3>1, <4>1, Unseen
    <3> QED BY <1>8, <3>1
  <2> QED BY <1>0, <1>7, <2>1, <2>2 DEF LockInv
<1>10. ASSUME PairInv, Two PROVE PairInv'
  <2>1. ASSUME NEW c \in alive PROVE Holds(c, call[c])'
    <3>1. CASE c # x
      BY <1>0, <1>3, <1>5, <1>10, <3>1, StaysHeld
    <3>2. CASE c = x
      BY <1>2, <1>3, <3>2 DEF Holds, Releasing, Disposing, Erasing
    <3> QED BY <3>1, <3>2
  <2>2. ASSUME NEW c \in alive, NEW e \in alive, c # e PROVE Blocks(e, call[e], call[c])'
    <3>1. CASE c = x
      <4>1. Blocks(e, call[e], r)
        BY <1>10, <2>2, <3>1 DEF PairInv
      <4>2. ~(Parked(e) /\ ~Disposing(call[e]))
        BY <1>0, <4>1 DEF Blocks
      <4>3. ~(Parked(e)' /\ ~Disposing(call[e])')
        BY <1>0, <1>3, <1>5, <2>2, <3>1, <4>2 DEF Parked, Disposing, Erasing
      <4> QED BY <4>3 DEF Blocks
    <3>2. CASE e = x
      BY <1>2, <1>3, <3>2 DEF Blocks, Disposing, Erasing
    <3> QED BY <1>0, <1>10, <2>2, <3>1, <3>2 DEF Two
  <2> QED BY <1>0, <2>1, <2>2 DEF PairInv
<1> QED BY <1>9, <1>10

LEMMA BreakRenameStep ==
  ASSUME LockInv, NEW x \in alive, BreakRename(x)
  PROVE  LockInv' /\ (PairInv /\ Two => PairInv')
<1> DEFINE r == call[x]
           n == NewDir
<1>0. /\ r.pc = "breakRename" /\ x \in Caller /\ r \in Call /\ ~r.acquired /\ ~Releasing(r)
      /\ r.pass = 1 /\ canonical' = "none" /\ alive' = alive /\ alive \subseteq Caller
      /\ r.seen \in LockOwner \ alive /\ canonical # x /\ ~Parked(x)
  BY Here, FirstPass
     DEF BreakRename, At, Flags, Releasing, Disposing, Erasing, Erases, Placed, LockInv, TypeOK
<1>1. CASE canonical = "none"
  <2> DEFINE s == [r EXCEPT !.pc = "list", !.seen = "none"]
  <2>1. Continue(x, s) /\ Quiet
    BY <1>0, <1>1 DEF BreakRename, Quiet
  <2>2. s \in Call /\ s.pc = "list" /\ s.acquired = r.acquired /\ s.pass = r.pass
    BY <1>0 DEF Call, Pc
  <2> HIDE DEF s
  <2>3. Goes(x, s)
    BY <1>0, <2>1, <2>2, PlainStep
  <2> QED BY <2>3, QuietKeeps, QuietPairs DEF Goes
<1>2. CASE canonical # "none"
  <2> DEFINE s == [r EXCEPT !.pc = "breakCheck", !.at = NewDir]
  <2>1. /\ Continue(x, s) /\ Unused # {} /\ takeover' = [takeover EXCEPT ![n] = canonical]
        /\ canonical \in LockOwner
    BY <1>2, Typed DEF BreakRename, LockInv, TypeOK
  <2>2. n \in Dir /\ takeover[n] = "absent" /\ \A c \in alive : n # call[c].at
    BY <2>1, Fresh
  <2>3. /\ s \in Call /\ s.pc = "breakCheck" /\ s.at = n /\ s.acquired = r.acquired
        /\ s.pass = 1 /\ s.seen = r.seen
    BY <1>0, <2>2 DEF Call, Pc
  <2> HIDE DEF s, n
  <2>4. call'[x] = s /\ \A c \in Caller : c # x => call'[c] = call[c]
    BY <1>0, <2>1, Continues
  <2>5. takeover'[n] = canonical /\ \A d \in Dir : d # n => takeover'[d] = takeover[d]
    BY <1>0, <2>1, <2>2, Typed
  <2>6. \A c \in Caller : /\ canonical' # c
                          /\ Parked(c)' <=> Parked(c) \/ canonical = c
                          /\ canonical # c => \A d \in Dir : takeover'[d] = c <=> takeover[d] = c
                          /\ canonical = c => \A d \in Dir : takeover'[d] = c => d = n
    <3>1. ASSUME NEW c \in Caller
          PROVE  /\ c # "none" /\ c # "absent"
                 /\ canonical = c => ~Parked(c)
      BY Owners, Typed DEF Placed
    <3> QED BY <1>0, <2>2, <2>5, <3>1 DEF Parked
  <2>7. TypeOK'
    BY <1>0, <2>1, <2>2, <2>3 DEF LockInv, TypeOK, Continue
  <2>8. Flags(s) /\ Placed(x, call[x])' /\ Searches(x, call[x])' /\ Erases(x, call[x])'
    <3>1. Flags(s)
      BY <1>0, <2>2, <2>3 DEF Flags, Releasing, Disposing, Erasing
    <3>2. Placed(x, call[x])'
      BY <1>0, <2>6 DEF Placed, Parked
    <3>3. Searches(x, call[x])' /\ Erases(x, call[x])'
      BY <1>0, <2>3, <2>4 DEF Searches, Erases, Disposing, Erasing
    <3> QED BY <3>1, <3>2, <3>3
  <2>9. LockInv'
    <3>1. ASSUME NEW c \in Caller PROVE Flags(call'[c]) /\ Placed(c, call[c])'
      <4>1. CASE c # x /\ canonical # c
        BY <2>4, <2>6, <4>1, StaysPlaced
      <4>2. CASE c # x /\ canonical = c
        BY <2>4, <2>6, <4>2, Typed DEF Placed
      <4> QED BY <2>4, <2>8, <4>1, <4>2
    <3>2. ASSUME NEW c \in alive PROVE Searches(c, call[c])' /\ Erases(c, call[c])'
      <4>1. ASSUME Erasing(call[c]), takeover'[call[c].at] \in alive
            PROVE  takeover[call[c].at] = takeover'[call[c].at]
        <5>1. call[c].at \in Dir
          BY <4>1, Here DEF Flags
        <5> QED BY <2>2, <2>5, <5>1
      <4>2. CASE c # x /\ canonical # c
        BY <1>0, <2>4, <2>6, <4>1, <4>2, Unseen
      <4>3. CASE c # x /\ canonical = c
        <5>1. call'[c] = call[c] /\ Searches(c, call[c]) /\ Erases(c, call[c])
          BY <1>0, <2>4, <4>3, Here
        <5>2. Searches(c, call[c])'
          BY <4>3, <5>1 DEF Searches
        <5>3. Erases(c, call[c])'
          BY <1>0, <4>1, <5>1 DEF Erases
        <5> QED BY <5>2, <5>3
      <4> QED BY <2>8, <4>2, <4>3
    <3> QED BY <1>0, <2>7, <3>1, <3>2 DEF LockInv
  <2>10. ASSUME PairInv, Two PROVE PairInv'
    <3>1. ASSUME NEW c \in alive PROVE Holds(c, call[c])'
      <4>1. CASE c # x
        <5>1. Holds(c, call[c]) /\ call'[c] = call[c]
          BY <1>0, <2>4, <2>10, <4>1 DEF PairInv
        <5>2. canonical = c \/ Parked(c) => Parked(c)'
          BY <1>0, <2>6
        <5> QED BY <5>1, <5>2 DEF Holds
      <4>2. CASE c = x
        BY <1>0, <2>3, <2>4, <4>2 DEF Holds
      <4> QED BY <4>1, <4>2
    <3>2. ASSUME NEW c \in alive, NEW e \in alive, c # e PROVE Blocks(e, call[e], call[c])'
      <4>1. CASE c = x
        BY <1>0, <2>3, <2>4, <4>1 DEF Blocks, Erasing
      <4>2. CASE e = x
        BY <1>0, <2>6, <4>2 DEF Blocks
      <4> QED BY <1>0, <2>10, <3>2, <4>1, <4>2 DEF Two
    <3> QED BY <1>0, <3>1, <3>2 DEF PairInv
  <2> QED BY <2>9, <2>10
<1> QED BY <1>1, <1>2

LEMMA EraseStep ==
  ASSUME LockInv, NEW x \in alive, Erase(x)
  PROVE  LockInv' /\ (PairInv /\ Two => PairInv')
<1> DEFINE r == call[x]
           s == [r EXCEPT !.pc = "remove"]
           v == IF takeover[r.at] = "absent" THEN "absent" ELSE "erased"
<1>0. /\ r.pc = "erase" /\ x \in Caller /\ r \in Call /\ r.at \in Dir /\ Erasing(r)
      /\ UNCHANGED <<canonical, alive>> /\ alive \subseteq Caller /\ Continue(x, s)
      /\ takeover' = [takeover EXCEPT ![r.at] = v]
  BY Here, Typed DEF Erase, At, Flags, Erasing, LockInv, TypeOK, Goto
<1>1. s \in Call /\ s.pc = "remove" /\ Moved(r, s)
  BY <1>0, Going DEF Pc
<1>2. v \in {"absent", "erased"}
  OBVIOUS
<1> HIDE DEF s, v
<1>3. call'[x] = s /\ \A c \in Caller : c # x => call'[c] = call[c]
  BY <1>0, Continues
<1>4. takeover'[r.at] = v /\ \A d \in Dir : d # r.at => takeover'[d] = takeover[d]
  BY <1>0, Typed
<1>5. \A c \in Caller, d \in Dir : takeover'[d] = c => takeover[d] = c /\ d # r.at
  BY <1>0, <1>2, <1>4, Owners
<1>6. \A c \in alive, d \in Dir : c # x \/ ~Disposing(r) => (takeover'[d] = c <=> takeover[d] = c)
  <2>1. ASSUME NEW c \in alive, c # x \/ ~Disposing(r) PROVE takeover[r.at] # c
    BY <1>0, <2>1, Here DEF Erases
  <2> QED BY <1>0, <1>4, <1>5, <2>1
<1>7. TypeOK'
  BY <1>0, <1>1, <1>2 DEF LockInv, TypeOK, Continue
<1>8. (Disposing(s) <=> Disposing(r)) /\ (Releasing(s) <=> Releasing(r)) /\ Erasing(s)
  BY <1>0, <1>1 DEF Releasing, Disposing, Erasing, Moved
<1>9. Flags(s) /\ Placed(x, call[x])' /\ Searches(x, call[x])' /\ Erases(x, call[x])'
  <2>1. Flags(s)
    BY <1>0, <1>1, <1>8, Here DEF Flags, Moved
  <2>2. Placed(x, call[x])'
    BY <1>0, <1>1, <1>3, <1>5, Here DEF Placed, Parked, Moved
  <2>3. Disposing(r) => \A d \in Dir : takeover'[d] # x
    BY <1>0, <1>5, Here DEF Searches
  <2>4. Searches(x, call[x])'
    <3>1. (s.pass = 2 \/ Disposing(s)) => canonical # x
      BY <1>1, <1>8, Here DEF Searches, Moved
    <3> QED BY <1>0, <1>1, <1>3, <1>8, <2>3, <3>1 DEF Searches
  <2>5. Erases(x, call[x])'
    <3>1. takeover'[s.at] \notin alive
      BY <1>0, <1>1, <1>2, <1>4, Owners DEF Moved
    <3> QED BY <1>0, <1>1, <1>3, <3>1 DEF Erases
  <2> QED BY <2>1, <2>2, <2>4, <2>5
<1>10. LockInv'
  <2>1. ASSUME NEW c \in Caller PROVE Flags(call'[c]) /\ Placed(c, call[c])'
    BY <1>0, <1>3, <1>5, <1>9, StaysPlaced
  <2>2. ASSUME NEW c \in alive PROVE Searches(c, call[c])' /\ Erases(c, call[c])'
    <3>1. CASE c # x
      <4>1. ASSUME Erasing(call[c]), takeover'[call[c].at] \in alive
            PROVE  takeover[call[c].at] = takeover'[call[c].at]
        BY <1>0, <1>5, <4>1, Here DEF Flags
      <4> QED BY <1>0, <1>3, <1>6, <3>1, <4>1, Unseen
    <3> QED BY <1>9, <3>1
  <2> QED BY <1>0, <1>7, <2>1, <2>2 DEF LockInv
<1>11. ASSUME PairInv, Two PROVE PairInv'
  <2>1. ASSUME NEW c \in alive PROVE Holds(c, call[c])'
    <3>1. CASE c # x
      BY <1>0, <1>3, <1>6, <1>11, <3>1, StaysHeld
    <3>2. CASE c = x
      <4>1. CASE Disposing(r)
        BY <1>1, <1>3, <1>8, <3>2, <4>1 DEF Holds, Releasing
      <4>2. CASE ~Disposing(r)
        <5>1. Holds(x, r) /\ (Parked(x) => Parked(x)')
          BY <1>6, <1>11, <4>2 DEF PairInv, Parked
        <5> QED BY <1>0, <1>1, <1>3, <1>8, <3>2, <5>1 DEF Holds, Moved
      <4> QED BY <4>1, <4>2
    <3> QED BY <3>1, <3>2
  <2>2. ASSUME NEW c \in alive, NEW e \in alive, c # e PROVE Blocks(e, call[e], call[c])'
    <3>1. Blocks(e, call[e], call[c]) /\ call[c].todo \subseteq Dir
      BY <1>11, <2>2, Here DEF PairInv
    <3>2. CASE c = x
      <4>1. \A d \in Dir : takeover'[d] = e <=> takeover[d] = e
        BY <1>6, <2>2, <3>2
      <4>2. call'[c] = s /\ call'[e] = call[e]
        BY <1>0, <1>3, <2>2, <3>2
      <4>3. ASSUME Parked(e)', ~Disposing(call[e])
            PROVE  ~s.acquired /\ (s.use = "scan" => s.blocked \/ \E d \in s.todo : takeover'[d] = e)
        <5>1. Parked(e)
          BY <4>1, <4>3 DEF Parked
        <5>2. ~r.acquired /\ (r.use = "scan" => r.blocked \/ \E d \in r.todo : takeover[d] = e)
          BY <1>0, <3>1, <3>2, <4>3, <5>1 DEF Blocks
        <5> QED BY <1>1, <3>1, <3>2, <4>1, <5>2 DEF Moved
      <4> QED BY <1>1, <4>2, <4>3 DEF Blocks
    <3>3. CASE e = x
      <4>1. call'[c] = call[c] /\ call'[e] = s
        BY <1>0, <1>3, <2>2, <3>3
      <4>2. CASE Disposing(r)
        BY <1>8, <4>1, <4>2 DEF Blocks
      <4>3. CASE ~Disposing(r)
        <5>1. \A d \in Dir : takeover'[d] = e <=> takeover[d] = e
          BY <1>6, <3>3, <4>3
        <5> QED BY <1>8, <3>1, <3>3, <4>1, <4>3, <5>1 DEF Blocks, Parked
      <4> QED BY <4>2, <4>3
    <3> QED BY <1>0, <1>11, <2>2, <3>2, <3>3 DEF Two
  <2> QED BY <1>0, <2>1, <2>2 DEF PairInv
<1> QED BY <1>10, <1>11

\* Where a call goes on after a removal.
LEMMA AfterRemoval ==
  ASSUME LockInv, NEW x \in alive, Remove(x)
  PROVE  \E s \in Call :
           /\ Continue(x, s) /\ Flags(s) /\ ~Erasing(s)
           /\ s.pc \notin {"relTake", "relCanonical", "relRename", "breakRename", "breakCheck"}
           /\ \/ /\ call[x].use = "scan" /\ s.acquired = call[x].acquired /\ s.pass = 1
                 /\ s.todo = call[x].todo /\ s.blocked = call[x].blocked
                 /\ s.pc = "rename" => s.todo = {} /\ ~s.blocked
                 /\ s.pc # "relRead"
              \/ call[x].use = "break" /\ ~s.acquired /\ s.pass = 1 /\ s.pc = "list"
              \/ /\ call[x].use = "release" /\ call[x].acquired
                 /\ s.acquired => Releasing(s)
                 /\ s.pc \in {"relRead", "relList", "done", "break"}
<1> DEFINE r == call[x]
           m == [r EXCEPT !.at = 0]
<1>1. r.pc = "remove" /\ r \in Call /\ Erasing(r) /\ Flags(r) /\ x \in Caller
      /\ (Releasing(r) <=> r.use = "release") /\ r.use \in {"scan", "break", "release"}
  BY Here, Fields DEF Remove, At, Erasing, Releasing, Disposing
<1>2. /\ m \in Call /\ m.acquired = r.acquired /\ m.pass = r.pass /\ m.todo = r.todo
      /\ m.blocked = r.blocked /\ m.use = r.use
  BY <1>1 DEF Call
<1>3. Continue(x, CASE m.use = "scan"    -> Scanned(m)
                    [] m.use = "break"   -> [m EXCEPT !.pc = "list"]
                    [] m.use = "release" -> Released(m))
  BY DEF Remove
<1> HIDE DEF m
<1>4. CASE r.use = "scan"
  <2> DEFINE s == Scanned(m)
  <2>1. Continue(x, s)
    BY <1>2, <1>3, <1>4
  <2>2. /\ s \in Call /\ Moved(m, s)
        /\ s.pc \in {"read", "relList", "critical", "wait", "rename"}
        /\ s.pc = "read" <=> m.todo # {}
        /\ s.pc \in {"relList", "critical"} => m.acquired
        /\ s.pc \in {"wait", "rename"} => ~m.acquired
        /\ s.pc = "rename" => ~m.blocked
    BY <1>2, Scanning
  <2>3. r.pass = 1
    BY <1>1, <1>4, FirstPass
  <2> HIDE DEF s
  <2>4. Flags(s) /\ ~Erasing(s)
    BY <1>2, <2>2, <2>3 DEF Flags, Releasing, Disposing, Erasing, Moved
  <2> QED BY <1>2, <1>4, <2>1, <2>2, <2>3, <2>4 DEF Moved
<1>5. CASE r.use = "break"
  <2> DEFINE s == [m EXCEPT !.pc = "list"]
  <2>1. Continue(x, s)
    BY <1>2, <1>3, <1>5
  <2>2. s \in Call /\ s.pc = "list" /\ Moved(m, s)
    BY <1>2, Going DEF Pc
  <2>3. r.pass = 1 /\ ~r.acquired
    BY <1>1, <1>5, FirstPass DEF Flags
  <2> HIDE DEF s
  <2>4. Flags(s) /\ ~Erasing(s) /\ s.pass = 1 /\ ~s.acquired
    BY <1>2, <2>2, <2>3 DEF Flags, Releasing, Disposing, Erasing, Moved
  <2> QED BY <1>5, <2>1, <2>2, <2>4
<1>6. CASE r.use = "release"
  <2> DEFINE s == Released(m)
  <2>1. Continue(x, s)
    BY <1>2, <1>3, <1>6
  <2>2. r.acquired /\ m.pass \in {1, 2}
    BY <1>1, <1>2, <1>6, Fields DEF Flags
  <2>3. /\ s \in Call
        /\ m.todo # {} => s.pc = "relRead" /\ s.pass = m.pass /\ s.acquired = m.acquired
        /\ m.todo = {} /\ m.pass = 1 => s.pc = "relList" /\ s.pass = 2 /\ s.acquired = m.acquired
        /\ m.todo = {} /\ m.pass = 2 => s.pc \in {"done", "break"} /\ s.pass = 1 /\ ~s.acquired
    BY <1>2, Releases
  <2> HIDE DEF s
  <2>4. Flags(s) /\ ~Erasing(s) /\ (s.acquired => Releasing(s))
        /\ s.pc \in {"relRead", "relList", "done", "break"}
    BY <1>2, <2>2, <2>3 DEF Flags, Releasing, Disposing, Erasing
  <2> QED BY <1>6, <2>1, <2>2, <2>3, <2>4
<1> QED BY <1>1, <1>4, <1>5, <1>6

LEMMA RemoveStep ==
  ASSUME LockInv, NEW x \in alive, Remove(x)
  PROVE  LockInv' /\ (PairInv /\ Two => PairInv')
<1> DEFINE r == call[x]
<1>1. PICK s \in Call :
           /\ Continue(x, s) /\ Flags(s) /\ ~Erasing(s)
           /\ s.pc \notin {"relTake", "relCanonical", "relRename", "breakRename", "breakCheck"}
           /\ \/ /\ r.use = "scan" /\ s.acquired = r.acquired /\ s.pass = 1
                 /\ s.todo = r.todo /\ s.blocked = r.blocked
                 /\ s.pc = "rename" => s.todo = {} /\ ~s.blocked
                 /\ s.pc # "relRead"
              \/ r.use = "break" /\ ~s.acquired /\ s.pass = 1 /\ s.pc = "list"
              \/ /\ r.use = "release" /\ r.acquired
                 /\ s.acquired => Releasing(s)
                 /\ s.pc \in {"relRead", "relList", "done", "break"}
  BY AfterRemoval
<1>0. /\ r.pc = "remove" /\ x \in Caller /\ r \in Call /\ r.at \in Dir /\ Erasing(r)
      /\ UNCHANGED <<canonical, alive>> /\ alive \subseteq Caller
      /\ takeover' = [takeover EXCEPT ![r.at] = "absent"]
      /\ (Disposing(r) <=> r.use = "release")
  BY Here DEF Remove, At, Flags, Erasing, Disposing, LockInv, TypeOK
<1>2. Disposing(r) => canonical # x /\ \A d \in Dir : takeover[d] # x
  BY <1>0, Here DEF Searches
<1>3. call'[x] = s /\ \A c \in Caller : c # x => call'[c] = call[c]
  BY <1>0, <1>1, Continues
<1>4. takeover'[r.at] = "absent" /\ \A d \in Dir : d # r.at => takeover'[d] = takeover[d]
  BY <1>0, Typed
<1>5. \A c \in Caller, d \in Dir : takeover'[d] = c => takeover[d] = c /\ d # r.at
  BY <1>0, <1>4, Owners
<1>6. \A c \in alive, d \in Dir : takeover'[d] = c <=> takeover[d] = c
  <2>1. ASSUME NEW c \in alive PROVE takeover[r.at] # c
    BY <1>0, <1>2, Here DEF Erases
  <2> QED BY <1>0, <1>4, <1>5, <2>1
<1>7. TypeOK'
  BY <1>0, <1>1 DEF LockInv, TypeOK, Continue
<1>8. Placed(x, call[x])' /\ Searches(x, call[x])' /\ Erases(x, call[x])'
  <2>1. Placed(x, s) \/ Disposing(r)
    <3>1. s.acquired \in BOOLEAN /\ r.acquired \in BOOLEAN /\ (r.use = "break" => ~r.acquired)
      BY <1>0, <1>1, Here, Fields DEF Flags
    <3>2. s.acquired \/ ~r.acquired \/ Disposing(r)
      <4>1. CASE r.use = "scan"
        <5>1. s.acquired = r.acquired
          BY <1>1, <4>1
        <5> QED BY <3>1, <5>1
      <4>2. CASE r.use = "break"
        BY <3>1, <4>2
      <4>3. CASE r.use = "release"
        BY <1>0, <4>3
      <4> QED BY <1>0, Fields, <4>1, <4>2, <4>3
    <3> QED BY <3>2, Here DEF Placed
  <2>2. Placed(x, call[x])'
    BY <1>0, <1>2, <1>3, <1>5, <2>1 DEF Placed, Parked
  <2>3. Searches(x, call[x])'
    <3>1. CASE Disposing(r)
      BY <1>0, <1>1, <1>2, <1>3, <1>5, <3>1 DEF Searches, Disposing
    <3>2. CASE ~Disposing(r)
      BY <1>0, <1>1, <1>3, <3>2 DEF Searches, Disposing
    <3> QED BY <3>1, <3>2
  <2>4. Erases(x, call[x])'
    BY <1>1, <1>3 DEF Erases
  <2> QED BY <2>2, <2>3, <2>4
<1>9. LockInv'
  <2>1. ASSUME NEW c \in Caller PROVE Flags(call'[c]) /\ Placed(c, call[c])'
    BY <1>0, <1>1, <1>3, <1>5, <1>8, StaysPlaced
  <2>2. ASSUME NEW c \in alive PROVE Searches(c, call[c])' /\ Erases(c, call[c])'
    <3>1. CASE c # x
      <4>1. ASSUME Erasing(call[c]), takeover'[call[c].at] \in alive
            PROVE  takeover[call[c].at] = takeover'[call[c].at]
        BY <1>0, <1>5, <4>1, Here DEF Flags
      <4> QED BY <1>0, <1>3, <1>6, <3>1, <4>1, Unseen
    <3> QED BY <1>8, <3>1
  <2> QED BY <1>0, <1>7, <2>1, <2>2 DEF LockInv
<1>10. ASSUME PairInv, Two PROVE PairInv'
  <2>1. ASSUME NEW c \in alive PROVE Holds(c, call[c])'
    <3>1. CASE c # x
      BY <1>0, <1>3, <1>6, <1>10, <3>1, StaysHeld
    <3>2. CASE c = x
      <4>1. Holds(x, r) /\ (Parked(x) => Parked(x)')
        BY <1>6, <1>10 DEF PairInv, Parked
      <4>2. s.acquired /\ ~Releasing(s) => r.acquired /\ ~Releasing(r)
        BY <1>0, <1>1 DEF Releasing
      <4> QED BY <1>0, <1>1, <1>3, <3>2, <4>1, <4>2 DEF Holds
    <3> QED BY <3>1, <3>2
  <2>2. ASSUME NEW c \in alive, NEW e \in alive, c # e PROVE Blocks(e, call[e], call[c])'
    <3>1. Blocks(e, call[e], call[c])
      BY <1>10, <2>2 DEF PairInv
    <3>2. \A d \in Dir : takeover'[d] = e <=> takeover[d] = e
      BY <1>6
    <3>3. CASE c = x
      <4>1. call'[c] = s /\ call'[e] = call[e]
        BY <1>0, <1>3, <2>2, <3>3
      <4>2. ASSUME Parked(e)', ~Disposing(call[e])
            PROVE  /\ ~s.acquired /\ s.pc # "rename"
                   /\ s.pc = "read" => s.blocked \/ \E d \in s.todo : takeover'[d] = e
        <5>1. Parked(e)
          BY <3>2, <4>2 DEF Parked
        <5>2. ~r.acquired /\ (r.use = "scan" => r.blocked \/ \E d \in r.todo : takeover[d] = e)
          BY <1>0, <3>1, <3>3, <4>2, <5>1 DEF Blocks
        <5>3. r.todo \subseteq Dir
          BY Here
        <5> QED BY <1>1, <3>2, <5>2, <5>3
      <4> QED BY <1>1, <4>1, <4>2 DEF Blocks
    <3>4. CASE e = x
      <4>1. call'[c] = call[c] /\ call'[e] = s /\ call[c].todo \subseteq Dir
        BY <1>0, <1>3, <2>2, <3>4, Here
      <4>2. CASE Disposing(r)
        <5>1. ~Parked(e)'
          BY <1>0, <1>2, <1>5, <3>4, <4>2 DEF Parked
        <5> QED BY <5>1 DEF Blocks
      <4>3. CASE ~Disposing(r)
        BY <3>1, <3>2, <3>4, <4>1, <4>3 DEF Blocks, Parked
      <4> QED BY <4>2, <4>3
    <3> QED BY <1>0, <1>10, <2>2, <3>3, <3>4 DEF Two
  <2> QED BY <1>0, <2>1, <2>2 DEF PairInv
<1> QED BY <1>9, <1>10

LEMMA CrashStep ==
  ASSUME LockInv, NEW x \in Caller, Crash(x)
  PROVE  LockInv' /\ (PairInv => PairInv')
<1>1. UNCHANGED <<canonical, takeover, call>> /\ alive' \subseteq alive
  BY DEF Crash
<1>2. LockInv'
  <2>1. TypeOK'
    BY <1>1 DEF LockInv, TypeOK
  <2>2. ASSUME NEW c \in Caller PROVE Flags(call'[c]) /\ Placed(c, call[c])'
    BY <1>1, StaysPlaced
  <2>3. ASSUME NEW c \in alive' PROVE Searches(c, call[c])' /\ Erases(c, call[c])'
    <3>1. Searches(c, call[c]) /\ Erases(c, call[c])
      BY <1>1, Here
    <3> QED BY <1>1, <3>1 DEF Searches, Erases
  <2> QED BY <1>1, <2>1, <2>2, <2>3 DEF LockInv
<1>3. PairInv => PairInv'
  BY <1>1 DEF PairInv, Holds, Blocks, Parked
<1> QED BY <1>2, <1>3

-----------------------------------------------------------------------------
(***************************************************************************)
(* The invariants hold.                                                    *)
(***************************************************************************)
LEMMA InitLock == Init => LockInv /\ PairInv
<1> SUFFICES ASSUME Init PROVE LockInv /\ PairInv
  OBVIOUS
<1>1. /\ canonical \in {"none", Ghost} /\ takeover = [d \in Dir |-> "absent"]
      /\ alive = Caller /\ call = [c \in Caller |-> Begin]
  BY DEF Init
<1>2. /\ Begin \in Call /\ Begin.pc = "list" /\ ~Begin.acquired /\ Begin.pass = 1
  BY DEF Begin, Call, Pc
<1>3. \A c \in Caller : canonical # c /\ ~Parked(c) /\ call[c] = Begin
  BY <1>1, Owners, LockAssumption DEF Parked
<1>4. TypeOK
  BY <1>1, <1>2 DEF TypeOK, LockOwner
<1>5. ASSUME NEW c \in Caller PROVE Flags(call[c]) /\ Placed(c, call[c])
  BY <1>2, <1>3 DEF Flags, Placed, Parked, Releasing, Disposing, Erasing
<1>6. ASSUME NEW c \in Caller PROVE Searches(c, call[c]) /\ Erases(c, call[c])
  BY <1>2, <1>3 DEF Searches, Erases, Disposing, Erasing
<1>7. PairInv
  BY <1>1, <1>2, <1>3 DEF PairInv, Holds, Blocks
<1> QED BY <1>1, <1>4, <1>5, <1>6, <1>7 DEF LockInv

\* A call that takes a step is of a process that lives.
LEMMA Steps ==
  ASSUME LockInv, NEW x \in Caller, Step(x) \/ TimesOut(x)
  PROVE  LockInv' /\ (PairInv /\ Two => PairInv')
<1>1. x \in alive
  BY DEF Step, TimesOut, At, List, Read, Rename, Owns, OwnsList, OwnsRead, Operate, RelList,
         RelCanonical, RelRename, RelRead, RelTake, Break, BreakRename, BreakCheck, Erase,
         Remove, Retry
<1>2. CASE \E s : Goes(x, s)
  BY <1>1, <1>2, QuietKeeps, QuietPairs DEF Goes
<1>3. CASE List(x)
  BY <1>1, <1>2, <1>3, ListStep
<1>4. CASE Read(x)
  BY <1>1, <1>2, <1>4, ReadStep
<1>5. CASE Rename(x)
  BY <1>1, <1>5, RenameStep
<1>6. CASE Owns(x)
  BY <1>1, <1>2, <1>6, OwnsStep
<1>7. CASE OwnsList(x)
  BY <1>1, <1>2, <1>7, OwnsListStep
<1>8. CASE OwnsRead(x)
  BY <1>1, <1>2, <1>8, OwnsReadStep
<1>9. CASE Operate(x)
  BY <1>1, <1>2, <1>9, OperateStep
<1>10. CASE RelList(x)
  BY <1>1, <1>2, <1>10, RelListStep
<1>11. CASE RelCanonical(x)
  BY <1>1, <1>2, <1>11, RelCanonicalStep
<1>12. CASE RelRename(x)
  BY <1>1, <1>12, RelRenameStep
<1>13. CASE RelRead(x)
  BY <1>1, <1>2, <1>13, RelReadStep
<1>14. CASE RelTake(x)
  BY <1>1, <1>14, RelTakeStep
<1>15. CASE Break(x)
  BY <1>1, <1>2, <1>15, BreakStep
<1>16. CASE BreakRename(x)
  BY <1>1, <1>16, BreakRenameStep
<1>17. CASE BreakCheck(x)
  BY <1>1, <1>2, <1>17, BreakCheckStep
<1>18. CASE Erase(x)
  BY <1>1, <1>18, EraseStep
<1>19. CASE Remove(x)
  BY <1>1, <1>19, RemoveStep
<1>20. CASE Retry(x) \/ TimesOut(x)
  BY <1>1, <1>2, <1>20, WaitStep
<1> QED BY <1>3, <1>4, <1>5, <1>6, <1>7, <1>8, <1>9, <1>10, <1>11, <1>12, <1>13, <1>14, <1>15,
           <1>16, <1>17, <1>18, <1>19, <1>20 DEF Step

LEMMA Inductive ==
  ASSUME LockInv, [Next]_vars
  PROVE  LockInv' /\ (PairInv /\ Two => PairInv')
<1>1. CASE UNCHANGED vars
  <2>1. LockInv'
    BY <1>1 DEF vars, LockInv, TypeOK, Placed, Parked, Searches, Erases
  <2>2. PairInv => PairInv'
    BY <1>1 DEF vars, PairInv, Holds, Blocks, Parked
  <2> QED BY <2>1, <2>2
<1>2. CASE Next
  BY <1>2, Steps, CrashStep DEF Next
<1> QED BY <1>1, <1>2

LEMMA LockAlways == Spec => []LockInv
  BY InitLock, Inductive, PTL DEF Spec

LEMMA PairAlways == Two => (Spec => [](LockInv /\ PairInv))
<1> SUFFICES ASSUME Two PROVE Spec => [](LockInv /\ PairInv)
  OBVIOUS
<1>1. LockInv /\ PairInv /\ [Next]_vars => (LockInv /\ PairInv)'
  BY Inductive
<1> QED BY <1>1, InitLock, PTL DEF Spec

-----------------------------------------------------------------------------
(***************************************************************************)
(* What follows.                                                           *)
(***************************************************************************)
\* The state of the lock has its type, for any callers and any crashes.
THEOREM LockTypes == Spec => []TypeOK
<1>1. LockInv => TypeOK
  BY DEF LockInv
<1> QED BY <1>1, LockAlways, PTL

\* However many callers contend, die and move each other's lock, withTaskLock
\* leaves neither .meta.lock nor a takeover directory of its own behind when it
\* returns or throws (the finally block of task-store.ts and its two passes).
THEOREM LeavesNothing == Spec => []NothingLeftBehind
<1>1. LockInv => NothingLeftBehind
  <2> SUFFICES ASSUME LockInv, NEW c \in alive, call[c].pc \in {"done", "failed"}
               PROVE  canonical # c /\ \A d \in Dir : takeover[d] # c
    BY DEF NothingLeftBehind
  <2>1. ~call[c].acquired
    BY Here DEF Flags
  <2> QED BY <2>1, Here DEF Placed, Parked
<1> QED BY <1>1, LockAlways, PTL

\* Two is what a bound on the number of callers says.
LEMMA AtMostTwo ==
  ASSUME Cardinality(Caller) <= 2
  PROVE  Two
<1> SUFFICES ASSUME NEW a \in Caller, NEW b \in Caller, NEW c \in Caller,
                    a # b, a # c, b # c
             PROVE  FALSE
  BY DEF Two
<1>1. IsFiniteSet({a}) /\ Cardinality({a}) = 1
  BY FS_Singleton
<1>2. IsFiniteSet({a, b}) /\ Cardinality({a, b}) = 2
  <2>1. IsFiniteSet({a} \cup {b}) /\ Cardinality({a} \cup {b}) = Cardinality({a}) + 1
    BY <1>1, FS_AddElement
  <2>2. {a, b} = {a} \cup {b}
    OBVIOUS
  <2> QED BY <1>1, <2>1, <2>2
<1>3. Cardinality({a, b, c}) = 3
  <2>1. {a, b, c} = {a, b} \cup {c} /\ c \notin {a, b}
    OBVIOUS
  <2> QED BY <1>2, <2>1, FS_AddElement
<1>4. Cardinality({a, b, c}) <= Cardinality(Caller)
  <2>1. {a, b, c} \subseteq Caller
    OBVIOUS
  <2> QED BY <2>1, LockAssumption, FS_Subset
<1>5. Cardinality(Caller) \in Nat
  BY LockAssumption, FS_CardinalityType
<1> QED BY <1>3, <1>4, <1>5

LEMMA OneAtMost ==
  ASSUME NEW S, \A a, b \in S : a = b
  PROVE  Cardinality(S) <= 1
<1>1. CASE S = {}
  BY <1>1, FS_EmptySet
<1>2. CASE S # {}
  <2>1. PICK a \in S : TRUE
    BY <1>2
  <2>2. S = {a}
    BY <2>1
  <2> QED BY <2>2, FS_Singleton
<1> QED BY <1>1, <1>2

\* Two callers never run their read-check-write of meta.json at once, whatever
\* either of them or the process before them does or dies in: a lock that was
\* moved by mistake still holds off the other caller.  For three it is false
\* (the run lock_aba).
THEOREM TwoExclude ==
  ASSUME Cardinality(Caller) <= 2
  PROVE  Spec => []MutualExclusion
<1>1. Two
  BY AtMostTwo
<1>2. LockInv /\ PairInv => MutualExclusion
  <2> SUFFICES ASSUME LockInv, PairInv PROVE MutualExclusion
    OBVIOUS
  <2>1. ASSUME NEW c \in alive, call[c].pc = "critical"
        PROVE  /\ canonical = c \/ Parked(c)
               /\ call[c].acquired /\ ~Disposing(call[c])
    <3>1. call[c].acquired /\ ~Releasing(call[c]) /\ ~Disposing(call[c])
      BY <2>1, Here DEF Flags, Releasing, Disposing, Erasing
    <3> QED BY <3>1 DEF PairInv, Holds
  <2>2. ASSUME NEW c \in alive, NEW e \in alive, call[c].pc = "critical", call[e].pc = "critical",
               c # e
        PROVE  FALSE
    <3>1. ~Parked(e) /\ ~Parked(c)
      BY <2>1, <2>2 DEF PairInv, Blocks
    <3> QED BY <2>1, <2>2, <3>1
  <2> QED BY <2>2, OneAtMost DEF MutualExclusion
<1> QED BY <1>1, <1>2, PairAlways, PTL
=============================================================================
