-------------------------- MODULE ActivityFeedProofs --------------------------
(***************************************************************************)
(* Proofs about ActivityFeed: the types, for any processes, and what one   *)
(* producer at a time means for the feed, for two of them.                 *)
(***************************************************************************)
EXTENDS ActivityFeed, FiniteSetTheorems, TLAPS

(***************************************************************************)
(* The invariant, for any processes.                                       *)
(***************************************************************************)
Restoring(r, use) == r.pc \in {"link", "restored", "drop"} /\ r.use = use
Publishing(r) ==
  r.pc \in {"exists", "find", "findRead", "verify", "store"} \/ Restoring(r, "publish")

\* A takeover path is in hand where one is needed.
Handy(r) == r.pc \in {"check", "replace", "link", "restored", "drop"} => r.at \in Dir

\* A claim runs without a publisher, a publication with a claimed one.
BridgeFits(b, r) ==
  /\ r.pc # "idle" => b.bound
  /\ b.claimed => b.publisher
  /\ b.publisher => b.bound /\ (r.pc = "idle" \/ Publishing(r))
  /\ Publishing(r) => b.claimed

\* The lease to displace is not that of another live process.  The path to restore
\* is one's own, unless it was moved by mistake.
CallFits(p, r) ==
  /\ r.pc \in {"exists", "find", "findRead"} => r.use = "publish"
  /\ r.pc \in {"move", "check"} => r.seen # <<>> /\ (r.seen[1] = p \/ r.seen[1] \notin up)
  /\ r.pc \in {"link", "restored"} => r.use # "tidy"
  /\ r.pc = "link" /\ r.use = "scan" /\ takeover[r.at] # <<>> => takeover[r.at][1] = p
  /\ r.pc = "link" /\ r.use = "publish" /\ takeover[r.at] # <<>> => takeover[r.at] = Self(p)

FeedInv ==
  /\ TypeOK
  /\ \A p \in Process : Handy(call[p])
  /\ \A p \in up : BridgeFits(bridge[p], call[p]) /\ CallFits(p, call[p])

(***************************************************************************)
(* The invariant, for two processes.                                       *)
(***************************************************************************)
Loading(r) == r.pc = "load" \/ (r.pc = "drop" /\ r.use = "tidy")
Tidies(r, d) == r.pc = "drop" /\ r.use = "tidy" /\ r.at = d
InHand(r, d) == r.pc \in {"restored", "drop"} /\ r.at = d

\* A bridge that has the lease, or whose subagent runs since it had it.
Owns(b, k, r) == b.publisher \/ Loading(r) \/ (b.bound /\ k = "running")
Owner(p) == Owns(bridge[p], work[p], call[p])

OwnerFits(b, k, r) ==
  Owns(b, k, r) => r.pc \notin {"move", "check", "replace"} /\ ~Restoring(r, "aba")

\* The lease of an earlier bridge of q.
Old(q, d) == takeover[d] # <<>> /\ takeover[d][1] = q /\ takeover[d] # Self(q)

\* r, the call of another process, has moved the lease aside to d and is bound to
\* link it back.
Returning(r, d) == r.pc \in {"check", "link"} /\ r.at = d

\* The lease of q, which is at r, is in its place, or a process that moved it by
\* mistake links it back, and no earlier lease of q can be linked in its stead.
Held(q, r) ==
  \/ canonical = Self(q)
  \/ /\ canonical = <<>>
     /\ \E d \in Dir : /\ takeover[d] = Self(q) /\ ~InHand(r, d)
                       /\ \A p \in up \ {q} : Returning(call[p], d)
     /\ \A d \in Dir : Old(q, d) => Tidies(r, d)

Scanning(r) == r.pc = "scan" \/ Restoring(r, "scan")

\* Where a call comes across the earlier lease at d before it can own a lease.
Meets(r, d) ==
  \/ r.pc \in {"idle", "list"}
  \/ Restoring(r, "aba")
  \/ r.pc \in {"check", "replace"} /\ r.at = d
  \/ Scanning(r) /\ d \in r.todo
  \/ r.pc \in {"link", "drop"} /\ r.use = "scan" /\ r.at = d
  \/ r.pc = "restored" /\ r.use = "scan" /\ r.at = d /\ canonical # <<>>

Known(b, k, r, d) == Tidies(r, d) \/ (~Owns(b, k, r) /\ Meets(r, d))

\* Where a claim has not seen the path d, or will not be stopped by it.
Slips(r, d) ==
  \/ r.pc \in {"look", "create", "move"}
  \/ Scanning(r) /\ ~r.blocked /\ d \notin r.todo

Passes(b, k, r, d) == ~Owns(b, k, r) /\ Slips(r, d)

\* An earlier lease of q either blocks every other claim, or q deals with it
\* before it owns a lease.
Stray(q, d) ==
  Old(q, d) => \/ Known(bridge[q], work[q], call[q], d)
               \/ \A p \in up \ {q} : ~Passes(bridge[p], work[p], call[p], d)

\* A publisher knows the feed.
FeedRead(b) == b.publisher => b.rev = feed.rev /\ b.cards = feed.cards

\* The card of the n-th bridge of p and of those to come.
CardFits(p, b, k) ==
  /\ b.bound /\ k = "none" => feed.cards[Self(p)] = "none"
  /\ b.bound /\ k = "running" => feed.cards[Self(p)] \in {"none", "running"}
  /\ \A n \in Bridges : n > gen[p] => feed.cards[<<p, n>>] = "none"

PairInv ==
  /\ \A p \in up : OwnerFits(bridge[p], work[p], call[p]) /\ (Owner(p) => Held(p, call[p]))
  /\ \A p \in up, d \in Dir : Stray(p, d)
  /\ \A p \in up : FeedRead(bridge[p]) /\ CardFits(p, bridge[p], work[p])

-----------------------------------------------------------------------------
(***************************************************************************)
(* Leases and records.                                                     *)
(***************************************************************************)
LEMMA Numbers ==
  /\ MaxAttempts \in Nat /\ MaxAttempts >= 1 /\ MaxDirs \in Nat /\ MaxDirs >= 1
  /\ MaxRebinds \in Nat /\ MaxFailures \in Nat
  /\ Ghost \notin Process /\ IsFiniteSet(Process)
  BY FeedAssumption

LEMMA Tokens ==
  /\ \A w \in Token : w[1] \in Process /\ w[2] \in Bridges /\ w = <<w[1], w[2]>> /\ w # <<>>
  /\ \A p \in Process, n \in Bridges : <<p, n>> \in Token /\ <<p, n>>[1] = p /\ <<p, n>>[2] = n
  BY DEF Token

LEMMA Writers ==
  /\ Token \subseteq Writer /\ Writer \subseteq Lease /\ <<>> \in Lease
  /\ \A w \in Lease : w # <<>> => w \in Writer
  /\ \A w \in Writer : w # <<>> /\ w[1] \in Process \cup {Ghost}
  /\ \A w \in Writer : w[1] \in Process => w \in Token
<1>1. <<Ghost, 1>> # <<>> /\ <<Ghost, 1>>[1] = Ghost
  OBVIOUS
<1> QED BY <1>1, Tokens, Numbers DEF Writer, Lease

LEMMA Selves ==
  ASSUME TypeOK
  PROVE  \A p \in Process :
           /\ Self(p) \in Token /\ Self(p) \in Writer /\ Self(p) \in Lease
           /\ Self(p)[1] = p /\ Self(p)[2] = gen[p] /\ Self(p) # <<>>
<1>1. \A p \in Process : gen[p] \in Bridges
  BY DEF TypeOK
<1> QED BY <1>1, Tokens, Writers DEF Self

LEMMA Fields ==
  ASSUME NEW r \in Call
  PROVE  /\ r.pc \in Pc /\ r.attempt \in 1..MaxAttempts /\ r.todo \subseteq Dir
         /\ r.blocked \in BOOLEAN /\ r.proven \in BOOLEAN /\ r.seen \in Lease
         /\ r.at \in Dir \cup {0} /\ r.use \in {"scan", "aba", "publish", "tidy"}
         /\ r.ending \in BOOLEAN
  BY DEF Call

LEMMA BridgeFields ==
  ASSUME NEW b \in Bridge
  PROVE  /\ b.bound \in BOOLEAN /\ b.publisher \in BOOLEAN /\ b.claimed \in BOOLEAN
         /\ b.proof \in BOOLEAN /\ b.abandoned \subseteq Writer /\ b.rev \in Nat
         /\ b.cards \in [Writer -> Status]
  BY DEF Bridge

LEMMA QuietCall ==
  /\ Quiet \in Call /\ Quiet.pc = "idle" /\ Quiet.todo = {} /\ Quiet.use = "scan"
  /\ Quiet.attempt = 1 /\ Quiet.blocked = FALSE
<1>1. 1 \in 1..MaxAttempts /\ <<>> \in Lease
  BY Numbers DEF Lease
<1> QED BY <1>1 DEF Quiet, Call, Pc

LEMMA FreshBridge ==
  /\ Fresh \in Bridge /\ Disposed \in Bridge
  /\ Fresh.bound /\ ~Fresh.publisher /\ ~Fresh.claimed
  /\ ~Disposed.bound /\ ~Disposed.publisher /\ ~Disposed.claimed
<1>1. NoCards \in [Writer -> Status]
  BY DEF NoCards, Status
<1> QED BY <1>1 DEF Fresh, Disposed, Bridge

\* s differs from r in pc only.
Moved(r, s) ==
  /\ s.attempt = r.attempt /\ s.todo = r.todo /\ s.blocked = r.blocked /\ s.proven = r.proven
  /\ s.seen = r.seen /\ s.at = r.at /\ s.use = r.use /\ s.ending = r.ending

LEMMA Going ==
  ASSUME NEW r \in Call, NEW pc \in Pc
  PROVE  LET s == [r EXCEPT !.pc = pc] IN s \in Call /\ s.pc = pc /\ Moved(r, s)
  BY DEF Call, Moved

-----------------------------------------------------------------------------
(***************************************************************************)
(* Where a call goes on.                                                   *)
(***************************************************************************)
LEMMA Typed ==
  ASSUME FeedInv, NEW p \in Process
  PROVE  /\ call[p] \in Call /\ bridge[p] \in Bridge /\ work[p] \in {"none", "running", "done"}
         /\ canonical \in Lease /\ takeover \in [Dir -> Lease] /\ up \subseteq Process
         /\ call \in [Process -> Call] /\ bridge \in [Process -> Bridge]
         /\ work \in [Process -> {"none", "running", "done"}]
         /\ gen \in [Process -> Bridges] /\ gen[p] \in Bridges
         /\ feed \in [rev : Nat, cards : [Writer -> Status]]
         /\ Handy(call[p])
         /\ p \in up => BridgeFits(bridge[p], call[p]) /\ CallFits(p, call[p])
  BY DEF FeedInv, TypeOK

\* The call of p stands at s.
LEMMA Continues ==
  ASSUME FeedInv, NEW p \in Process, NEW s, Continue(p, s)
  PROVE  /\ call'[p] = s /\ \A q \in Process : q # p => call'[q] = call[q]
         /\ s \in Call => call' \in [Process -> Call]
  BY Typed DEF Continue

LEMMA Sets ==
  ASSUME FeedInv, NEW p \in Process, NEW b, SetBridge(p, b)
  PROVE  /\ bridge'[p] = b /\ \A q \in Process : q # p => bridge'[q] = bridge[q]
         /\ b \in Bridge => bridge' \in [Process -> Bridge]
  BY Typed DEF SetBridge

\* The call s that follows the reading r of a takeover path.
ScansOn(r, s) ==
  \/ r.todo # {} /\ s = [r EXCEPT !.pc = "scan"]
  \/ r.todo = {} /\ r.blocked /\ s = Quiet
  \/ r.todo = {} /\ ~r.blocked /\ s = [r EXCEPT !.pc = "look"]

LEMMA ScannedGoes ==
  ASSUME NEW p, NEW r \in Call, Scanned(p, r)
  PROVE  \E s \in Call : Continue(p, s) /\ ScansOn(r, s)
<1>1. r.blocked \in BOOLEAN
  BY Fields
<1>2. CASE r.todo # {}
  <2>1. Continue(p, [r EXCEPT !.pc = "scan"])
    BY <1>2 DEF Scanned
  <2>2. [r EXCEPT !.pc = "scan"] \in Call
    BY Going DEF Pc
  <2> QED BY <1>2, <2>1, <2>2 DEF ScansOn
<1>3. CASE r.todo = {} /\ r.blocked
  <2>1. Continue(p, Quiet)
    BY <1>3 DEF Scanned, Returns
  <2> QED BY <1>3, <2>1, QuietCall DEF ScansOn
<1>4. CASE r.todo = {} /\ ~r.blocked
  <2>1. Continue(p, [r EXCEPT !.pc = "look"])
    BY <1>4 DEF Scanned
  <2>2. [r EXCEPT !.pc = "look"] \in Call
    BY Going DEF Pc
  <2> QED BY <1>4, <2>1, <2>2 DEF ScansOn
<1> QED BY <1>1, <1>2, <1>3, <1>4

\* The next attempt, or the end of the claim.
Restarts(s) == s.pc \in {"idle", "list"} /\ s.use = "scan"

LEMMA AgainGoes ==
  ASSUME NEW p, call[p] \in Call, Again(p)
  PROVE  \E s \in Call : Continue(p, s) /\ Restarts(s)
<1> DEFINE r == call[p]
<1>1. CASE r.attempt = MaxAttempts
  BY <1>1, QuietCall DEF Again, Returns, Restarts
<1>2. CASE r.attempt # MaxAttempts
  <2> DEFINE s == [Quiet EXCEPT !.pc = "list", !.attempt = r.attempt + 1, !.proven = r.proven]
  <2>1. Continue(p, s)
    BY <1>2 DEF Again
  <2>2. r.attempt \in 1..MaxAttempts /\ r.proven \in BOOLEAN
    BY Fields
  <2>3. r.attempt + 1 \in 1..MaxAttempts
    BY <1>2, <2>2, Numbers
  <2>4. <<>> \in Lease
    BY Writers
  <2>5. s \in Call /\ s.pc = "list" /\ s.use = "scan"
    BY <2>2, <2>3, <2>4 DEF Quiet, Call, Pc
  <2> HIDE DEF s
  <2> QED BY <2>1, <2>5 DEF Restarts
<1> QED BY <1>1, <1>2

LEMMA FoundGoes ==
  ASSUME NEW p, NEW r \in Call, Found(p, r)
  PROVE  \E s \in Call : Continue(p, s) /\ Moved(r, s) /\ s.pc \in {"verify", "findRead"}
<1> DEFINE pc == IF r.todo = {} THEN "verify" ELSE "findRead"
           s == [r EXCEPT !.pc = pc]
<1>1. Continue(p, s)
  BY DEF Found
<1>2. pc \in {"verify", "findRead"} /\ pc \in Pc
  BY DEF Pc
<1> HIDE DEF pc
<1>3. s \in Call /\ s.pc = pc /\ Moved(r, s)
  BY <1>2, Going
<1> QED BY <1>1, <1>2, <1>3

\* The call s that follows r once the path in hand is dealt with.
DealsWith(r, s) ==
  \/ r.use = "scan" /\ ScansOn(r, s)
  \/ r.use = "aba" /\ Restarts(s)
  \/ r.use = "publish" /\ s = [r EXCEPT !.pc = "verify"]
  \/ r.use = "tidy" /\ s = [r EXCEPT !.pc = "load"]

LEMMA DealtGoes ==
  ASSUME NEW p, call[p] \in Call, Dealt(p)
  PROVE  \E s \in Call : Continue(p, s) /\ DealsWith(call[p], s)
<1> DEFINE r == call[p]
<1>1. r.use \in {"scan", "aba", "publish", "tidy"}
  BY Fields
<1>2. CASE r.use = "scan"
  <2>1. Scanned(p, r)
    BY <1>2 DEF Dealt
  <2> QED BY <1>2, <2>1, ScannedGoes DEF DealsWith
<1>3. CASE r.use = "aba"
  <2>1. Again(p)
    BY <1>3 DEF Dealt
  <2> QED BY <1>3, <2>1, AgainGoes DEF DealsWith
<1>4. CASE r.use = "publish"
  <2>1. Continue(p, [r EXCEPT !.pc = "verify"])
    BY <1>4 DEF Dealt, Goto
  <2>2. [r EXCEPT !.pc = "verify"] \in Call
    BY Going DEF Pc
  <2> QED BY <1>4, <2>1, <2>2 DEF DealsWith
<1>5. CASE r.use = "tidy"
  <2>1. Continue(p, [r EXCEPT !.pc = "load"])
    BY <1>5 DEF Dealt, Goto
  <2>2. [r EXCEPT !.pc = "load"] \in Call
    BY Going DEF Pc
  <2> QED BY <1>5, <2>1, <2>2 DEF DealsWith
<1> QED BY <1>1, <1>2, <1>3, <1>4, <1>5

-----------------------------------------------------------------------------
(***************************************************************************)
(* Steps which only the process that takes them can see.                   *)
(***************************************************************************)
\* The process goes on with the call s, the bridge b and the subagent k.
Acts(p, s, b, k) ==
  /\ call' \in [Process -> Call] /\ call'[p] = s
  /\ bridge' \in [Process -> Bridge] /\ bridge'[p] = b
  /\ work' \in [Process -> {"none", "running", "done"}] /\ work'[p] = k
  /\ \A q \in Process : q # p => call'[q] = call[q] /\ bridge'[q] = bridge[q] /\ work'[q] = work[q]
  /\ failures' \in 0..MaxFailures

Unseen == UNCHANGED <<canonical, takeover, feed, up, gen>>

Fits(p, s, b) == Handy(s) /\ BridgeFits(b, s) /\ CallFits(p, s)

\* What s, b and k have to satisfy for two processes.
PairFits(p, s, b, k) ==
  /\ OwnerFits(b, k, s) /\ (Owns(b, k, s) => Held(p, s))
  /\ canonical = <<>> => \A q \in up, d \in Dir :
       q # p /\ takeover[d] = Self(q) /\ Returning(call[p], d) => Returning(s, d)
  /\ \A d \in Dir : Old(p, d) /\ Known(bridge[p], work[p], call[p], d) => Known(b, k, s, d)
  /\ \A q \in up, d \in Dir : q # p /\ Old(q, d) /\ Passes(b, k, s, d) =>
       Passes(bridge[p], work[p], call[p], d)
  /\ FeedRead(b) /\ CardFits(p, b, k)

\* The step of p is one that no other process sees.
Goes(p, s, b, k) ==
  Acts(p, s, b, k) /\ Unseen /\ Fits(p, s, b) /\ (PairInv => PairFits(p, s, b, k))

LEMMA UnseenKeeps ==
  ASSUME FeedInv, NEW p \in up, NEW s, NEW b, NEW k, Goes(p, s, b, k)
  PROVE  FeedInv'
<1>1. p \in Process /\ up \subseteq Process
  BY DEF FeedInv, TypeOK
<1>2. canonical' = canonical /\ takeover' = takeover /\ feed' = feed /\ up' = up /\ gen' = gen
  BY DEF Goes, Unseen
<1>3. TypeOK'
  BY <1>2 DEF FeedInv, TypeOK, Goes, Acts
<1>4. \A q \in Process : Handy(call'[q])
  BY <1>1 DEF FeedInv, Goes, Acts, Fits
<1>5. ASSUME NEW q \in up PROVE BridgeFits(bridge'[q], call'[q]) /\ CallFits(q, call[q])'
  <2>1. BridgeFits(bridge'[q], call'[q]) /\ CallFits(q, call'[q])
    BY <1>1 DEF FeedInv, Goes, Acts, Fits
  <2> QED BY <2>1, <1>2 DEF CallFits, Self
<1> QED BY <1>2, <1>3, <1>4, <1>5 DEF FeedInv

LEMMA UnseenKeepsPair ==
  ASSUME FeedInv, PairInv, NEW p \in up, NEW s, NEW b, NEW k, Goes(p, s, b, k)
  PROVE  PairInv'
<1>1. p \in Process /\ up \subseteq Process
  BY DEF FeedInv, TypeOK
<1>2. canonical' = canonical /\ takeover' = takeover /\ feed' = feed /\ up' = up /\ gen' = gen
  BY DEF Goes, Unseen
<1>3. /\ call'[p] = s /\ bridge'[p] = b /\ work'[p] = k
      /\ \A q \in up : q # p => call'[q] = call[q] /\ bridge'[q] = bridge[q] /\ work'[q] = work[q]
  BY <1>1 DEF Goes, Acts
<1>4. PairFits(p, s, b, k)
  BY DEF Goes
<1>5. \A q, d : Old(q, d)' <=> Old(q, d)
  BY <1>2 DEF Old, Self
<1>6. ASSUME NEW q \in up
      PROVE  OwnerFits(bridge'[q], work'[q], call'[q]) /\ (Owner(q)' => Held(q, call[q])')
  <2>1. CASE q = p
    <3>1. OwnerFits(b, k, s) /\ (Owns(b, k, s) => Held(p, s))
      BY <1>4 DEF PairFits
    <3>2. \A d : (\A c \in up \ {p} : Returning(call[c], d)) =>
                 (\A c \in up \ {p} : Returning(call'[c], d))
      BY <1>3
    <3>3. Held(p, s) => Held(p, call[p])'
      BY <1>2, <1>3, <1>5, <3>2 DEF Held, Self
    <3> QED BY <2>1, <1>3, <3>1, <3>3 DEF Owner
  <2>2. CASE q # p
    <3>1. OwnerFits(bridge'[q], work'[q], call'[q]) /\ (Owner(q)' <=> Owner(q))
      BY <2>2, <1>3 DEF PairInv, Owner
    <3>2. canonical = <<>> =>
            \A d \in Dir : takeover[d] = Self(q) /\ (\A c \in up \ {q} : Returning(call[c], d)) =>
                             (\A c \in up \ {q} : Returning(call'[c], d))
      BY <2>2, <1>3, <1>4 DEF PairFits
    <3>3. Held(q, call[q]) => Held(q, call[q])'
      <4>1. call'[q] = call[q] /\ Self(q)' = Self(q)
        BY <2>2, <1>2, <1>3 DEF Self
      <4> QED BY <4>1, <1>2, <1>5, <3>2 DEF Held
    <3> QED BY <3>1, <3>3 DEF PairInv
  <2> QED BY <2>1, <2>2
<1>7. ASSUME NEW q \in up, NEW d \in Dir PROVE Stray(q, d)'
  <2>1. Known(bridge[q], work[q], call[q], d)' <=> Known(bridge'[q], work'[q], call'[q], d)
    BY <1>2 DEF Known, Meets
  <2> SUFFICES ASSUME Old(q, d),
                      NEW c \in up, c # q, Passes(bridge'[c], work'[c], call'[c], d)
               PROVE  Known(bridge'[q], work'[q], call'[q], d)
    BY <1>2, <1>5, <2>1 DEF Stray, Passes, Slips
  <2>2. Passes(bridge[c], work[c], call[c], d)
    BY <1>3, <1>4 DEF PairFits
  <2>3. Known(bridge[q], work[q], call[q], d)
    BY <2>2 DEF PairInv, Stray
  <2> QED BY <2>3, <1>3, <1>4 DEF PairFits
<1>8. ASSUME NEW q \in up PROVE FeedRead(bridge[q])' /\ CardFits(q, bridge[q], work[q])'
  <2>1. FeedRead(bridge'[q]) /\ CardFits(q, bridge'[q], work'[q])
    BY <1>3, <1>4 DEF PairInv, PairFits
  <2> QED BY <2>1, <1>2 DEF FeedRead, CardFits, Self
<1> QED BY <1>2, <1>6, <1>7, <1>8 DEF PairInv

\* Where a process that lives stands.
LEMMA Here ==
  ASSUME FeedInv, NEW p \in up
  PROVE  /\ p \in Process /\ call[p] \in Call /\ bridge[p] \in Bridge
         /\ work[p] \in {"none", "running", "done"}
         /\ Handy(call[p]) /\ BridgeFits(bridge[p], call[p]) /\ CallFits(p, call[p])
         /\ call[p].pc \in Pc /\ call[p].todo \subseteq Dir /\ call[p].at \in Dir \cup {0}
         /\ call[p].seen \in Lease /\ call[p].use \in {"scan", "aba", "publish", "tidy"}
         /\ bridge[p].publisher \in BOOLEAN /\ bridge[p].claimed \in BOOLEAN
         /\ bridge[p].bound \in BOOLEAN
         /\ Self(p) \in Lease /\ Self(p)[1] = p /\ Self(p) # <<>>
<1>1. p \in Process
  BY DEF FeedInv, TypeOK
<1>2. call[p] \in Call /\ bridge[p] \in Bridge
  BY <1>1, Typed
<1>3. Self(p) \in Lease /\ Self(p)[1] = p /\ Self(p) # <<>>
  BY <1>1, Selves DEF FeedInv
<1> QED BY <1>1, <1>2, <1>3, Typed, Fields, BridgeFields

\* A step that changes nothing but the call.
Reads(p, s) == Continue(p, s) /\ OnlyReads /\ s \in Call

LEMMA ReadsActs ==
  ASSUME FeedInv, NEW p \in up, NEW s, Reads(p, s)
  PROVE  Acts(p, s, bridge[p], work[p]) /\ Unseen
<1>1. p \in Process
  BY Here
<1>2. call'[p] = s /\ call' \in [Process -> Call] /\ \A q \in Process : q # p => call'[q] = call[q]
  BY <1>1, Continues DEF Reads
<1>3. bridge' = bridge /\ work' = work /\ failures' = failures /\ Unseen
  BY DEF Reads, OnlyReads, Rest, Unseen
<1> QED BY <1>1, <1>2, <1>3, Typed DEF Acts, FeedInv, TypeOK

\* Where the call of p may go on, for two processes, while it owns no more and no less.
Safely(p, s) ==
  LET r == call[p] IN
  /\ ~Loading(r) /\ ~Loading(s)
  /\ Owner(p) => s.pc \notin {"move", "check", "replace"} /\ ~Restoring(s, "aba")
  /\ canonical = <<>> => \A d \in Dir :
       /\ \A q \in up : q # p /\ takeover[d] = Self(q) /\ Returning(r, d) => Returning(s, d)
       /\ takeover[d] = Self(p) /\ InHand(s, d) => InHand(r, d)
  /\ ~Owner(p) => \A d \in Dir : Old(p, d) /\ Meets(r, d) => Meets(s, d)
  /\ \A q \in up, d \in Dir : q # p /\ Old(q, d) /\ Slips(s, d) => Slips(r, d)

LEMMA ReadStep ==
  ASSUME FeedInv, NEW p \in up, NEW s, Reads(p, s), Fits(p, s, bridge[p]),
         PairInv => Safely(p, s)
  PROVE  Goes(p, s, bridge[p], work[p])
<1> DEFINE r == call[p]
           b == bridge[p]
           k == work[p]
<1>1. Acts(p, s, b, k) /\ Unseen
  BY ReadsActs
<1>2. ASSUME PairInv PROVE PairFits(p, s, b, k)
  <2>1. Safely(p, s)
    BY <1>2
  <2>2. ~Loading(r) /\ ~Loading(s)
    BY <2>1 DEF Safely
  <2>3. Owns(b, k, s) <=> Owner(p)
    BY <2>2 DEF Owns, Owner
  <2>4. OwnerFits(b, k, s)
    BY <2>1, <2>3 DEF Safely, OwnerFits
  <2>5. \A d : ~Tidies(r, d)
    BY <2>2 DEF Tidies, Loading
  <2>6. Owner(p) => Held(p, s)
    <3>1. Owner(p) => Held(p, r)
      BY <1>2 DEF PairInv
    <3> QED BY <2>1, <2>5, <3>1 DEF Held, Safely
  <2>7. ASSUME NEW d \in Dir, Old(p, d), Known(b, k, r, d) PROVE Known(b, k, s, d)
    <3>1. ~Owner(p) /\ Meets(r, d)
      BY <2>5, <2>7 DEF Known, Owner
    <3>2. Meets(s, d)
      BY <2>1, <2>7, <3>1 DEF Safely
    <3> QED BY <2>3, <3>1, <3>2 DEF Known
  <2>8. ASSUME NEW q \in up, NEW d \in Dir, q # p, Old(q, d), Passes(b, k, s, d)
        PROVE  Passes(b, k, r, d)
    BY <2>1, <2>3, <2>8 DEF Safely, Passes, Owner
  <2>9. FeedRead(b) /\ CardFits(p, b, k)
    BY <1>2 DEF PairInv
  <2> QED BY <2>1, <2>3, <2>4, <2>6, <2>7, <2>8, <2>9 DEF PairFits, Safely
<1> QED BY <1>1, <1>2 DEF Goes, Reads

\* A claim that stands at a place of its own, or starts over, keeps the bridge.
LEMMA ClaimFits ==
  ASSUME FeedInv, NEW p \in up, NEW s \in Call,
         ~Publishing(s), s.pc = "idle" \/ (bridge[p].bound /\ ~bridge[p].publisher)
  PROVE  BridgeFits(bridge[p], s)
  BY Here DEF BridgeFits

\* Where a process that claims has no publisher.
LEMMA Claiming ==
  ASSUME FeedInv, NEW p \in up, call[p].pc # "idle", ~Publishing(call[p])
  PROVE  bridge[p].bound /\ ~bridge[p].publisher
  BY Here DEF BridgeFits

\* Places where nothing is in hand, to restore or to displace.
Plain(s) ==
  /\ s.pc \notin {"move", "check", "replace", "link", "restored", "drop"}
  /\ s.pc \in {"exists", "find", "findRead"} => s.use = "publish"

LEMMA PlainFits ==
  ASSUME NEW p, NEW s, Plain(s)
  PROVE  Handy(s) /\ CallFits(p, s) /\ \A d : ~Returning(s, d) /\ ~InHand(s, d)
  BY DEF Plain, Handy, CallFits, Returning, InHand

\* A claim starts over, or gives up.
LEMMA RestartStep ==
  ASSUME FeedInv, NEW p \in up, NEW s, Restarts(s), Reads(p, s),
         call[p].pc # "idle", ~Publishing(call[p]), ~Loading(call[p]),
         canonical = <<>> /\ call[p].pc \in {"check", "link"} => takeover[call[p].at] = <<>>
  PROVE  Goes(p, s, bridge[p], work[p])
<1>1. s \in Call /\ s.pc \in {"idle", "list"}
  BY DEF Reads, Restarts
<1>2. Plain(s) /\ ~Publishing(s) /\ ~Loading(s) /\ ~Scanning(s)
  BY <1>1 DEF Plain, Publishing, Restoring, Loading, Scanning
<1>3. Fits(p, s, bridge[p])
  BY <1>1, <1>2, Claiming, ClaimFits, PlainFits DEF Fits
<1>4. Safely(p, s)
  <2>1. \A d : Meets(s, d) /\ ~Slips(s, d) /\ ~Returning(s, d) /\ ~InHand(s, d)
    BY <1>1, <1>2, PlainFits DEF Meets, Slips
  <2>2. canonical = <<>> =>
          \A d \in Dir, q \in up : takeover[d] = Self(q) => ~Returning(call[p], d)
    BY Here DEF Returning
  <2>3. s.pc \notin {"move", "check", "replace"} /\ ~Restoring(s, "aba")
    BY <1>1 DEF Restoring
  <2> QED BY <1>2, <2>1, <2>2, <2>3 DEF Safely
<1> QED BY <1>3, <1>4, ReadStep

\* A publication goes on, or begins.
LEMMA PublisherStep ==
  ASSUME FeedInv, NEW p \in up, NEW s, Reads(p, s), Plain(s), Publishing(s),
         bridge[p].claimed, ~Loading(call[p]), call[p].pc \notin {"check", "link"}
  PROVE  Goes(p, s, bridge[p], work[p])
<1>1. /\ s \in Call /\ ~Loading(s) /\ ~Restoring(s, "aba")
      /\ \A d : ~Slips(s, d) /\ ~Returning(call[p], d)
  BY DEF Reads, Plain, Publishing, Loading, Restoring, Slips, Scanning, Returning
<1>2. Fits(p, s, bridge[p])
  BY Here, PlainFits DEF Fits, BridgeFits
<1>3. Owner(p)
  BY Here DEF BridgeFits, Owner, Owns
<1>4. Safely(p, s)
  BY <1>1, <1>3, PlainFits DEF Safely, Plain
<1> QED BY <1>2, <1>4, ReadStep

-----------------------------------------------------------------------------
(***************************************************************************)
(* The steps of claimWriter that only look.                                *)
(***************************************************************************)
\* The scan of the takeover paths goes on after the reading m.
LEMMA ScanStep ==
  ASSUME FeedInv, NEW p \in up, NEW m \in Call, NEW s, ScansOn(m, s), Reads(p, s),
         call[p].pc # "idle", ~Publishing(call[p]), ~Loading(call[p]),
         call[p].pc \notin {"check", "link"},
         \A d \in Dir : Old(p, d) /\ Meets(call[p], d) => d \in m.todo,
         \A q \in up, d \in Dir :
           q # p /\ Old(q, d) /\ ~m.blocked /\ d \notin m.todo => Slips(call[p], d)
  PROVE  Goes(p, s, bridge[p], work[p])
<1> DEFINE r == call[p]
<1>1. s \in Call /\ m.blocked \in BOOLEAN
  BY Fields DEF Reads
<1>2. CASE s.pc = "scan" /\ Moved(m, s)
  <2>1. Plain(s) /\ ~Publishing(s) /\ ~Loading(s) /\ Scanning(s) /\ ~Restoring(s, "aba")
    BY <1>2 DEF Plain, Publishing, Restoring, Loading, Scanning
  <2>2. Fits(p, s, bridge[p])
    BY <1>1, <2>1, Claiming, ClaimFits, PlainFits DEF Fits
  <2>3. \A d : d \in m.todo => Meets(s, d)
    BY <1>2, <2>1 DEF Meets, Moved
  <2>4. \A d : Slips(s, d) => ~m.blocked /\ d \notin m.todo
    BY <1>2 DEF Slips, Moved
  <2>5. \A d : ~Returning(r, d) /\ ~InHand(s, d)
    BY <1>2 DEF Returning, InHand
  <2>6. Safely(p, s)
    BY <1>2, <2>1, <2>3, <2>4, <2>5 DEF Safely
  <2> QED BY <2>2, <2>6, ReadStep
<1>3. CASE s = Quiet
  BY <1>3, QuietCall, RestartStep DEF Restarts
<1>4. CASE s.pc = "look" /\ m.todo = {} /\ ~m.blocked
  <2>1. Plain(s) /\ ~Publishing(s) /\ ~Loading(s) /\ ~Restoring(s, "aba")
    BY <1>4 DEF Plain, Publishing, Restoring, Loading
  <2>2. Fits(p, s, bridge[p])
    BY <1>1, <2>1, Claiming, ClaimFits, PlainFits DEF Fits
  <2>3. \A d : ~Returning(r, d) /\ ~InHand(s, d)
    BY <1>4 DEF Returning, InHand
  <2>4. Safely(p, s)
    BY <1>4, <2>1, <2>3 DEF Safely
  <2> QED BY <2>2, <2>4, ReadStep
<1>5. \/ s.pc = "scan" /\ Moved(m, s)
      \/ s = Quiet
      \/ s.pc = "look" /\ m.todo = {} /\ ~m.blocked
  <2>1. {"scan", "look"} \subseteq Pc
    BY DEF Pc
  <2>2. ASSUME NEW pc \in Pc
        PROVE  [m EXCEPT !.pc = pc].pc = pc /\ Moved(m, [m EXCEPT !.pc = pc])
    BY Going
  <2> QED BY <2>1, <2>2 DEF ScansOn
<1> QED BY <1>2, <1>3, <1>4, <1>5

\* The lease of an earlier bridge is listed.
LEMMA OldListed == \A d \in Dir : \A q : Old(q, d) => d \in Listed
  BY DEF Old, Listed

LEMMA ClaimStep ==
  ASSUME FeedInv, NEW p \in up, Claim(p) PROVE \E s, b, k : Goes(p, s, b, k)
<1> DEFINE r == call[p]
           s == [r EXCEPT !.pc = "list"]
<1>1. /\ r.pc = "idle" /\ bridge[p].bound /\ ~bridge[p].publisher
      /\ Continue(p, s) /\ OnlyReads
  BY DEF Claim, At, Goto
<1>2. s \in Call /\ s.pc = "list"
  <2>1. "list" \in Pc /\ r \in Call
    BY Here DEF Pc
  <2> QED BY <2>1, Going
<1> HIDE DEF s
<1>3. /\ Plain(s) /\ ~Publishing(s) /\ ~Loading(s) /\ ~Loading(r) /\ ~Restoring(s, "aba")
      /\ \A d : Meets(s, d) /\ ~Slips(s, d) /\ ~Returning(r, d) /\ ~InHand(s, d)
  BY <1>1, <1>2 DEF Plain, Publishing, Restoring, Loading, Meets, Slips, Scanning, Returning, InHand
<1>4. Fits(p, s, bridge[p])
  BY <1>1, <1>2, <1>3, ClaimFits, PlainFits DEF Fits
<1>5. Safely(p, s)
  BY <1>2, <1>3 DEF Safely
<1> QED BY <1>1, <1>2, <1>4, <1>5, ReadStep DEF Reads

LEMMA ListStep ==
  ASSUME FeedInv, NEW p \in up, List(p) PROVE \E s, b, k : Goes(p, s, b, k)
<1> DEFINE r == call[p]
           m == [r EXCEPT !.todo = Listed, !.blocked = FALSE]
<1>1. r.pc = "list" /\ Scanned(p, m) /\ OnlyReads
  BY DEF List, At
<1>2. m \in Call /\ m.todo = Listed
  <2>1. r \in Call /\ Listed \subseteq Dir
    BY Here DEF Listed
  <2> QED BY <2>1 DEF Call
<1> HIDE DEF m
<1>3. PICK s \in Call : Continue(p, s) /\ ScansOn(m, s)
  BY <1>1, <1>2, ScannedGoes
<1>4. ~Publishing(r) /\ ~Loading(r)
  BY <1>1 DEF Publishing, Restoring, Loading
<1>5. \A d \in Dir : \A q : Old(q, d) => d \in m.todo
  BY <1>2, OldListed
<1>6. Reads(p, s)
  BY <1>1, <1>3 DEF Reads
<1>7. Goes(p, s, bridge[p], work[p])
  BY <1>1, <1>2, <1>3, <1>4, <1>5, <1>6, ScanStep
<1> QED BY <1>7

LEMMA ScanPathStep ==
  ASSUME FeedInv, NEW p \in up, Scan(p) PROVE \E s, b, k : Goes(p, s, b, k)
<1> DEFINE r == call[p]
<1>1. PICK d \in r.todo :
        LET w == takeover[d]
            m == [r EXCEPT !.todo = @ \ {d}, !.at = d]
        IN /\ At(p, "scan") /\ OnlyReads
           /\ IF Blocks(p, w) THEN Scanned(p, [m EXCEPT !.blocked = TRUE])
              ELSE IF w[1] = p THEN Continue(p, [m EXCEPT !.pc = "link", !.use = "scan"])
              ELSE Continue(p, [m EXCEPT !.pc = "drop", !.use = "scan", !.proven = TRUE])
  BY DEF Scan
<1> DEFINE w == takeover[d]
           m == [r EXCEPT !.todo = @ \ {d}, !.at = d]
<1>2. r.pc = "scan" /\ OnlyReads /\ d \in Dir
  BY <1>1, Here DEF At
<1>3. /\ m \in Call /\ m.todo = r.todo \ {d} /\ m.at = d /\ m.blocked = r.blocked
      /\ m.pc = r.pc
  <2>1. r \in Call
    BY Here
  <2> QED BY <1>2, <2>1 DEF Call
<1>4. /\ ~Publishing(r) /\ ~Loading(r) /\ Scanning(r)
      /\ \A e : Meets(r, e) <=> e \in r.todo
      /\ \A e : ~Returning(r, e)
      /\ \A e : Slips(r, e) <=> ~r.blocked /\ e \notin r.todo
  BY <1>2 DEF Publishing, Restoring, Loading, Scanning, Meets, Returning, Slips
<1>5. CASE Blocks(p, w)
  <2> DEFINE n == [m EXCEPT !.blocked = TRUE]
  <2>1. Scanned(p, n)
    BY <1>1, <1>5
  <2>2. n \in Call /\ n.todo = r.todo \ {d} /\ n.blocked
    BY <1>3 DEF Call
  <2> HIDE DEF n
  <2>3. PICK s \in Call : Continue(p, s) /\ ScansOn(n, s)
    BY <2>1, <2>2, ScannedGoes
  <2>4. ~Old(p, d)
    BY <1>5 DEF Blocks, Old
  <2>5. \A e \in Dir : Old(p, e) /\ Meets(r, e) => e \in n.todo
    BY <1>4, <2>2, <2>4
  <2> QED BY <1>2, <1>4, <2>2, <2>3, <2>5, ScanStep DEF Reads
<1>6. CASE ~Blocks(p, w) /\ w[1] = p
  <2> DEFINE s == [m EXCEPT !.pc = "link", !.use = "scan"]
  <2>1. Continue(p, s)
    BY <1>1, <1>6
  <2>2. /\ s \in Call /\ s.pc = "link" /\ s.use = "scan" /\ s.todo = r.todo \ {d} /\ s.at = d
        /\ s.blocked = r.blocked
    BY <1>3 DEF Call, Pc
  <2> HIDE DEF s
  <2>3. Handy(s) /\ CallFits(p, s)
    BY <1>2, <1>6, <2>2 DEF Handy, CallFits
  <2>4. ~Publishing(s) /\ ~Loading(s) /\ ~Restoring(s, "aba") /\ \A e : ~InHand(s, e)
    BY <2>2 DEF Publishing, Restoring, Loading, InHand
  <2>5. Fits(p, s, bridge[p])
    BY <1>2, <1>4, <2>2, <2>3, <2>4, Claiming, ClaimFits DEF Fits
  <2>6. \A e : Meets(r, e) => Meets(s, e)
    BY <1>4, <2>2 DEF Meets, Scanning, Restoring
  <2>7. \A q \in up, e \in Dir : q # p /\ Old(q, e) /\ Slips(s, e) => Slips(r, e)
    <3>1. \A q : q # p => ~Old(q, d)
      BY <1>6 DEF Old
    <3>2. \A e : Slips(s, e) => ~r.blocked /\ e \notin r.todo \ {d}
      BY <2>2 DEF Slips
    <3> QED BY <1>4, <3>1, <3>2
  <2>8. Safely(p, s)
    BY <1>4, <2>2, <2>4, <2>6, <2>7 DEF Safely
  <2> QED BY <1>2, <2>1, <2>2, <2>5, <2>8, ReadStep DEF Reads
<1>7. CASE ~Blocks(p, w) /\ w[1] # p
  <2> DEFINE s == [m EXCEPT !.pc = "drop", !.use = "scan", !.proven = TRUE]
  <2>1. Continue(p, s)
    BY <1>1, <1>7
  <2>2. /\ s \in Call /\ s.pc = "drop" /\ s.use = "scan" /\ s.todo = r.todo \ {d} /\ s.at = d
        /\ s.blocked = r.blocked
    BY <1>3 DEF Call, Pc
  <2> HIDE DEF s
  <2>3. Handy(s) /\ CallFits(p, s)
    BY <1>2, <2>2 DEF Handy, CallFits
  <2>4. ~Publishing(s) /\ ~Loading(s) /\ ~Restoring(s, "aba")
    BY <2>2 DEF Publishing, Restoring, Loading
  <2>5. Fits(p, s, bridge[p])
    BY <1>2, <1>4, <2>2, <2>3, <2>4, Claiming, ClaimFits DEF Fits
  <2>6. \A e : Meets(r, e) => Meets(s, e)
    BY <1>4, <2>2 DEF Meets, Scanning, Restoring
  <2>7. \A q \in up, e \in Dir : q # p /\ Old(q, e) /\ Slips(s, e) => Slips(r, e)
    <3>1. \A q \in up : ~Old(q, d)
      BY <1>7 DEF Blocks, Dead, Old
    <3>2. \A e : Slips(s, e) => ~r.blocked /\ e \notin r.todo \ {d}
      BY <2>2 DEF Slips
    <3> QED BY <1>4, <3>1, <3>2
  <2>8. \A e : takeover[e] = Self(p) => ~InHand(s, e)
    BY <1>7, <2>2, Here DEF InHand
  <2>9. Safely(p, s)
    BY <1>4, <2>2, <2>4, <2>6, <2>7, <2>8 DEF Safely
  <2> QED BY <1>2, <2>1, <2>2, <2>5, <2>9, ReadStep DEF Reads
<1> QED BY <1>5, <1>6, <1>7

LEMMA LookStep ==
  ASSUME FeedInv, NEW p \in up, Look(p) PROVE \E s, b, k : Goes(p, s, b, k)
<1> DEFINE r == call[p]
<1>1. r.pc = "look" /\ OnlyReads /\ r \in Call
  BY Here DEF Look, At
<1>2. /\ ~Publishing(r) /\ ~Loading(r) /\ ~Scanning(r) /\ ~Restoring(r, "aba")
      /\ \A d : Slips(r, d) /\ ~Meets(r, d) /\ ~Returning(r, d) /\ ~Tidies(r, d) /\ ~InHand(r, d)
  BY <1>1 DEF Publishing, Restoring, Loading, Scanning, Slips, Meets, Returning, Tidies, InHand
<1>3. CASE canonical = <<>>
  <2> DEFINE s == [r EXCEPT !.pc = "create"]
  <2>1. Continue(p, s)
    BY <1>1, <1>3, Here DEF Look, Goto
  <2>2. s \in Call /\ s.pc = "create"
    <3>1. "create" \in Pc
      BY DEF Pc
    <3> QED BY <1>1, <3>1, Going
  <2> HIDE DEF s
  <2>3. Plain(s) /\ ~Publishing(s) /\ ~Loading(s) /\ ~Restoring(s, "aba")
    BY <2>2 DEF Plain, Publishing, Restoring, Loading
  <2>4. Fits(p, s, bridge[p])
    BY <1>1, <1>2, <2>2, <2>3, Claiming, ClaimFits, PlainFits DEF Fits
  <2>5. Safely(p, s)
    BY <1>2, <2>2, <2>3, PlainFits DEF Safely
  <2>6. Goes(p, s, bridge[p], work[p])
    BY <1>1, <2>1, <2>2, <2>4, <2>5, ReadStep DEF Reads
  <2> QED BY <2>6
<1>4. CASE canonical = Self(p)
  <2> DEFINE s == [r EXCEPT !.pc = "load", !.proven = FALSE]
  <2>1. Continue(p, s)
    BY <1>1, <1>4, Here DEF Look
  <2>2. s \in Call /\ s.pc = "load"
    BY <1>1 DEF Call, Pc
  <2> HIDE DEF s
  <2>3. Plain(s) /\ ~Publishing(s) /\ Loading(s) /\ ~Restoring(s, "aba") /\ \A d : ~Slips(s, d)
    BY <2>2 DEF Plain, Publishing, Restoring, Loading, Slips, Scanning
  <2>4. Fits(p, s, bridge[p])
    BY <1>1, <1>2, <2>2, <2>3, Claiming, ClaimFits, PlainFits DEF Fits
  <2>5. PairInv => PairFits(p, s, bridge[p], work[p])
    <3>1. OwnerFits(bridge[p], work[p], s) /\ Held(p, s)
      BY <1>4, <2>2, <2>3 DEF OwnerFits, Held
    <3>2. \A d : ~Known(bridge[p], work[p], r, d) /\ ~Passes(bridge[p], work[p], s, d)
      BY <1>2, <2>3 DEF Known, Passes
    <3> QED BY <1>2, <3>1, <3>2 DEF PairFits, PairInv
  <2>6. Goes(p, s, bridge[p], work[p])
    BY <1>1, <2>1, <2>2, <2>4, <2>5, ReadsActs DEF Goes, Reads
  <2> QED BY <2>6
<1>5. CASE canonical \notin {<<>>, Self(p)} /\ (canonical[1] = p \/ Dead(p, canonical))
  <2> DEFINE s == [r EXCEPT !.pc = "move", !.seen = canonical]
  <2>1. Continue(p, s)
    BY <1>1, <1>5 DEF Look
  <2>2. s \in Call /\ s.pc = "move" /\ s.seen = canonical
    <3>1. canonical \in Lease
      BY DEF FeedInv, TypeOK
    <3> QED BY <1>1, <3>1 DEF Call, Pc
  <2> HIDE DEF s
  <2>3. /\ ~Publishing(s) /\ ~Loading(s) /\ ~Restoring(s, "aba") /\ Handy(s) /\ CallFits(p, s)
        /\ \A d : ~InHand(s, d)
    BY <1>5, <2>2 DEF Publishing, Restoring, Loading, Handy, CallFits, InHand, Dead
  <2>4. Fits(p, s, bridge[p])
    BY <1>1, <1>2, <2>2, <2>3, Claiming, ClaimFits DEF Fits
  <2>5. PairInv => Safely(p, s)
    <3>1. PairInv => ~Owner(p)
      BY <1>5 DEF PairInv, Held
    <3> QED BY <1>2, <1>5, <2>3, <3>1 DEF Safely
  <2>6. Goes(p, s, bridge[p], work[p])
    BY <1>1, <2>1, <2>2, <2>4, <2>5, ReadStep DEF Reads
  <2> QED BY <2>6
<1>6. CASE canonical \notin {<<>>, Self(p)} /\ ~(canonical[1] = p \/ Dead(p, canonical))
  <2>1. Reads(p, Quiet)
    BY <1>1, <1>6, QuietCall DEF Look, Returns, Reads
  <2>2. Goes(p, Quiet, bridge[p], work[p])
    BY <1>1, <1>2, <2>1, QuietCall, RestartStep DEF Restarts
  <2> QED BY <2>2
<1> QED BY <1>3, <1>4, <1>5, <1>6

\* A call that finds its way barred starts over, and nothing is changed.
LEMMA BarredStep ==
  ASSUME FeedInv, NEW p \in up, call[p].pc \in {"create", "move", "replace"},
         Again(p), OnlyReads
  PROVE  \E s, b, k : Goes(p, s, b, k)
<1>1. PICK s \in Call : Continue(p, s) /\ Restarts(s)
  BY Here, AgainGoes
<1>2. ~Publishing(call[p]) /\ ~Loading(call[p])
  BY DEF Publishing, Restoring, Loading
<1>3. Goes(p, s, bridge[p], work[p])
  BY <1>1, <1>2, RestartStep DEF Reads
<1> QED BY <1>3

LEMMA CheckStep ==
  ASSUME FeedInv, NEW p \in up, Check(p) PROVE \E s, b, k : Goes(p, s, b, k)
<1> DEFINE r == call[p]
           a == r.at
<1>1. r.pc = "check" /\ OnlyReads /\ r \in Call /\ a \in Dir
  BY Here DEF Check, At, Handy
<1>2. /\ ~Publishing(r) /\ ~Loading(r) /\ ~Scanning(r) /\ ~Restoring(r, "aba")
      /\ \A d : /\ ~Slips(r, d) /\ ~Tidies(r, d) /\ (Meets(r, d) <=> d = a)
                /\ (Returning(r, d) <=> d = a)
  BY <1>1 DEF Publishing, Restoring, Loading, Scanning, Slips, Meets, Returning, Tidies
<1>3. r.seen # <<>> /\ (r.seen[1] = p \/ r.seen[1] \notin up)
  BY <1>1, Here DEF CallFits
<1>4. PairInv => ~Owner(p)
  BY <1>1 DEF PairInv, OwnerFits, Owner
<1>5. CASE Displaced(p, takeover[a])
  <2> DEFINE s == [r EXCEPT !.pc = "replace"]
  <2>1. Continue(p, s)
    BY <1>1, <1>5 DEF Check, Goto
  <2>2. s \in Call /\ s.pc = "replace" /\ s.at = a
    <3>1. "replace" \in Pc
      BY DEF Pc
    <3> QED BY <1>1, <3>1, Going DEF Moved
  <2> HIDE DEF s
  <2>3. /\ ~Publishing(s) /\ ~Loading(s) /\ ~Restoring(s, "aba") /\ Handy(s) /\ CallFits(p, s)
        /\ ~Scanning(s) /\ \A d : ~Slips(s, d) /\ ~InHand(s, d)
    BY <1>1, <2>2 DEF Publishing, Restoring, Loading, Handy, CallFits, Slips, Scanning, InHand
  <2>4. Fits(p, s, bridge[p])
    BY <1>1, <1>2, <2>2, <2>3, Claiming, ClaimFits DEF Fits
  <2>5. \A q \in up, d \in Dir : q # p /\ takeover[d] = Self(q) => ~Returning(r, d)
    BY <1>2, <1>3, <1>5, Here DEF Displaced
  <2>6. \A d : Meets(s, d) <=> d = a
    BY <2>2, <2>3 DEF Meets
  <2>7. PairInv => Safely(p, s)
    BY <1>2, <1>4, <2>3, <2>5, <2>6 DEF Safely
  <2>8. Goes(p, s, bridge[p], work[p])
    BY <1>1, <2>1, <2>2, <2>4, <2>7, ReadStep DEF Reads
  <2> QED BY <2>8
<1>6. CASE ~Displaced(p, takeover[a])
  <2> DEFINE s == [r EXCEPT !.pc = "link", !.use = "aba"]
  <2>1. Continue(p, s)
    BY <1>1, <1>6 DEF Check
  <2>2. s \in Call /\ s.pc = "link" /\ s.at = a /\ s.use = "aba"
    BY <1>1 DEF Call, Pc
  <2> HIDE DEF s
  <2>3. /\ ~Publishing(s) /\ ~Loading(s) /\ Handy(s) /\ CallFits(p, s) /\ ~Scanning(s)
        /\ Restoring(s, "aba") /\ \A d : ~Slips(s, d) /\ ~InHand(s, d) /\ Meets(s, d)
    BY <1>1, <2>2
    DEF Publishing, Restoring, Loading, Handy, CallFits, Slips, Scanning, InHand, Meets
  <2>4. Fits(p, s, bridge[p])
    BY <1>1, <1>2, <2>2, <2>3, Claiming, ClaimFits DEF Fits
  <2>5. \A d : Returning(r, d) => Returning(s, d)
    BY <1>2, <2>2 DEF Returning
  <2>6. PairInv => Safely(p, s)
    BY <1>2, <1>4, <2>3, <2>5 DEF Safely
  <2>7. Goes(p, s, bridge[p], work[p])
    BY <1>1, <2>1, <2>2, <2>4, <2>6, ReadStep DEF Reads
  <2> QED BY <2>7
<1> QED BY <1>5, <1>6

LEMMA RestoredStep ==
  ASSUME FeedInv, NEW p \in up, Restored(p) PROVE \E s, b, k : Goes(p, s, b, k)
<1> DEFINE r == call[p]
           a == r.at
<1>1. r.pc = "restored" /\ OnlyReads /\ r \in Call /\ a \in Dir /\ r.use # "tidy"
  BY Here DEF Restored, At, Handy, CallFits
<1>2. ~Loading(r) /\ \A d : ~Returning(r, d) /\ (InHand(r, d) <=> d = a)
  BY <1>1 DEF Loading, Returning, InHand
<1>3. CASE canonical # <<>>
  <2> DEFINE s == [r EXCEPT !.pc = "drop"]
  <2>1. Continue(p, s)
    BY <1>1, <1>3 DEF Restored, Goto
  <2>2. s \in Call /\ s.pc = "drop" /\ Moved(r, s)
    <3>1. "drop" \in Pc
      BY DEF Pc
    <3> QED BY <1>1, <3>1, Going
  <2> HIDE DEF s
  <2>3. /\ Handy(s) /\ CallFits(p, s) /\ ~Loading(s)
        /\ Publishing(s) <=> Publishing(r)
        /\ \A u : Restoring(s, u) <=> Restoring(r, u)
    BY <1>1, <2>2 DEF Handy, CallFits, Loading, Publishing, Restoring, Moved
  <2>4. Fits(p, s, bridge[p])
    BY <1>1, <2>2, <2>3, Here DEF Fits, BridgeFits
  <2>5. /\ \A d : Meets(r, d) => Meets(s, d)
        /\ \A d : Slips(s, d) => Slips(r, d)
    BY <1>1, <2>2, <2>3 DEF Meets, Slips, Scanning, Moved
  <2>6. PairInv => (Owner(p) => ~Restoring(r, "aba"))
    BY DEF PairInv, OwnerFits, Owner
  <2>7. PairInv => Safely(p, s)
    BY <1>2, <1>3, <2>2, <2>3, <2>5, <2>6 DEF Safely
  <2>8. Goes(p, s, bridge[p], work[p])
    BY <1>1, <2>1, <2>2, <2>4, <2>7, ReadStep DEF Reads
  <2> QED BY <2>8
<1>4. CASE canonical = <<>>
  <2>1. Dealt(p)
    BY <1>1, <1>4 DEF Restored
  <2>2. PICK s \in Call : Continue(p, s) /\ DealsWith(r, s)
    BY <1>1, <2>1, DealtGoes
  <2>3. Reads(p, s)
    BY <1>1, <2>2 DEF Reads
  <2>4. CASE r.use = "scan"
    <3>1. ScansOn(r, s) /\ ~Publishing(r) /\ Scanning(r)
      BY <1>1, <2>2, <2>4 DEF DealsWith, Publishing, Restoring, Scanning
    <3>2. \A d : Meets(r, d) => d \in r.todo
      BY <1>1, <1>4, <2>4 DEF Meets, Restoring
    <3>3. \A d : ~r.blocked /\ d \notin r.todo => Slips(r, d)
      BY <3>1 DEF Slips
    <3>4. Goes(p, s, bridge[p], work[p])
      BY <1>1, <1>2, <2>3, <3>1, <3>2, <3>3, ScanStep
    <3> QED BY <3>4
  <2>5. CASE r.use = "aba"
    <3>1. Restarts(s) /\ ~Publishing(r)
      BY <1>1, <2>2, <2>5 DEF DealsWith, Publishing, Restoring
    <3>2. Goes(p, s, bridge[p], work[p])
      BY <1>1, <1>2, <2>3, <3>1, RestartStep
    <3> QED BY <3>2
  <2>6. CASE r.use = "publish"
    <3>1. s = [r EXCEPT !.pc = "verify"] /\ bridge[p].claimed
      BY <1>1, <2>2, <2>6, Here DEF DealsWith, BridgeFits, Publishing, Restoring
    <3>2. s.pc = "verify"
      <4>1. "verify" \in Pc
        BY DEF Pc
      <4> QED BY <1>1, <3>1, <4>1, Going
    <3>3. Goes(p, s, bridge[p], work[p])
      BY <1>1, <1>2, <2>3, <3>1, <3>2, PublisherStep DEF Plain, Publishing
    <3> QED BY <3>3
  <2>7. r.use \in {"scan", "aba", "publish"}
    BY <1>1, Here
  <2> QED BY <2>4, <2>5, <2>6, <2>7
<1> QED BY <1>3, <1>4

-----------------------------------------------------------------------------
(***************************************************************************)
(* The steps of publishOwner that only look.                               *)
(***************************************************************************)
LEMMA PublishStep ==
  ASSUME FeedInv, NEW p \in up, Publish(p) PROVE \E s, b, k : Goes(p, s, b, k)
<1> DEFINE s == [call[p] EXCEPT !.pc = "exists", !.use = "publish", !.ending = FALSE]
<1>1. /\ call[p].pc = "idle" /\ bridge[p].claimed /\ Continue(p, s) /\ OnlyReads
      /\ call[p] \in Call
  BY Here DEF Publish, Publishes, At
<1>2. s \in Call /\ s.pc = "exists" /\ s.use = "publish"
  BY <1>1 DEF Call, Pc
<1> HIDE DEF s
<1>3. Goes(p, s, bridge[p], work[p])
  BY <1>1, <1>2, PublisherStep DEF Reads, Plain, Publishing, Loading
<1> QED BY <1>3

LEMMA ExistsStep ==
  ASSUME FeedInv, NEW p \in up, Exists(p) PROVE \E s, b, k : Goes(p, s, b, k)
<1> DEFINE r == call[p]
<1>1. PICK pc \in {"verify", "find"} : Continue(p, [r EXCEPT !.pc = pc])
  BY DEF Exists, Goto
<1> DEFINE s == [r EXCEPT !.pc = pc]
<1>2. r.pc = "exists" /\ OnlyReads /\ r \in Call /\ bridge[p].claimed /\ r.use = "publish"
  BY Here DEF Exists, At, BridgeFits, CallFits, Publishing
<1>3. s \in Call /\ s.pc = pc /\ Moved(r, s)
  <2>1. pc \in Pc
    BY DEF Pc
  <2> QED BY <1>2, <2>1, Going
<1> HIDE DEF s
<1>4. Goes(p, s, bridge[p], work[p])
  BY <1>1, <1>2, <1>3, PublisherStep DEF Reads, Plain, Publishing, Loading, Moved, s
<1> QED BY <1>4

\* The search for the own lease among the paths that m lists.
LEMMA FoundStep ==
  ASSUME FeedInv, NEW p \in up, NEW m \in Call, Found(p, m), OnlyReads, m.use = "publish",
         bridge[p].claimed, call[p].pc \in {"find", "findRead"}
  PROVE  \E s, b, k : Goes(p, s, b, k)
<1>1. PICK s \in Call : Continue(p, s) /\ Moved(m, s) /\ s.pc \in {"verify", "findRead"}
  BY FoundGoes
<1>2. Plain(s) /\ Publishing(s) /\ ~Loading(call[p]) /\ Reads(p, s)
  BY <1>1 DEF Plain, Publishing, Loading, Moved, Reads
<1>3. Goes(p, s, bridge[p], work[p])
  BY <1>2, PublisherStep
<1> QED BY <1>3

LEMMA FindStep ==
  ASSUME FeedInv, NEW p \in up, Find(p) PROVE \E s, b, k : Goes(p, s, b, k)
<1> DEFINE r == call[p]
           m == [r EXCEPT !.todo = Listed]
<1>1. /\ r.pc = "find" /\ OnlyReads /\ r \in Call /\ bridge[p].claimed /\ r.use = "publish"
      /\ Found(p, m) /\ Listed \subseteq Dir
  BY Here DEF Find, At, BridgeFits, CallFits, Publishing, Listed
<1>2. m \in Call /\ m.use = "publish"
  BY <1>1 DEF Call
<1> HIDE DEF m
<1> QED BY <1>1, <1>2, FoundStep

LEMMA FindReadStep ==
  ASSUME FeedInv, NEW p \in up, FindRead(p) PROVE \E s, b, k : Goes(p, s, b, k)
<1> DEFINE r == call[p]
<1>1. PICK d \in r.todo :
        IF takeover[d] = Self(p)
        THEN Continue(p, [r EXCEPT !.pc = "link", !.todo = {}, !.at = d])
        ELSE Found(p, [r EXCEPT !.todo = @ \ {d}])
  BY DEF FindRead
<1>2. /\ r.pc = "findRead" /\ OnlyReads /\ r \in Call /\ bridge[p].claimed /\ r.use = "publish"
      /\ d \in Dir
  BY <1>1, Here DEF FindRead, At, BridgeFits, CallFits, Publishing
<1>3. CASE takeover[d] = Self(p)
  <2> DEFINE s == [r EXCEPT !.pc = "link", !.todo = {}, !.at = d]
  <2>1. Continue(p, s)
    BY <1>1, <1>3
  <2>2. s \in Call /\ s.pc = "link" /\ s.use = "publish" /\ s.at = d
    BY <1>2 DEF Call, Pc
  <2> HIDE DEF s
  <2>3. /\ Publishing(s) /\ ~Loading(s) /\ ~Loading(r) /\ Handy(s) /\ CallFits(p, s)
        /\ ~Restoring(s, "aba")
        /\ \A e : ~Slips(s, e) /\ ~InHand(s, e) /\ ~Returning(r, e) /\ ~Meets(r, e)
    BY <1>2, <1>3, <2>2 DEF Publishing, Restoring, Loading, Handy, CallFits, Slips, Scanning,
       InHand, Returning, Meets
  <2>4. Fits(p, s, bridge[p])
    BY <1>2, <2>3, Here DEF Fits, BridgeFits
  <2>5. Safely(p, s)
    BY <2>2, <2>3 DEF Safely
  <2>6. Goes(p, s, bridge[p], work[p])
    BY <1>2, <2>1, <2>2, <2>4, <2>5, ReadStep DEF Reads
  <2> QED BY <2>6
<1>4. CASE takeover[d] # Self(p)
  <2> DEFINE m == [r EXCEPT !.todo = @ \ {d}]
  <2>1. Found(p, m)
    BY <1>1, <1>4
  <2>2. m \in Call /\ m.use = "publish"
    BY <1>2 DEF Call
  <2> HIDE DEF m
  <2> QED BY <1>2, <2>1, <2>2, FoundStep
<1> QED BY <1>3, <1>4

-----------------------------------------------------------------------------
(***************************************************************************)
(* Steps that change the bridge, or its subagent.                          *)
(***************************************************************************)
\* The call has returned, and the process owns no more than before.
LEMMA IdleStep ==
  ASSUME FeedInv, NEW p \in up, NEW s \in Call, NEW b, NEW k, Acts(p, s, b, k), Unseen,
         s.pc = "idle", b.claimed => b.publisher, b.publisher => b.bound,
         Owns(b, k, s) => Owner(p), call[p].pc # "drop",
         \A q \in up, d \in Dir : q # p /\ takeover[d] = Self(q) => ~Returning(call[p], d),
         PairInv => FeedRead(b) /\ CardFits(p, b, k)
  PROVE  Goes(p, s, b, k)
<1> DEFINE r == call[p]
<1>1. /\ ~Publishing(s) /\ ~Restoring(s, "aba") /\ Plain(s)
      /\ \A d : Meets(s, d) /\ ~Slips(s, d) /\ ~Tidies(r, d)
  BY DEF Publishing, Restoring, Plain, Meets, Slips, Scanning, Tidies
<1>2. Fits(p, s, b)
  BY <1>1, PlainFits DEF Fits, BridgeFits
<1>3. ASSUME PairInv PROVE PairFits(p, s, b, k)
  <2>1. OwnerFits(b, k, s)
    BY <1>1 DEF OwnerFits, Plain
  <2>2. Owns(b, k, s) => Held(p, s)
    <3>1. Owner(p) => Held(p, r)
      BY <1>3 DEF PairInv
    <3> QED BY <1>1, <3>1, PlainFits DEF Held
  <2>3. \A d : Known(bridge[p], work[p], r, d) => Known(b, k, s, d)
    BY <1>1 DEF Known, Owner
  <2>4. \A d : ~Passes(b, k, s, d)
    BY <1>1 DEF Passes
  <2> QED BY <1>3, <2>1, <2>2, <2>3, <2>4 DEF PairFits
<1> QED BY <1>2, <1>3 DEF Goes

\* The call s, the bridge b and the subagent k take the place of those of p.
LEMMA Replacing ==
  ASSUME FeedInv, NEW p \in up, NEW s \in Call, NEW b \in Bridge,
         NEW k \in {"none", "running", "done"}, failures' \in 0..MaxFailures,
         \/ Continue(p, s)
         \/ call' = call /\ s = call[p],
         \/ SetBridge(p, b)
         \/ bridge' = bridge /\ b = bridge[p],
         \/ work' = [work EXCEPT ![p] = k]
         \/ work' = work /\ k = work[p]
  PROVE  Acts(p, s, b, k)
<1>1. p \in Process
  BY Here
<1>2. call' \in [Process -> Call] /\ call'[p] = s /\ \A q \in Process : q # p => call'[q] = call[q]
  BY <1>1, Typed, Continues
<1>3. /\ bridge' \in [Process -> Bridge] /\ bridge'[p] = b
      /\ \A q \in Process : q # p => bridge'[q] = bridge[q]
  BY <1>1, Typed, Sets
<1>4. /\ work' \in [Process -> {"none", "running", "done"}] /\ work'[p] = k
      /\ \A q \in Process : q # p => work'[q] = work[q]
  BY <1>1, Typed
<1> QED BY <1>2, <1>3, <1>4 DEF Acts

LEMMA SameFailures ==
  ASSUME FeedInv, failures' = failures PROVE failures' \in 0..MaxFailures
  BY DEF FeedInv, TypeOK

\* The end of publishOwner or of a claim.
LEMMA PublishedStep ==
  ASSUME FeedInv, NEW p \in up, NEW c \in Bridge, Published(p, c), Unseen,
         UNCHANGED <<work, failures>>, call[p].pc \notin {"idle", "drop"},
         c.claimed => c.publisher, c.publisher => c.bound /\ bridge[p].publisher,
         \A q \in up, d \in Dir : q # p /\ takeover[d] = Self(q) => ~Returning(call[p], d),
         PairInv => FeedRead(c)
  PROVE  \E s, b, k : Goes(p, s, b, k)
<1>1. PICK b \in {Disposed, c} : SetBridge(p, b) /\ Continue(p, Quiet)
  BY DEF Published, Returns
<1>2. b \in Bridge /\ (b.claimed => b.publisher) /\ (b.publisher => b.bound)
  BY FreshBridge
<1>3. Acts(p, Quiet, b, work[p])
  <2>1. failures' \in 0..MaxFailures
    BY SameFailures
  <2>2. work[p] \in {"none", "running", "done"} /\ work' = work
    BY Here
  <2> QED BY <1>1, <1>2, <2>1, <2>2, QuietCall, Replacing
<1>4. bridge[p].bound
  BY Here DEF BridgeFits
<1>5. Owns(b, work[p], Quiet) => Owner(p)
  BY <1>4, QuietCall, FreshBridge DEF Owns, Owner, Loading
<1>6. PairInv => FeedRead(b) /\ CardFits(p, b, work[p])
  <2>1. PairInv => CardFits(p, bridge[p], work[p])
    BY DEF PairInv
  <2> QED BY <1>4, <2>1, FreshBridge DEF FeedRead, CardFits
<1>7. Goes(p, Quiet, b, work[p])
  BY <1>2, <1>3, <1>5, <1>6, QuietCall, IdleStep
<1> QED BY <1>7

LEMMA LoadStep ==
  ASSUME FeedInv, NEW p \in up, Load(p) PROVE \E s, b, k : Goes(p, s, b, k)
<1> DEFINE r == call[p]
           c == [bound |-> TRUE, publisher |-> TRUE, claimed |-> ~r.proven, proof |-> r.proven,
                 abandoned |-> {w \in Writer : r.proven /\ feed.cards[w] = "running"},
                 rev |-> feed.rev, cards |-> feed.cards]
<1>1. r.pc = "load" /\ SetBridge(p, c) /\ Continue(p, Quiet) /\ Unseen
  BY DEF Load, At, Returns, Rest, Unseen
<1>2. /\ c \in Bridge /\ c.bound = TRUE /\ c.publisher = TRUE /\ c.rev = feed.rev
      /\ c.cards = feed.cards
  <2>1. r.proven \in BOOLEAN /\ feed.rev \in Nat /\ feed.cards \in [Writer -> Status]
    BY Here, Fields DEF FeedInv, TypeOK
  <2> QED BY <2>1 DEF Bridge
<1> HIDE DEF c
<1>3. Acts(p, Quiet, c, work[p])
  <2>1. failures' \in 0..MaxFailures /\ work' = work
    BY SameFailures DEF Load, Rest
  <2>2. work[p] \in {"none", "running", "done"}
    BY Here
  <2> QED BY <1>1, <1>2, <2>1, <2>2, QuietCall, Replacing
<1>4. bridge[p].bound /\ Owner(p)
  BY <1>1, Here DEF BridgeFits, Owner, Owns, Loading
<1>5. PairInv => FeedRead(c) /\ CardFits(p, c, work[p])
  <2>1. PairInv => CardFits(p, bridge[p], work[p])
    BY DEF PairInv
  <2> QED BY <1>2, <1>4, <2>1 DEF FeedRead, CardFits
<1>6. \A d : ~Returning(r, d)
  BY <1>1 DEF Returning
<1>7. Goes(p, Quiet, c, work[p])
  BY <1>1, <1>2, <1>3, <1>4, <1>5, <1>6, QuietCall, IdleStep
<1> QED BY <1>7

LEMMA ReconciledKeeps ==
  ASSUME NEW c \in Bridge
  PROVE  /\ Reconciled(c) \in Bridge /\ Reconciled(c).bound = c.bound
         /\ Reconciled(c).publisher = c.publisher /\ Reconciled(c).claimed = c.claimed
         /\ Reconciled(c).rev = c.rev /\ Reconciled(c).cards = c.cards
  BY DEF Bridge, Reconciled

LEMMA VerifyStep ==
  ASSUME FeedInv, NEW p \in up, Verify(p) PROVE \E s, b, k : Goes(p, s, b, k)
<1> DEFINE r == call[p]
<1>1. /\ r.pc = "verify" /\ r \in Call /\ bridge[p] \in Bridge /\ bridge[p].claimed
      /\ bridge[p].publisher /\ bridge[p].bound
  BY Here DEF Verify, At, BridgeFits, Publishing
<1>2. Unseen /\ UNCHANGED <<work, failures>> /\ \A d : ~Returning(r, d)
  BY <1>1 DEF Verify, Rest, Unseen, Returning
<1>3. CASE Published(p, Fresh)
  <2>1. Fresh \in Bridge /\ ~Fresh.claimed /\ ~Fresh.publisher /\ FeedRead(Fresh)
    BY FreshBridge DEF FeedRead
  <2> QED BY <1>1, <1>2, <1>3, <2>1, PublishedStep
<1>4. CASE Published(p, Reconciled(bridge[p]))
  <2> DEFINE c == Reconciled(bridge[p])
  <2>1. /\ c \in Bridge /\ (c.claimed => c.publisher)
        /\ c.publisher => c.bound /\ bridge[p].publisher
        /\ PairInv => FeedRead(c)
    <3>1. PairInv => FeedRead(bridge[p])
      BY DEF PairInv
    <3>2. bridge[p] \in Bridge
      BY <1>1
    <3> QED BY <1>1, <3>1, <3>2, ReconciledKeeps DEF FeedRead
  <2> HIDE DEF c
  <2>2. Published(p, c)
    BY <1>4 DEF c
  <2> QED BY <1>1, <1>2, <2>1, <2>2, PublishedStep
<1>5. CASE Goto(p, "store") /\ UNCHANGED bridge
  <2> DEFINE s == [r EXCEPT !.pc = "store"]
  <2>1. s \in Call /\ s.pc = "store"
    <3>1. "store" \in Pc
      BY DEF Pc
    <3> QED BY <1>1, <3>1, Going
  <2>2. Continue(p, s) /\ OnlyReads
    BY <1>5 DEF Goto, Verify, OnlyReads
  <2> HIDE DEF s
  <2>3. Goes(p, s, bridge[p], work[p])
    BY <1>1, <2>1, <2>2, PublisherStep DEF Reads, Plain, Publishing, Loading
  <2> QED BY <2>3
<1> QED BY <1>3, <1>4, <1>5 DEF Verify

\* A step of the bridge between its calls.
LEMMA BetweenStep ==
  ASSUME FeedInv, NEW p \in up, NEW b \in Bridge, NEW k \in {"none", "running", "done"},
         call[p].pc = "idle", Acts(p, call[p], b, k), Unseen,
         b.claimed => b.publisher, b.publisher => b.bound, Owns(b, k, call[p]) => Owner(p),
         PairInv => FeedRead(b) /\ CardFits(p, b, k)
  PROVE  Goes(p, call[p], b, k)
<1>1. call[p] \in Call /\ \A d : ~Returning(call[p], d)
  BY Here DEF Returning
<1> QED BY <1>1, IdleStep

LEMMA RefreshStep ==
  ASSUME FeedInv, NEW p \in up, Refresh(p) PROVE \E s, b, k : Goes(p, s, b, k)
<1> DEFINE c == [bridge[p] EXCEPT !.claimed = TRUE]
<1>1. /\ call[p].pc = "idle" /\ bridge[p].publisher /\ bridge[p].bound /\ bridge[p] \in Bridge
      /\ work[p] \in {"none", "running", "done"} /\ call[p] \in Call
  BY Here DEF Refresh, At, BridgeFits
<1>2. /\ c \in Bridge /\ c.bound = bridge[p].bound /\ c.publisher = bridge[p].publisher
      /\ c.rev = bridge[p].rev /\ c.cards = bridge[p].cards
  BY <1>1 DEF Bridge
<1> HIDE DEF c
<1>3. failures' \in 0..MaxFailures
  BY Numbers DEF Refresh, FeedInv, TypeOK
<1>4. PICK b \in {c, bridge[p]} : SetBridge(p, b)
  BY DEF Refresh, Deferred, c
<1>5. /\ b \in Bridge /\ b.bound /\ b.publisher /\ b.rev = bridge[p].rev
      /\ b.cards = bridge[p].cards
  BY <1>1, <1>2, <1>4
<1>6. Acts(p, call[p], b, work[p]) /\ Unseen
  <2>1. call' = call /\ work' = work /\ Unseen
    BY DEF Refresh, Unseen
  <2> QED BY <1>1, <1>3, <1>4, <1>5, <2>1, Replacing
<1>7. Owner(p)
  BY <1>1 DEF Owner, Owns
<1>8. PairInv => FeedRead(b) /\ CardFits(p, b, work[p])
  <2>1. PairInv => FeedRead(bridge[p]) /\ CardFits(p, bridge[p], work[p])
    BY DEF PairInv
  <2> QED BY <1>1, <1>5, <2>1 DEF FeedRead, CardFits
<1>9. Goes(p, call[p], b, work[p])
  BY <1>1, <1>5, <1>6, <1>7, <1>8, BetweenStep
<1> QED BY <1>9

LEMMA WorkStep ==
  ASSUME FeedInv, NEW p \in up, Spawn(p) \/ Finish(p) PROVE \E s, b, k : Goes(p, s, b, k)
<1> DEFINE b == bridge[p]
<1>1. /\ call[p].pc = "idle" /\ b.bound /\ b \in Bridge /\ call[p] \in Call
      /\ b.claimed => b.publisher
  BY Here DEF Spawn, Finish, At, BridgeFits
<1>2. PICK k \in {"running", "done"} :
        /\ work' = [work EXCEPT ![p] = k]
        /\ k = "running" => b.claimed /\ work[p] = "none"
  BY DEF Spawn, Finish
<1>3. Acts(p, call[p], b, k) /\ Unseen
  <2>1. call' = call /\ bridge' = bridge /\ Unseen /\ failures' \in 0..MaxFailures
    BY SameFailures DEF Spawn, Finish, Unseen
  <2> QED BY <1>1, <1>2, <2>1, Replacing
<1>4. Owns(b, k, call[p]) => Owner(p)
  BY <1>1, <1>2 DEF Owner, Owns
<1>5. PairInv => FeedRead(b) /\ CardFits(p, b, k)
  <2>1. PairInv => FeedRead(b) /\ CardFits(p, b, work[p])
    BY DEF PairInv
  <2> QED BY <1>1, <1>2, <2>1 DEF CardFits
<1>6. Goes(p, call[p], b, k)
  BY <1>1, <1>3, <1>4, <1>5, BetweenStep
<1> QED BY <1>6

LEMMA ShutdownStep ==
  ASSUME FeedInv, NEW p \in up, Shutdown(p) PROVE \E s, b, k : Goes(p, s, b, k)
<1>1. /\ call[p].pc = "idle" /\ bridge[p].bound /\ call[p] \in Call /\ Unseen
      /\ UNCHANGED <<work, failures>>
  BY Here DEF Shutdown, At, Rest, Unseen
<1>2. CASE bridge[p].claimed
  <2> DEFINE s == [call[p] EXCEPT !.pc = "exists", !.use = "publish", !.ending = TRUE]
  <2>1. Continue(p, s) /\ OnlyReads
    BY <1>2 DEF Shutdown, Publishes, OnlyReads
  <2>2. s \in Call /\ s.pc = "exists" /\ s.use = "publish"
    BY <1>1 DEF Call, Pc
  <2> HIDE DEF s
  <2>3. Goes(p, s, bridge[p], work[p])
    BY <1>1, <1>2, <2>1, <2>2, PublisherStep DEF Reads, Plain, Publishing, Loading
  <2> QED BY <2>3
<1>3. CASE ~bridge[p].claimed
  <2>1. SetBridge(p, Disposed) /\ call' = call
    BY <1>3 DEF Shutdown
  <2>2. Acts(p, call[p], Disposed, work[p])
    <3>1. failures' \in 0..MaxFailures /\ work[p] \in {"none", "running", "done"} /\ work' = work
      BY <1>1, SameFailures, Here
    <3> QED BY <1>1, <2>1, <3>1, FreshBridge, Replacing
  <2>3. Owns(Disposed, work[p], call[p]) => Owner(p)
    BY FreshBridge DEF Owns, Owner
  <2>4. PairInv => FeedRead(Disposed) /\ CardFits(p, Disposed, work[p])
    <3>1. PairInv => CardFits(p, bridge[p], work[p])
      BY DEF PairInv
    <3> QED BY <3>1, FreshBridge DEF FeedRead, CardFits
  <2>5. work[p] \in {"none", "running", "done"}
    BY Here
  <2>6. Goes(p, call[p], Disposed, work[p])
    BY <1>1, <2>2, <2>3, <2>4, <2>5, FreshBridge, BetweenStep
  <2> QED BY <2>6
<1> QED BY <1>2, <1>3

\* The path to restore is gone: the claim or the publication fails.
LEMMA GoneStep ==
  ASSUME FeedInv, NEW p \in up, Link(p), takeover[call[p].at] = <<>>
  PROVE  \E s, b, k : Goes(p, s, b, k)
<1>1. /\ call[p].pc = "link" /\ Published(p, bridge[p]) /\ Unseen
      /\ UNCHANGED <<work, failures>>
  BY DEF Link, At, Rest, Unseen
<1>2. /\ bridge[p] \in Bridge /\ (bridge[p].claimed => bridge[p].publisher)
      /\ bridge[p].publisher => bridge[p].bound
  BY Here DEF BridgeFits
<1>3. \A q \in up, d \in Dir : takeover[d] = Self(q) => ~Returning(call[p], d)
  BY Here DEF Returning
<1>4. PairInv => FeedRead(bridge[p])
  BY DEF PairInv
<1> QED BY <1>1, <1>2, <1>3, <1>4, PublishedStep

-----------------------------------------------------------------------------
(***************************************************************************)
(* Steps that other processes see.                                         *)
(***************************************************************************)
Two == \A a, b, c \in Process : a = b \/ a = c \/ b = c

Keeps == FeedInv' /\ (Two /\ PairInv => PairInv')

LEMMA GoesKeeps ==
  ASSUME FeedInv, NEW p \in up, \E s, b, k : Goes(p, s, b, k)
  PROVE  Keeps
<1>1. PICK s, b, k : Goes(p, s, b, k)
  OBVIOUS
<1> QED BY <1>1, UnseenKeeps, UnseenKeepsPair DEF Keeps

\* Without a lease in its place, and with no process that would link it back, no
\* other process owns one.
LEMMA InPlace ==
  ASSUME FeedInv, PairInv, NEW p \in up, NEW q \in up, q # p, Owner(q),
         call[p].pc \notin {"check", "link"}
  PROVE  canonical = Self(q) /\ canonical # <<>>
<1>1. Held(q, call[q]) /\ Self(q) # <<>>
  BY Here DEF PairInv
<1> QED BY <1>1 DEF Held, Returning

\* Two processes do not own the lease at once.
LEMMA Alone ==
  ASSUME FeedInv, PairInv, NEW p \in up, NEW q \in up, Owner(p), Owner(q)
  PROVE  p = q
<1> SUFFICES ASSUME p # q PROVE FALSE
  OBVIOUS
<1>1. /\ Held(p, call[p]) /\ Held(q, call[q]) /\ Self(p)[1] = p /\ Self(q)[1] = q
      /\ Self(p) # <<>> /\ Self(q) # <<>>
  BY Here DEF PairInv
<1>2. OwnerFits(bridge[q], work[q], call[q]) /\ CallFits(q, call[q])
      /\ call[q].use \in {"scan", "aba", "publish", "tidy"}
  BY Here DEF PairInv
<1>3. PICK d \in Dir : takeover[d] = Self(p) /\ Returning(call[q], d)
  BY <1>1 DEF Held
<1>4. call[q].pc = "link" /\ call[q].at = d /\ call[q].use # "aba"
  BY <1>2, <1>3 DEF OwnerFits, Owner, Returning, Restoring
<1> QED BY <1>1, <1>2, <1>3, <1>4 DEF CallFits

\* What the other processes keep when p goes on.
LEMMA Others ==
  ASSUME FeedInv, NEW p \in up, NEW s, NEW b, NEW k, Acts(p, s, b, k)
  PROVE  /\ call'[p] = s /\ bridge'[p] = b /\ work'[p] = k
         /\ \A q \in up : q # p =>
              /\ call'[q] = call[q] /\ bridge'[q] = bridge[q] /\ work'[q] = work[q]
              /\ Owner(q)' <=> Owner(q)
<1>1. \A q \in up : q \in Process
  BY Here
<1> QED BY <1>1 DEF Acts, Owner

LEMMA SeenKeeps ==
  ASSUME FeedInv, NEW p \in up, NEW s, NEW b, NEW k, Acts(p, s, b, k), UNCHANGED <<up, gen>>,
         canonical' \in Lease, takeover' \in [Dir -> Lease],
         feed' \in [rev : Nat, cards : [Writer -> Status]],
         Handy(s), BridgeFits(b, s), CallFits(p, call[p])',
         \A q \in up : q # p /\ call[q].pc = "link" =>
           takeover'[call[q].at] \in {takeover[call[q].at], <<>>}
  PROVE  FeedInv'
<1>1. p \in Process /\ up \subseteq Process /\ up' = up /\ gen' = gen
  BY DEF FeedInv, TypeOK
<1>2. TypeOK'
  BY DEF FeedInv, TypeOK, Acts
<1>3. \A q \in Process : Handy(call'[q])
  BY <1>1 DEF FeedInv, Acts
<1>4. ASSUME NEW q \in up PROVE BridgeFits(bridge'[q], call'[q]) /\ CallFits(q, call[q])'
  <2>1. CASE q = p
    BY <2>1 DEF Acts
  <2>2. CASE q # p
    <3>1. /\ call'[q] = call[q] /\ bridge'[q] = bridge[q]
          /\ BridgeFits(bridge[q], call[q]) /\ CallFits(q, call[q])
      <4>1. call'[q] = call[q] /\ bridge'[q] = bridge[q]
        BY <2>2, Others
      <4> QED BY <4>1, Here
    <3>2. call[q].pc = "link" => takeover'[call[q].at] \in {takeover[call[q].at], <<>>}
      BY <2>2
    <3> QED BY <1>1, <3>1, <3>2 DEF CallFits, Self
  <2> QED BY <2>1, <2>2
<1> QED BY <1>1, <1>2, <1>3, <1>4 DEF FeedInv

\* A step after which no path holds a lease it did not hold, and which displaces none.
LEMMA SettlesPair ==
  ASSUME FeedInv, PairInv, NEW p \in up, NEW s, Acts(p, s, bridge[p], work[p]),
         UNCHANGED <<up, gen, feed>>,
         \A d \in Dir : takeover'[d] \in {takeover[d], <<>>},
         canonical # <<>> => canonical' # <<>>,
         OwnerFits(bridge[p], work[p], s),
         \A q \in up : Owner(q)' => Held(q, call[q])',
         \A d \in Dir : Old(p, d)' /\ Known(bridge[p], work[p], call[p], d) =>
           Known(bridge[p], work[p], call[p], d)',
         \A q \in up, d \in Dir : q # p /\ Old(q, d) /\ Passes(bridge[p], work[p], s, d) =>
           Passes(bridge[p], work[p], call[p], d)
  PROVE  PairInv'
<1>1. /\ up' = up /\ gen' = gen /\ feed' = feed
      /\ call'[p] = s /\ bridge'[p] = bridge[p] /\ work'[p] = work[p]
      /\ \A q \in up : q # p => call'[q] = call[q] /\ bridge'[q] = bridge[q] /\ work'[q] = work[q]
  BY Others
<1>2. \A q \in up : OwnerFits(bridge'[q], work'[q], call'[q])
  BY <1>1 DEF PairInv
<1>3. ASSUME NEW q \in up, NEW d \in Dir PROVE Stray(q, d)'
  <2> SUFFICES ASSUME Old(q, d)',
                      NEW c \in up, c # q, Passes(bridge'[c], work'[c], call'[c], d)
               PROVE  Known(bridge[q], work[q], call[q], d)'
    BY <1>1 DEF Stray, Passes, Slips
  <2>1. Old(q, d)
    BY <1>1 DEF Old, Self
  <2>2. Passes(bridge[c], work[c], call[c], d)
    <3>1. CASE c = p
      BY <1>1, <2>1, <3>1
    <3>2. CASE c # p
      BY <1>1, <3>2
    <3> QED BY <3>1, <3>2
  <2>3. Known(bridge[q], work[q], call[q], d)
    BY <2>1, <2>2 DEF PairInv, Stray
  <2>4. CASE q = p
    BY <2>3, <2>4
  <2>5. CASE q # p
    BY <1>1, <2>3, <2>5 DEF Known, Meets
  <2> QED BY <2>4, <2>5
<1>4. ASSUME NEW q \in up PROVE FeedRead(bridge[q])' /\ CardFits(q, bridge[q], work[q])'
  <2>1. bridge'[q] = bridge[q] /\ work'[q] = work[q] /\ FeedRead(bridge[q])
        /\ CardFits(q, bridge[q], work[q])
    BY <1>1 DEF PairInv
  <2> QED BY <1>1, <2>1 DEF FeedRead, CardFits, Self
<1> QED BY <1>1, <1>2, <1>3, <1>4 DEF PairInv

\* The lease of p is in its place.
LEMMA PlacedHeld ==
  ASSUME NEW p, canonical' = Self(p), gen' = gen PROVE Held(p, call[p])'
  BY DEF Held, Self

LEMMA CreateStep ==
  ASSUME FeedInv, NEW p \in up, Create(p) PROVE Keeps
<1> DEFINE r == call[p]
           s == [r EXCEPT !.pc = "load"]
<1>1. r.pc = "create" /\ r \in Call /\ UNCHANGED <<takeover, feed, bridge, up, gen, work, failures>>
  BY Here DEF Create, At, OnlyLease, Rest
<1>2. CASE canonical # <<>>
  <2>1. Again(p) /\ OnlyReads
    BY <1>1, <1>2 DEF Create, OnlyReads, Rest
  <2> QED BY <1>1, <2>1, BarredStep, GoesKeeps
<1>3. CASE canonical = <<>>
  <2>1. canonical' = Self(p) /\ Continue(p, s)
    BY <1>3 DEF Create, Goto
  <2>2. s \in Call /\ s.pc = "load"
    <3>1. "load" \in Pc
      BY DEF Pc
    <3> QED BY <1>1, <3>1, Going
  <2> HIDE DEF s
  <2>3. Acts(p, s, bridge[p], work[p])
    <3>1. failures' \in 0..MaxFailures /\ bridge[p] \in Bridge
          /\ work[p] \in {"none", "running", "done"} /\ bridge' = bridge /\ work' = work
      BY <1>1, SameFailures, Here
    <3> QED BY <2>1, <2>2, <3>1, Replacing
  <2>4. call'[p] = s /\ \A q \in up : q # p => (Owner(q)' <=> Owner(q))
    BY <2>3, Others
  <2>5. Plain(s) /\ ~Publishing(s) /\ ~Restoring(s, "aba") /\ Loading(s) /\ \A d : ~Slips(s, d)
    BY <2>2 DEF Plain, Publishing, Restoring, Loading, Slips, Scanning
  <2>6. ~Publishing(r) /\ \A d : ~Meets(r, d) /\ ~Tidies(r, d)
    BY <1>1 DEF Publishing, Restoring, Meets, Scanning, Tidies
  <2>7. FeedInv'
    <3>1. BridgeFits(bridge[p], s)
      BY <1>1, <2>2, <2>5, <2>6, Claiming, ClaimFits
    <3>2. Handy(s) /\ CallFits(p, call[p])'
      <4>1. CallFits(p, call[p])'
        BY <2>4, <2>5 DEF Plain, CallFits
      <4> QED BY <2>5, <4>1, PlainFits
    <3>3. canonical' \in Lease /\ takeover' \in [Dir -> Lease] /\ takeover' = takeover
          /\ feed' \in [rev : Nat, cards : [Writer -> Status]]
      BY <1>1, <2>1, Here DEF FeedInv, TypeOK
    <3> QED BY <1>1, <2>3, <3>1, <3>2, <3>3, SeenKeeps
  <2>8. ASSUME PairInv PROVE PairInv'
    <3>1. OwnerFits(bridge[p], work[p], s)
      BY <2>5 DEF OwnerFits, Plain
    <3>2. \A q \in up : Owner(q)' => Held(q, call[q])'
      <4>1. \A q \in up : q # p => ~Owner(q)
        BY <1>1, <1>3, <2>8, InPlace
      <4>2. Held(p, call[p])'
        BY <1>1, <2>1, PlacedHeld
      <4> QED BY <2>4, <4>1, <4>2
    <3>3. \A d : ~Known(bridge[p], work[p], r, d) /\ ~Passes(bridge[p], work[p], s, d)
      BY <2>5, <2>6 DEF Known, Passes
    <3>4. takeover' = takeover
      BY <1>1
    <3> QED BY <1>1, <1>3, <2>3, <2>8, <3>1, <3>2, <3>3, <3>4, SettlesPair
  <2> QED BY <2>7, <2>8 DEF Keeps
<1> QED BY <1>2, <1>3

LEMMA ReplaceStep ==
  ASSUME FeedInv, NEW p \in up, Replace(p) PROVE Keeps
<1> DEFINE r == call[p]
           s == [r EXCEPT !.pc = "drop", !.use = "tidy", !.proven = @ \/ r.seen[1] # p]
<1>1. /\ r.pc = "replace" /\ r \in Call /\ r.at \in Dir
      /\ UNCHANGED <<takeover, feed, bridge, up, gen, work, failures>>
  BY Here DEF Replace, At, OnlyLease, Rest, Handy
<1>2. CASE canonical # <<>>
  <2>1. Again(p) /\ OnlyReads
    BY <1>1, <1>2 DEF Replace, OnlyReads, Rest
  <2> QED BY <1>1, <2>1, BarredStep, GoesKeeps
<1>3. CASE canonical = <<>>
  <2>1. canonical' = Self(p) /\ Continue(p, s)
    BY <1>3 DEF Replace
  <2>2. s \in Call /\ s.pc = "drop" /\ s.use = "tidy" /\ s.at = r.at
    <3>1. (r.proven \/ r.seen[1] # p) \in BOOLEAN
      OBVIOUS
    <3> QED BY <1>1, <3>1 DEF Call, Pc
  <2> HIDE DEF s
  <2>3. Acts(p, s, bridge[p], work[p])
    <3>1. failures' \in 0..MaxFailures /\ bridge[p] \in Bridge
          /\ work[p] \in {"none", "running", "done"} /\ bridge' = bridge /\ work' = work
      BY <1>1, SameFailures, Here
    <3> QED BY <2>1, <2>2, <3>1, Replacing
  <2>4. call'[p] = s /\ \A q \in up : q # p => (Owner(q)' <=> Owner(q))
    BY <2>3, Others
  <2>5. /\ ~Publishing(s) /\ ~Restoring(s, "aba") /\ Loading(s)
        /\ \A d : ~Slips(s, d) /\ (d = r.at => Tidies(s, d))
    BY <2>2 DEF Publishing, Restoring, Loading, Slips, Scanning, Tidies
  <2>6. ~Publishing(r) /\ \A d : (Meets(r, d) => d = r.at) /\ ~Tidies(r, d)
    BY <1>1 DEF Publishing, Restoring, Meets, Scanning, Tidies
  <2>7. FeedInv'
    <3>1. BridgeFits(bridge[p], s)
      BY <1>1, <2>2, <2>5, <2>6, Claiming, ClaimFits
    <3>2. Handy(s) /\ CallFits(p, call[p])'
      <4>1. CallFits(p, call[p])'
        BY <2>2, <2>4 DEF CallFits
      <4> QED BY <1>1, <2>2, <4>1 DEF Handy
    <3>3. canonical' \in Lease /\ takeover' \in [Dir -> Lease] /\ takeover' = takeover
          /\ feed' \in [rev : Nat, cards : [Writer -> Status]]
      BY <1>1, <2>1, Here DEF FeedInv, TypeOK
    <3> QED BY <1>1, <2>3, <3>1, <3>2, <3>3, SeenKeeps
  <2>8. ASSUME PairInv PROVE PairInv'
    <3>1. OwnerFits(bridge[p], work[p], s)
      BY <2>2 DEF OwnerFits, Restoring
    <3>2. \A q \in up : Owner(q)' => Held(q, call[q])'
      <4>1. \A q \in up : q # p => ~Owner(q)
        BY <1>1, <1>3, <2>8, InPlace
      <4>2. Held(p, call[p])'
        BY <1>1, <2>1, PlacedHeld
      <4> QED BY <2>4, <4>1, <4>2
    <3>3. \A d : Known(bridge[p], work[p], r, d) => d = r.at
      BY <2>6 DEF Known
    <3>4. \A d : d = r.at => Known(bridge[p], work[p], call[p], d)'
      BY <2>4, <2>5 DEF Known, Tidies
    <3>5. \A d : ~Passes(bridge[p], work[p], s, d)
      BY <2>5 DEF Passes
    <3>6. takeover' = takeover
      BY <1>1
    <3> QED BY <1>1, <1>3, <2>3, <2>8, <3>1, <3>2, <3>3, <3>4, <3>5, <3>6, SettlesPair
  <2> QED BY <2>7, <2>8 DEF Keeps
<1> QED BY <1>2, <1>3

\* A restored or erased path is dealt with.
LEMMA DealtPlace ==
  ASSUME NEW r \in Call, NEW s \in Call, r.pc = "drop", DealsWith(r, s)
  PROVE  /\ Plain(s) /\ (Publishing(s) <=> r.use = "publish") /\ (Loading(s) <=> r.use = "tidy")
         /\ \A d : /\ Slips(s, d) => Slips(r, d)
                   /\ Meets(r, d) /\ d # r.at => Meets(s, d)
<1>1. \A u : Restoring(r, u) <=> r.use = u
  BY DEF Restoring
<1>2. {"scan", "look", "verify", "load"} \subseteq Pc
  BY DEF Pc
<1>3. ASSUME NEW pc \in Pc
      PROVE  [r EXCEPT !.pc = pc].pc = pc /\ Moved(r, [r EXCEPT !.pc = pc])
  BY Going
<1>4. r.blocked \in BOOLEAN /\ r.use \in {"scan", "aba", "publish", "tidy"}
  BY Fields
<1>5. CASE r.use = "scan" /\ s.pc = "scan" /\ Moved(r, s) /\ r.todo # {}
  BY <1>1, <1>5 DEF Plain, Publishing, Loading, Slips, Meets, Scanning, Moved, Restoring
<1>6. CASE r.use = "scan" /\ s.pc = "look" /\ Moved(r, s) /\ r.todo = {} /\ ~r.blocked
  BY <1>1, <1>6 DEF Plain, Publishing, Loading, Slips, Meets, Scanning, Moved, Restoring
<1>7. CASE r.use \in {"scan", "aba"} /\ s.pc \in {"idle", "list"}
  BY <1>7 DEF Plain, Publishing, Loading, Slips, Meets, Scanning, Restoring
<1>8. CASE r.use = "publish" /\ s.pc = "verify"
  BY <1>1, <1>8 DEF Plain, Publishing, Loading, Slips, Meets, Scanning, Restoring
<1>9. CASE r.use = "tidy" /\ s.pc = "load"
  BY <1>1, <1>9 DEF Plain, Publishing, Loading, Slips, Meets, Scanning, Restoring
<1>10. \/ r.use = "scan" /\ s.pc = "scan" /\ Moved(r, s) /\ r.todo # {}
       \/ r.use = "scan" /\ s.pc = "look" /\ Moved(r, s) /\ r.todo = {} /\ ~r.blocked
       \/ r.use \in {"scan", "aba"} /\ s.pc \in {"idle", "list"}
       \/ r.use = "publish" /\ s.pc = "verify"
       \/ r.use = "tidy" /\ s.pc = "load"
  BY <1>2, <1>3, QuietCall DEF DealsWith, ScansOn, Restarts
<1> QED BY <1>5, <1>6, <1>7, <1>8, <1>9, <1>10

LEMMA DropStep ==
  ASSUME FeedInv, NEW p \in up, Drop(p) PROVE Keeps
<1> DEFINE r == call[p]
           a == r.at
<1>1. /\ r.pc = "drop" /\ r \in Call /\ a \in Dir /\ Dealt(p)
      /\ takeover' = [takeover EXCEPT ![a] = <<>>]
      /\ UNCHANGED <<canonical, feed, bridge, up, gen, work, failures>>
  BY Here DEF Drop, At, OnlyLease, Rest, Handy
<1>2. PICK s \in Call : Continue(p, s) /\ DealsWith(r, s)
  BY <1>1, DealtGoes
<1>3. /\ Plain(s) /\ (Publishing(s) <=> r.use = "publish") /\ (Loading(s) <=> r.use = "tidy")
      /\ \A d : /\ Slips(s, d) => Slips(r, d)
                /\ Meets(r, d) /\ d # a => Meets(s, d)
  BY <1>1, <1>2, DealtPlace
<1>4. (Publishing(r) <=> r.use = "publish") /\ (Loading(r) <=> r.use = "tidy")
  BY <1>1 DEF Publishing, Restoring, Loading
<1>5. Acts(p, s, bridge[p], work[p])
  <2>1. /\ failures' \in 0..MaxFailures /\ bridge[p] \in Bridge
        /\ work[p] \in {"none", "running", "done"} /\ bridge' = bridge /\ work' = work
    BY <1>1, SameFailures, Here
  <2> QED BY <1>2, <2>1, Replacing
<1>6. call'[p] = s /\ \A q \in up : q # p => (Owner(q)' <=> Owner(q)) /\ call'[q] = call[q]
  BY <1>5, Others
<1>7. /\ takeover \in [Dir -> Lease] /\ takeover' \in [Dir -> Lease] /\ takeover'[a] = <<>>
      /\ \A d \in Dir : d # a => takeover'[d] = takeover[d]
  BY <1>1, Here, Typed, Writers
<1>8. FeedInv'
  <2>1. BridgeFits(bridge[p], s)
    BY <1>1, <1>3, <1>4, Here DEF BridgeFits
  <2>2. Handy(s) /\ CallFits(p, call[p])'
    <3>1. CallFits(p, call[p])'
      BY <1>3, <1>6 DEF Plain, CallFits
    <3> QED BY <1>3, <3>1, PlainFits
  <2>3. canonical' \in Lease /\ feed' \in [rev : Nat, cards : [Writer -> Status]]
    BY <1>1 DEF FeedInv, TypeOK
  <2>4. \A q \in up : call[q].pc = "link" => takeover'[call[q].at] \in {takeover[call[q].at], <<>>}
    BY <1>7, Here DEF Handy
  <2> QED BY <1>1, <1>5, <1>7, <2>1, <2>2, <2>3, <2>4, SeenKeeps
<1>9. ASSUME PairInv PROVE PairInv'
  <2>1. Owns(bridge[p], work[p], s) <=> Owner(p)
    BY <1>3, <1>4 DEF Owns, Owner
  <2>2. OwnerFits(bridge[p], work[p], s)
    BY <1>3 DEF OwnerFits, Plain, Restoring
  <2>3. \A q : \A d \in Dir : Old(q, d)' => Old(q, d) /\ d # a
    BY <1>1, <1>7 DEF Old, Self
  <2>4. ASSUME NEW q \in up, Owner(q)' PROVE Held(q, call[q])'
    <3>1. CASE q # p
      <4>1. canonical = Self(q)
        BY <1>1, <1>6, <1>9, <2>4, <3>1, InPlace
      <4> QED BY <1>1, <4>1, PlacedHeld
    <3>2. CASE q = p
      <4>1. Owner(p)
        BY <1>5, <2>1, <2>4, <3>2, Others DEF Owner
      <4>2. Held(p, r)
        BY <1>9, <4>1 DEF PairInv
      <4>3. CASE canonical = Self(p)
        BY <1>1, <3>2, <4>3, PlacedHeld
      <4>4. CASE canonical # Self(p)
        <5>1. /\ canonical = <<>>
              /\ \A d \in Dir : Old(p, d) => d = a
          BY <4>2, <4>4 DEF Held, Tidies
        <5>2. PICK d \in Dir : /\ takeover[d] = Self(p) /\ ~InHand(r, d)
                               /\ \A c \in up \ {p} : Returning(call[c], d)
          BY <4>2, <4>4 DEF Held
        <5>3. d # a
          BY <1>1, <5>2 DEF InHand
        <5>4. takeover'[d] = Self(p) /\ ~InHand(s, d) /\ \A c \in up \ {p} : Returning(call'[c], d)
          BY <1>3, <1>6, <1>7, <5>2, <5>3, PlainFits
        <5>5. \A e \in Dir : ~Old(p, e)'
          BY <2>3, <5>1
        <5> QED BY <1>1, <1>6, <3>2, <5>1, <5>4, <5>5 DEF Held, Self
      <4> QED BY <4>3, <4>4
    <3> QED BY <3>1, <3>2
  <2>5. ASSUME NEW d \in Dir, Old(p, d)', Known(bridge[p], work[p], r, d)
        PROVE  Known(bridge[p], work[p], call[p], d)'
    <3>1. d # a
      BY <2>3, <2>5
    <3>2. ~Owner(p) /\ Meets(r, d)
      BY <2>5, <3>1 DEF Known, Owner, Tidies
    <3>3. ~Owns(bridge[p], work[p], s) /\ Meets(s, d)
      BY <1>3, <2>1, <3>1, <3>2
    <3> QED BY <1>1, <1>6, <3>3 DEF Known, Meets
  <2>6. \A d : Passes(bridge[p], work[p], s, d) => Passes(bridge[p], work[p], r, d)
    BY <1>3, <2>1 DEF Passes, Owner
  <2>7. \A d \in Dir : takeover'[d] \in {takeover[d], <<>>}
    BY <1>7
  <2> QED BY <1>1, <1>5, <1>9, <2>2, <2>4, <2>5, <2>6, <2>7, SettlesPair
<1> QED BY <1>8, <1>9 DEF Keeps

LEMMA LinkStep ==
  ASSUME FeedInv, NEW p \in up, Link(p) PROVE Keeps
<1> DEFINE r == call[p]
           a == r.at
           w == takeover[a]
           s == [r EXCEPT !.pc = "restored"]
<1>1. /\ r.pc = "link" /\ r \in Call /\ a \in Dir /\ r.use # "tidy"
      /\ r.use \in {"scan", "aba", "publish", "tidy"}
      /\ UNCHANGED <<takeover, feed, up, gen, work, failures>>
  BY Here DEF Link, At, Rest, Handy, CallFits
<1>2. CASE w = <<>>
  BY <1>2, GoneStep, GoesKeeps
<1>3. CASE w # <<>>
  <2>1. /\ canonical' = IF canonical = <<>> THEN w ELSE canonical
        /\ Continue(p, s) /\ bridge' = bridge
    BY <1>3 DEF Link, Goto
  <2>2. s \in Call /\ s.pc = "restored" /\ Moved(r, s)
    <3>1. "restored" \in Pc
      BY DEF Pc
    <3> QED BY <1>1, <3>1, Going
  <2> HIDE DEF s
  <2>3. Acts(p, s, bridge[p], work[p])
    <3>1. /\ failures' \in 0..MaxFailures /\ bridge[p] \in Bridge
          /\ work[p] \in {"none", "running", "done"} /\ bridge' = bridge /\ work' = work
      BY <1>1, <2>1, SameFailures, Here
    <3> QED BY <2>1, <2>2, <3>1, Replacing
  <2>4. call'[p] = s /\ \A q \in up : q # p => (Owner(q)' <=> Owner(q)) /\ call'[q] = call[q]
    BY <2>3, Others
  <2>5. /\ \A u : Restoring(s, u) <=> Restoring(r, u)
        /\ ~Loading(r) /\ ~Loading(s) /\ Handy(s) /\ s.use # "tidy"
        /\ \A d : ~Tidies(r, d) /\ (Slips(s, d) => Slips(r, d))
    BY <1>1, <2>2 DEF Restoring, Loading, Handy, Tidies, Slips, Scanning, Moved
  <2>6. canonical' # <<>> /\ canonical' \in Lease
    <3>1. w \in Lease /\ canonical \in Lease
      BY <1>1 DEF FeedInv, TypeOK
    <3> QED BY <1>3, <2>1, <3>1
  <2>7. FeedInv'
    <3>1. BridgeFits(bridge[p], s)
      BY <1>1, <2>2, <2>5, Here DEF BridgeFits, Publishing
    <3>2. CallFits(p, call[p])'
      BY <2>2, <2>4, <2>5 DEF CallFits
    <3>3. takeover' \in [Dir -> Lease] /\ takeover' = takeover
          /\ feed' \in [rev : Nat, cards : [Writer -> Status]]
      BY <1>1 DEF FeedInv, TypeOK
    <3> QED BY <1>1, <2>3, <2>5, <2>6, <3>1, <3>2, <3>3, SeenKeeps
  <2>8. ASSUME PairInv PROVE PairInv'
    <3>1. Owns(bridge[p], work[p], s) <=> Owner(p)
      BY <2>5 DEF Owns, Owner
    <3>2. OwnerFits(bridge[p], work[p], s) /\ (Owner(p) => ~Restoring(r, "aba"))
      BY <2>2, <2>5, <2>8, <3>1 DEF OwnerFits, PairInv, Owner
    <3>3. ASSUME NEW q \in up, Owner(q)' PROVE Held(q, call[q])'
      <4>1. Owner(q)
        BY <2>3, <2>4, <3>1, <3>3, Others DEF Owner
      <4>2. Held(q, call[q]) /\ Self(q) # <<>> /\ Self(q)[1] = q
        BY <2>8, <4>1, Here DEF PairInv
      <4>3. CASE canonical # <<>>
        BY <1>1, <2>1, <4>2, <4>3, PlacedHeld DEF Held
      <4>4. CASE canonical = <<>> /\ q # p
        <5>1. w = Self(q)
          BY <4>2, <4>4 DEF Held, Returning
        <5> QED BY <1>1, <2>1, <4>4, <5>1, PlacedHeld
      <4>5. CASE canonical = <<>> /\ q = p
        <5>1. ~Old(p, a)
          BY <1>1, <2>5, <4>2, <4>5 DEF Held
        <5>2. r.use \in {"scan", "publish"}
          BY <1>1, <3>2, <4>1, <4>5 DEF Restoring
        <5>3. w = Self(p) \/ w[1] = p
          BY <1>1, <1>3, <5>2, Here DEF CallFits
        <5>4. w = Self(p)
          BY <1>3, <5>1, <5>3 DEF Old
        <5> QED BY <1>1, <2>1, <4>5, <5>4, PlacedHeld
      <4> QED BY <4>3, <4>4, <4>5
    <3>4. ASSUME NEW d \in Dir, Known(bridge[p], work[p], r, d)
          PROVE  Known(bridge[p], work[p], call[p], d)'
      <4>1. ~Owner(p) /\ Meets(r, d)
        BY <2>5, <3>4 DEF Known, Owner
      <4>2. Meets(call[p], d)'
        BY <1>1, <2>2, <2>4, <2>5, <2>6, <4>1 DEF Meets, Scanning, Moved, Restoring
      <4>3. ~Owner(p)'
        BY <2>3, <3>1, <4>1, Others DEF Owner
      <4> QED BY <4>2, <4>3 DEF Known, Owner
    <3>5. \A d : Passes(bridge[p], work[p], s, d) => Passes(bridge[p], work[p], r, d)
      BY <2>5, <3>1 DEF Passes, Owner
    <3>6. takeover' = takeover
      BY <1>1
    <3> QED BY <1>1, <2>3, <2>6, <2>8, <3>2, <3>3, <3>4, <3>5, <3>6, SettlesPair
  <2> QED BY <2>7, <2>8 DEF Keeps
<1> QED BY <1>2, <1>3

LEMMA MoveStep ==
  ASSUME FeedInv, NEW p \in up, Move(p) PROVE Keeps
<1> DEFINE r == call[p]
           n == NewDir
           s == [r EXCEPT !.pc = "check", !.at = n]
<1>1. r.pc = "move" /\ r \in Call /\ UNCHANGED <<feed, bridge, up, gen, work, failures>>
  BY Here DEF Move, At, OnlyLease, Rest
<1>2. CASE canonical = <<>>
  <2>1. Again(p) /\ OnlyReads
    BY <1>1, <1>2 DEF Move, OnlyReads, Rest
  <2> QED BY <1>1, <2>1, BarredStep, GoesKeeps
<1>3. CASE canonical # <<>>
  <2>1. /\ Unused # {} /\ canonical' = <<>> /\ takeover' = [takeover EXCEPT ![n] = canonical]
        /\ Continue(p, s)
    BY <1>3 DEF Move
  <2>2. n \in Dir /\ takeover[n] = <<>> /\ \A q \in up : call[q].at # n
    <3>1. n \in Unused
      BY <2>1 DEF NewDir
    <3> QED BY <3>1 DEF Unused
  <2> HIDE DEF n
  <2>3. s \in Call /\ s.pc = "check" /\ s.at = n /\ s.seen = r.seen
    BY <1>1, <2>2 DEF Call, Pc
  <2> HIDE DEF s
  <2>4. Acts(p, s, bridge[p], work[p])
    <3>1. /\ failures' \in 0..MaxFailures /\ bridge[p] \in Bridge
          /\ work[p] \in {"none", "running", "done"} /\ bridge' = bridge /\ work' = work
      BY <1>1, SameFailures, Here
    <3> QED BY <2>1, <2>3, <3>1, Replacing
  <2>5. /\ call'[p] = s /\ bridge' = bridge /\ work' = work /\ gen' = gen /\ up' = up
        /\ \A q \in up : q # p => (Owner(q)' <=> Owner(q)) /\ call'[q] = call[q]
    BY <1>1, <2>4, Others
  <2>6. /\ ~Publishing(r) /\ ~Publishing(s) /\ ~Loading(s) /\ Handy(s)
        /\ \A d : /\ Slips(r, d) /\ ~Meets(r, d) /\ ~Tidies(r, d)
                  /\ ~Slips(s, d) /\ (d = n => Meets(s, d) /\ Returning(s, d))
    BY <1>1, <2>2, <2>3 DEF Publishing, Restoring, Loading, Handy, Slips, Meets, Scanning, Tidies,
       Returning
  <2>7. /\ takeover \in [Dir -> Lease] /\ takeover' \in [Dir -> Lease] /\ takeover'[n] = canonical
        /\ \A d \in Dir : d # n => takeover'[d] = takeover[d]
    <3>1. takeover \in [Dir -> Lease] /\ canonical \in Lease
      BY DEF FeedInv, TypeOK
    <3> QED BY <2>1, <2>2, <3>1
  <2>8. FeedInv'
    <3>1. BridgeFits(bridge[p], s)
      BY <1>1, <2>3, <2>6, Claiming, ClaimFits
    <3>2. CallFits(p, call[p])'
      <4>1. r.seen # <<>> /\ (r.seen[1] = p \/ r.seen[1] \notin up)
        BY <1>1, Here DEF CallFits
      <4> QED BY <2>3, <2>5, <4>1 DEF CallFits
    <3>3. canonical' \in Lease /\ feed' \in [rev : Nat, cards : [Writer -> Status]]
      BY <1>1, <2>1, Writers DEF FeedInv, TypeOK
    <3>4. \A q \in up : call[q].pc = "link" => takeover'[call[q].at] = takeover[call[q].at]
      BY <2>2, <2>7, Here DEF Handy
    <3> QED BY <1>1, <2>4, <2>6, <2>7, <3>1, <3>2, <3>3, <3>4, SeenKeeps
  <2>9. ASSUME Two, PairInv PROVE PairInv'
    <3>1. ~Owner(p) /\ ~Owns(bridge[p], work[p], s)
      BY <1>1, <2>6, <2>9 DEF PairInv, OwnerFits, Owner, Owns
    <3>2. ~Owner(p)'
      BY <2>5, <3>1 DEF Owner
    <3>3. \A q \in up, c \in up : q # p /\ c # q => c = p
      BY <2>9, Here DEF Two
    <3>4. ASSUME NEW q \in up, Owner(q)' PROVE Held(q, call[q])'
      <4>1. q # p /\ Owner(q) /\ call'[q] = call[q]
        BY <2>5, <3>2, <3>4
      <4>2. canonical = Self(q)
        BY <1>1, <2>9, <4>1, InPlace
      <4>3. ~InHand(call[q], n)
        BY <2>2 DEF InHand
      <4>4. \A c \in up \ {q} : Returning(call'[c], n)
        BY <2>5, <2>6, <3>3, <4>1
      <4>5. ASSUME NEW d \in Dir, Old(q, d)' PROVE Tidies(call[q], d)
        <5>1. d # n /\ Old(q, d)
          BY <2>5, <2>7, <4>2, <4>5 DEF Old, Self
        <5>2. Passes(bridge[p], work[p], r, d)
          BY <2>6, <3>1 DEF Passes, Owner
        <5>3. Known(bridge[q], work[q], call[q], d)
          BY <2>9, <4>1, <5>1, <5>2 DEF PairInv, Stray
        <5> QED BY <4>1, <5>3 DEF Known, Owner
      <4>6. takeover'[n] = Self(q)' /\ canonical' = <<>>
        BY <2>1, <2>5, <2>7, <4>2 DEF Self
      <4> QED BY <2>2, <2>5, <4>1, <4>3, <4>4, <4>5, <4>6 DEF Held
    <3>5. \A q \in up : OwnerFits(bridge'[q], work'[q], call'[q])
      BY <2>5, <2>9, <3>1 DEF PairInv, OwnerFits
    <3>6. ASSUME NEW q \in up, NEW d \in Dir PROVE Stray(q, d)'
      <4>1. CASE q # p
        <5>1. ~Passes(bridge[p], work[p], call[p], d)'
          BY <2>5, <2>6 DEF Passes, Slips, Scanning, Restoring
        <5> QED BY <2>5, <3>3, <4>1, <5>1 DEF Stray
      <4>2. CASE q = p /\ d = n
        <5>1. Meets(call[p], d)'
          BY <2>3, <2>5, <4>2 DEF Meets
        <5>2. Known(bridge[p], work[p], call[p], d)'
          BY <2>5, <3>1, <5>1 DEF Known
        <5> QED BY <4>2, <5>2 DEF Stray
      <4>3. CASE q = p /\ d # n
        <5> SUFFICES ASSUME Old(p, d)', NEW c \in up, c # p,
                            Passes(bridge[c], work[c], call[c], d)'
                     PROVE  FALSE
          BY <2>5, <4>3 DEF Stray
        <5>1. Old(p, d)
          BY <2>5, <2>7, <4>3 DEF Old, Self
        <5>2. Passes(bridge[c], work[c], call[c], d)
          BY <2>5 DEF Passes, Slips
        <5>3. ~Known(bridge[p], work[p], r, d)
          BY <2>6 DEF Known
        <5> QED BY <2>9, <5>1, <5>2, <5>3 DEF PairInv, Stray
      <4> QED BY <4>1, <4>2, <4>3
    <3>7. ASSUME NEW q \in up PROVE FeedRead(bridge[q])' /\ CardFits(q, bridge[q], work[q])'
      <4>1. FeedRead(bridge[q]) /\ CardFits(q, bridge[q], work[q])
        BY <2>9 DEF PairInv
      <4> QED BY <1>1, <4>1 DEF FeedRead, CardFits, Self
    <3> QED BY <2>5, <3>4, <3>5, <3>6, <3>7 DEF PairInv
  <2> QED BY <2>8, <2>9 DEF Keeps
<1> QED BY <1>2, <1>3

\* What a publication makes of a card.
LEMMA CardOf ==
  ASSUME FeedInv, NEW p \in up, NEW w \in Writer
  PROVE  LET old == bridge[p].cards[w]
             new == Card(p, w)
         IN /\ old \in Status /\ new \in Status
            /\ old \in Settled => new \in Settled
            /\ old = "none" /\ (w # Self(p) \/ work[p] = "none") => new = "none"
            /\ /\ w = Self(p) /\ work[p] = "running" /\ ~call[p].ending
               /\ old \in {"none", "running"}
               => new = "running"
<1> DEFINE old == bridge[p].cards[w]
           new == Card(p, w)
           listed == w = Self(p) /\ work[p] # "none"
           stops == call[p].ending /\ work[p] = "running"
           lost == ~listed /\ old = "running" /\ (w \in bridge[p].abandoned \/ call[p].ending)
<1>1. old \in Status /\ work[p] \in {"none", "running", "done"}
  BY Here, BridgeFields
<1>2. CASE listed
  <2> DEFINE k == IF stops THEN "lost" ELSE work[p]
  <2>1. new = Merge(old, k)
    BY <1>2 DEF Card
  <2>2. k \in Status /\ (~call[p].ending => k = work[p])
    BY <1>1 DEF Status
  <2> HIDE DEF k
  <2>3. new \in {old, k} /\ (old \in Settled => new \in Settled)
        /\ (old \notin Settled => new = k)
    BY <2>1 DEF Merge
  <2> QED BY <1>1, <1>2, <2>2, <2>3 DEF Settled
<1>3. CASE lost
  <2>1. new = "lost"
    BY <1>3 DEF Card
  <2> QED BY <1>1, <1>3, <2>1 DEF Status, Settled
<1>4. CASE ~listed /\ ~lost
  <2>1. new = old
    BY <1>4 DEF Card
  <2> QED BY <1>1, <1>4, <2>1
<1> QED BY <1>2, <1>3, <1>4

\* Where store leaves the bridge.
LEMMA Stores ==
  ASSUME FeedInv, NEW p \in up, Store(p)
  PROVE  \E b \in Bridge :
           /\ Acts(p, Quiet, b, work[p])
           /\ feed'.rev = bridge[p].rev + 1 /\ feed'.cards \in [Writer -> Status]
           /\ \A w \in Writer : feed'.cards[w] = Card(p, w)
           /\ feed' \in [rev : Nat, cards : [Writer -> Status]]
           /\ UNCHANGED <<canonical, takeover, up, gen, work>>
           /\ b.claimed => b.publisher
           /\ b.publisher => b.bound
           /\ b.bound => ~call[p].ending /\ b.rev = feed'.rev /\ b.cards = feed'.cards
<1> DEFINE c == [bridge[p] EXCEPT !.rev = @ + 1, !.cards = Cards(p)]
<1>1. /\ bridge[p] \in Bridge /\ bridge[p].rev \in Nat /\ bridge[p].claimed
      /\ bridge[p].publisher /\ bridge[p].bound
  BY Here, BridgeFields DEF Store, At, BridgeFits, Publishing
<1>2. Cards(p) \in [Writer -> Status] /\ \A w \in Writer : Cards(p)[w] = Card(p, w)
  BY CardOf DEF Cards
<1>3. /\ feed' = [rev |-> bridge[p].rev + 1, cards |-> Cards(p)]
      /\ UNCHANGED <<canonical, takeover, up, gen, work, failures>>
      /\ Published(p, Reconciled(c))
  BY DEF Store, Rest
<1>4. /\ c \in Bridge /\ c.rev = bridge[p].rev + 1 /\ c.cards = Cards(p) /\ c.claimed
      /\ c.publisher /\ c.bound
  <2>1. bridge[p].rev + 1 \in Nat
    BY <1>1
  <2>2. /\ c \in Bridge /\ c.rev = bridge[p].rev + 1 /\ c.cards = Cards(p)
        /\ c.claimed = bridge[p].claimed /\ c.publisher = bridge[p].publisher
        /\ c.bound = bridge[p].bound
    BY <1>1, <1>2, <2>1 DEF Bridge
  <2> QED BY <1>1, <2>2
<1> HIDE DEF c
<1>5. PICK b \in {Disposed, Reconciled(c)} :
        SetBridge(p, b) /\ Continue(p, Quiet) /\ (call[p].ending => b = Disposed)
  BY <1>3 DEF Published, Returns
<1>6. /\ b \in Bridge /\ (b.claimed => b.publisher) /\ (b.publisher => b.bound)
      /\ b.bound => ~call[p].ending /\ b.rev = bridge[p].rev + 1 /\ b.cards = Cards(p)
  BY <1>4, <1>5, FreshBridge, ReconciledKeeps
<1>7. Acts(p, Quiet, b, work[p])
  <2>1. failures' \in 0..MaxFailures /\ work[p] \in {"none", "running", "done"} /\ work' = work
    BY <1>3, SameFailures, Here
  <2> QED BY <1>5, <1>6, <2>1, QuietCall, Replacing
<1>8. feed' \in [rev : Nat, cards : [Writer -> Status]] /\ feed'.rev = bridge[p].rev + 1
      /\ feed'.cards = Cards(p)
  BY <1>1, <1>2, <1>3
<1> QED BY <1>2, <1>3, <1>6, <1>7, <1>8

LEMMA StoreStep ==
  ASSUME FeedInv, NEW p \in up, Store(p) PROVE Keeps
<1> DEFINE r == call[p]
<1>1. PICK b \in Bridge :
        /\ Acts(p, Quiet, b, work[p])
        /\ \A w \in Writer : feed'.cards[w] = Card(p, w)
        /\ feed' \in [rev : Nat, cards : [Writer -> Status]]
        /\ UNCHANGED <<canonical, takeover, up, gen, work>>
        /\ b.claimed => b.publisher
        /\ b.publisher => b.bound
        /\ b.bound => ~r.ending /\ b.rev = feed'.rev /\ b.cards = feed'.cards
  BY Stores
<1>2. r.pc = "store" /\ bridge[p].claimed /\ bridge[p].publisher /\ bridge[p].bound
  BY Here DEF Store, At, BridgeFits, Publishing
<1>3. /\ ~Publishing(Quiet) /\ Plain(Quiet) /\ ~Restoring(Quiet, "aba") /\ ~Loading(Quiet)
      /\ \A d : ~Slips(Quiet, d) /\ ~Meets(r, d) /\ ~Tidies(r, d)
  BY <1>2, QuietCall DEF Publishing, Plain, Restoring, Loading, Slips, Meets, Scanning, Tidies
<1>4. /\ call'[p] = Quiet /\ bridge'[p] = b /\ work' = work /\ up' = up /\ gen' = gen
      /\ canonical' = canonical /\ takeover' = takeover
      /\ \A q \in up : q # p =>
           call'[q] = call[q] /\ bridge'[q] = bridge[q] /\ (Owner(q)' <=> Owner(q))
  BY <1>1, Others
<1>5. FeedInv'
  <2>1. BridgeFits(b, Quiet)
    BY <1>1, <1>3, QuietCall DEF BridgeFits
  <2>2. Handy(Quiet) /\ CallFits(p, call[p])'
    <3>1. CallFits(p, call[p])'
      BY <1>3, <1>4 DEF Plain, CallFits
    <3> QED BY <1>3, <3>1, PlainFits
  <2>3. canonical' \in Lease /\ takeover' \in [Dir -> Lease]
    BY <1>4 DEF FeedInv, TypeOK
  <2> QED BY <1>1, <1>4, <2>1, <2>2, <2>3, SeenKeeps
<1>6. ASSUME PairInv PROVE PairInv'
  <2>1. Owner(p) /\ \A q \in up : q # p => ~Owner(q)
    BY <1>2, <1>6, Alone DEF Owner, Owns
  <2>2. \A q : \A d \in Dir : Old(q, d)' <=> Old(q, d)
    BY <1>4 DEF Old, Self
  <2>3. \A q \in up : OwnerFits(bridge'[q], work'[q], call'[q])
    BY <1>3, <1>4, <1>6 DEF PairInv, OwnerFits, Plain
  <2>4. \A q \in up : Owner(q)' => Held(q, call[q])'
    <3>1. Held(p, r)
      BY <1>6, <2>1 DEF PairInv
    <3>2. \A d : (\A c \in up \ {p} : Returning(call[c], d)) =>
                 (\A c \in up \ {p} : Returning(call'[c], d))
      BY <1>4
    <3>3. Held(p, call[p])'
      BY <1>3, <1>4, <2>2, <3>1, <3>2, PlainFits DEF Held, Self
    <3> QED BY <1>4, <2>1, <3>3
  <2>5. ASSUME NEW q \in up, NEW d \in Dir PROVE Stray(q, d)'
    <3> SUFFICES ASSUME Old(q, d), NEW c \in up, c # q,
                        Passes(bridge[c], work[c], call[c], d)'
                 PROVE  Known(bridge[q], work[q], call[q], d)'
      BY <1>4, <2>2 DEF Stray
    <3>1. c # p
      BY <1>3, <1>4 DEF Passes, Slips, Scanning, Restoring
    <3>2. Passes(bridge[c], work[c], call[c], d)
      BY <1>4, <3>1 DEF Passes, Slips
    <3>3. Known(bridge[q], work[q], call[q], d)
      BY <1>6, <3>2 DEF PairInv, Stray
    <3>4. q # p
      BY <1>3, <3>3 DEF Known
    <3> QED BY <1>4, <3>3, <3>4 DEF Known, Meets
  <2>6. FeedRead(bridge[p]) /\ CardFits(p, bridge[p], work[p])
    BY <1>6 DEF PairInv
  <2>7. ASSUME NEW q \in up PROVE FeedRead(bridge[q])'
    BY <1>1, <1>4, <2>1 DEF FeedRead, Owner, Owns
  <2>8. \A w \in Writer : feed.cards[w] = bridge[p].cards[w]
    BY <1>2, <2>6 DEF FeedRead
  <2>9. \A w \in Writer : feed.cards[w] = "none" /\ w # Self(p) => feed'.cards[w] = "none"
    BY <1>1, <2>8, CardOf
  <2>10. \A q \in up, n \in Bridges :
           <<q, n>> \in Writer /\ (q # p \/ n # gen[p] => <<q, n>> # Self(p))
    BY Here, Tokens, Writers DEF Self
  <2>11. gen \in [Process -> Bridges] /\ Bridges \subseteq Nat
    BY Here, Typed DEF Bridges
  <2>12. ASSUME NEW q \in up, NEW n \in Bridges, n > gen[q] PROVE feed'.cards[<<q, n>>] = "none"
    <3>1. feed.cards[<<q, n>>] = "none"
      BY <1>6, <2>12 DEF PairInv, CardFits
    <3>2. n # gen[q]
      BY <2>11, <2>12, Here
    <3> QED BY <2>9, <2>10, <3>1, <3>2
  <2>13. ASSUME NEW q \in up PROVE CardFits(q, bridge[q], work[q])'
    <3>1. CASE q # p
      <4>1. bridge[q].bound => work[q] # "running"
        BY <2>1, <3>1 DEF Owner, Owns
      <4>2. bridge[q].bound /\ work[q] = "none" => feed'.cards[Self(q)] = "none"
        <5>1. CardFits(q, bridge[q], work[q])
          BY <1>6 DEF PairInv
        <5>2. Self(q) # Self(p) /\ Self(q) \in Writer
          BY <3>1, Here, Selves DEF FeedInv
        <5> QED BY <2>9, <5>1, <5>2 DEF CardFits
      <4> QED BY <1>4, <2>12, <3>1, <4>1, <4>2 DEF CardFits, Self
    <3>2. CASE q = p
      <4>1. Self(p) \in Writer
        BY Here, Selves DEF FeedInv
      <4>2. work[p] = "none" => feed'.cards[Self(p)] = "none"
        BY <1>1, <1>2, <2>6, <2>8, <4>1, CardOf DEF CardFits
      <4>3. work[p] = "running" /\ ~r.ending => feed'.cards[Self(p)] = "running"
        BY <1>1, <1>2, <2>6, <2>8, <4>1, CardOf DEF CardFits
      <4> QED BY <1>1, <1>4, <2>12, <3>2, <4>2, <4>3 DEF CardFits, Self
    <3> QED BY <3>1, <3>2
  <2> QED BY <1>4, <2>3, <2>4, <2>5, <2>7, <2>13 DEF PairInv
<1> QED BY <1>5, <1>6 DEF Keeps

-----------------------------------------------------------------------------
(***************************************************************************)
(* The life of a process.                                                  *)
(***************************************************************************)
\* Where a bridge may still be replaced, its successor has a token.
LEMMA Successor ==
  ASSUME TypeOK, NEW p \in Process, Cardinality(Replaced) < MaxRebinds
  PROVE  gen[p] + 1 \in Bridges
<1>1. gen[p] \in 1..(MaxRebinds + 1) /\ MaxRebinds \in Nat
  BY Numbers DEF TypeOK, Bridges
<1> SUFFICES ASSUME gen[p] = MaxRebinds + 1 PROVE FALSE
  BY <1>1 DEF Bridges
<1> DEFINE S == {p} \X (1..MaxRebinds)
<1>2. IsFiniteSet(S) /\ Cardinality(S) = MaxRebinds
  <2>1. IsFiniteSet({p}) /\ Cardinality({p}) = 1
    BY FS_Singleton
  <2>2. IsFiniteSet(1..MaxRebinds) /\ Cardinality(1..MaxRebinds) = MaxRebinds
    BY <1>1, FS_Interval
  <2>3. IsFiniteSet(S) /\ Cardinality(S) = Cardinality({p}) * Cardinality(1..MaxRebinds)
    BY <2>1, <2>2, FS_Product
  <2> QED BY <1>1, <2>1, <2>2, <2>3
<1>3. IsFiniteSet(Replaced)
  <2>1. IsFiniteSet(Bridges)
    BY <1>1, FS_Interval DEF Bridges
  <2>2. IsFiniteSet(Token)
    BY <2>1, Numbers, FS_Product DEF Token
  <2>3. Replaced \in SUBSET Token
    BY DEF Replaced
  <2> QED BY <2>2, <2>3, FS_Subset
<1>4. S \in SUBSET Replaced
  <2> SUFFICES ASSUME NEW n \in 1..MaxRebinds PROVE <<p, n>> \in Replaced
    OBVIOUS
  <2>1. n \in Bridges /\ n < gen[p]
    BY <1>1 DEF Bridges
  <2> QED BY <2>1, Tokens DEF Replaced
<1>5. Cardinality(S) <= Cardinality(Replaced) /\ Cardinality(Replaced) \in Nat
  BY <1>3, <1>4, FS_Subset, FS_CardinalityType
<1> HIDE DEF S
<1> QED BY <1>1, <1>2, <1>5

LEMMA RebindStep ==
  ASSUME FeedInv, NEW p \in up, Rebind(p) PROVE Keeps
<1> DEFINE r == call[p]
<1>1. /\ r.pc = "idle" /\ r \in Call /\ ~bridge[p].bound /\ ~bridge[p].publisher /\ p \in Process
      /\ UNCHANGED <<canonical, takeover, feed, up, call, failures>>
      /\ gen' = [gen EXCEPT ![p] = @ + 1] /\ SetBridge(p, Fresh)
      /\ work' = [work EXCEPT ![p] = "none"] /\ Cardinality(Replaced) < MaxRebinds
  BY Here DEF Rebind, At, BridgeFits
<1>2. Acts(p, r, Fresh, "none")
  <2>1. failures' \in 0..MaxFailures /\ call' = call
    BY <1>1, SameFailures
  <2> QED BY <1>1, <2>1, FreshBridge, Replacing
<1>3. /\ bridge'[p] = Fresh /\ work'[p] = "none" /\ call' = call
      /\ \A q \in up : q # p =>
           bridge'[q] = bridge[q] /\ work'[q] = work[q] /\ (Owner(q)' <=> Owner(q))
  BY <1>1, <1>2, Others
<1>4. gen \in [Process -> Bridges] /\ gen[p] + 1 \in Bridges
  BY <1>1, Successor, Typed DEF FeedInv
<1>5. /\ gen' \in [Process -> Bridges] /\ gen'[p] = gen[p] + 1
      /\ \A q \in Process : q # p => gen'[q] = gen[q]
  BY <1>1, <1>4
<1>6. \A q \in up : q \in Process /\ (q # p => Self(q)' = Self(q))
  BY <1>5, Here DEF Self
<1>7. /\ ~Publishing(r) /\ Plain(r) /\ ~Loading(r) /\ ~Restoring(r, "aba")
      /\ \A d : ~Slips(r, d) /\ Meets(r, d) /\ ~Tidies(r, d)
  BY <1>1 DEF Publishing, Restoring, Plain, Loading, Slips, Scanning, Meets, Tidies
<1>8. FeedInv'
  <2>1. TypeOK'
    BY <1>1, <1>2, <1>5 DEF FeedInv, TypeOK, Acts
  <2>2. \A q \in Process : Handy(call'[q])
    BY <1>3 DEF FeedInv
  <2>3. ASSUME NEW q \in up PROVE BridgeFits(bridge'[q], call'[q]) /\ CallFits(q, call[q])'
    <3>1. CASE q = p
      <4>1. BridgeFits(Fresh, r)
        BY <1>1, <1>7, FreshBridge DEF BridgeFits
      <4>2. CallFits(p, call[p])'
        BY <1>1, <1>7 DEF Plain, CallFits
      <4> QED BY <1>3, <3>1, <4>1, <4>2
    <3>2. CASE q # p
      <4>1. BridgeFits(bridge[q], call[q]) /\ CallFits(q, call[q])
        BY Here
      <4> QED BY <1>1, <1>3, <1>6, <3>2, <4>1 DEF CallFits
    <3> QED BY <3>1, <3>2
  <2> QED BY <1>1, <2>1, <2>2, <2>3 DEF FeedInv
<1>9. ASSUME PairInv PROVE PairInv'
  <2>1. ~Owner(p) /\ ~Owner(p)'
    BY <1>1, <1>3, <1>7, FreshBridge DEF Owner, Owns
  <2>2. ASSUME NEW q \in up, Owner(q)' PROVE Held(q, call[q])'
    <3>1. q # p /\ Owner(q)
      BY <1>3, <2>1, <2>2
    <3>2. canonical = Self(q)
      BY <1>1, <1>9, <3>1, InPlace
    <3>3. canonical' = Self(q)'
      BY <1>1, <1>6, <3>1, <3>2
    <3> QED BY <3>3 DEF Held
  <2>3. \A q \in up : OwnerFits(bridge'[q], work'[q], call'[q])
    BY <1>3, <1>7, <1>9 DEF PairInv, OwnerFits, Plain
  <2>4. ASSUME NEW q \in up, NEW d \in Dir PROVE Stray(q, d)'
    <3>1. CASE q = p
      <4>1. Known(bridge[p], work[p], call[p], d)'
        BY <1>1, <1>3, <2>1 DEF Known, Meets, Owner
      <4> QED BY <3>1, <4>1 DEF Stray
    <3>2. CASE q # p
      <4> SUFFICES ASSUME Old(q, d)', NEW c \in up, c # q,
                          Passes(bridge[c], work[c], call[c], d)'
                   PROVE  Known(bridge[q], work[q], call[q], d)'
        BY <1>1 DEF Stray
      <4>1. Old(q, d)
        BY <1>1, <1>6, <3>2 DEF Old
      <4>2. c # p
        BY <1>3, <1>7 DEF Passes, Slips, Scanning, Restoring
      <4>3. Passes(bridge[c], work[c], call[c], d)
        BY <1>3, <4>2 DEF Passes, Slips, Scanning, Restoring
      <4>4. Known(bridge[q], work[q], call[q], d)
        BY <1>9, <4>1, <4>3 DEF PairInv, Stray
      <4> QED BY <1>1, <1>3, <3>2, <4>4 DEF Known, Meets
    <3> QED BY <3>1, <3>2
  <2>5. ASSUME NEW q \in up PROVE FeedRead(bridge[q])'
    BY <1>1, <1>3, <1>9, FreshBridge DEF PairInv, FeedRead
  <2>6. \A n \in Bridges : n > gen[p] => feed.cards[<<p, n>>] = "none"
    BY <1>9 DEF PairInv, CardFits
  <2>7. Bridges \subseteq Nat /\ gen[p] \in Nat
    BY <1>1, <1>4 DEF Bridges
  <2>8. feed.cards[<<p, gen[p] + 1>>] = "none"
    BY <1>4, <2>6, <2>7
  <2>9. \A n \in Bridges : n > gen[p] + 1 => feed.cards[<<p, n>>] = "none"
    BY <2>6, <2>7
  <2>10. ASSUME NEW q \in up PROVE CardFits(q, bridge[q], work[q])'
    <3>1. CASE q = p
      BY <1>1, <1>3, <1>5, <2>8, <2>9, <3>1 DEF CardFits, Self
    <3>2. CASE q # p
      <4>1. CardFits(q, bridge[q], work[q])
        BY <1>9 DEF PairInv
      <4> QED BY <1>1, <1>3, <1>5, <1>6, <3>2, <4>1 DEF CardFits
    <3> QED BY <3>1, <3>2
  <2> QED BY <1>1, <2>2, <2>3, <2>4, <2>5, <2>10 DEF PairInv
<1> QED BY <1>8, <1>9 DEF Keeps

LEMMA CrashStep ==
  ASSUME FeedInv, NEW p \in up, Crash(p) PROVE Keeps
<1>1. /\ up' = up \ {p} /\ SetBridge(p, Disposed) /\ Continue(p, Quiet)
      /\ work' = [work EXCEPT ![p] = "none"]
      /\ canonical' = canonical /\ takeover' = takeover /\ feed' = feed /\ gen' = gen
      /\ failures' = failures
  BY DEF Crash, Continue
<1>2. Acts(p, Quiet, Disposed, "none")
  <2>1. failures' \in 0..MaxFailures
    BY <1>1, SameFailures
  <2> QED BY <1>1, <2>1, QuietCall, FreshBridge, Replacing
<1>3. /\ up' \subseteq up
      /\ \A q \in up' : /\ call'[q] = call[q] /\ bridge'[q] = bridge[q] /\ work'[q] = work[q]
                        /\ Owner(q)' <=> Owner(q)
                        /\ Self(q)' = Self(q)
  BY <1>1, <1>2, Others DEF Self
<1>4. FeedInv'
  <2>1. TypeOK'
    BY <1>1, <1>2 DEF FeedInv, TypeOK, Acts
  <2>2. \A q \in Process : Handy(call'[q])
    BY <1>2, QuietCall DEF FeedInv, Acts, Handy
  <2>3. ASSUME NEW q \in up' PROVE BridgeFits(bridge'[q], call'[q]) /\ CallFits(q, call[q])'
    <3>1. BridgeFits(bridge[q], call[q]) /\ CallFits(q, call[q])
      BY <1>3, Here
    <3> QED BY <1>1, <1>3, <3>1 DEF CallFits
  <2> QED BY <2>1, <2>2, <2>3 DEF FeedInv
<1>5. ASSUME PairInv PROVE PairInv'
  <2>1. ASSUME NEW q \in up'
        PROVE  OwnerFits(bridge'[q], work'[q], call'[q]) /\ (Owner(q)' => Held(q, call[q])')
    <3>1. OwnerFits(bridge[q], work[q], call[q]) /\ (Owner(q) => Held(q, call[q]))
      BY <1>3, <1>5 DEF PairInv
    <3>2. \A d : Old(q, d)' <=> Old(q, d)
      BY <1>1, <1>3 DEF Old
    <3>3. \A d : (\A c \in up \ {q} : Returning(call[c], d)) =>
                 (\A c \in up' \ {q} : Returning(call'[c], d))
      BY <1>3
    <3>4. Held(q, call[q]) => Held(q, call[q])'
      BY <1>1, <1>3, <3>2, <3>3 DEF Held
    <3> QED BY <1>3, <3>1, <3>4
  <2>2. ASSUME NEW q \in up', NEW d \in Dir PROVE Stray(q, d)'
    <3>1. Stray(q, d)
      BY <1>3, <1>5 DEF PairInv
    <3>2. Old(q, d)' <=> Old(q, d)
      BY <1>1, <1>3 DEF Old
    <3>3. Known(bridge[q], work[q], call[q], d)' <=> Known(bridge[q], work[q], call[q], d)
      BY <1>1, <1>3 DEF Known, Meets
    <3>4. \A c \in up' : Passes(bridge[c], work[c], call[c], d)' <=>
                         Passes(bridge[c], work[c], call[c], d)
      BY <1>3 DEF Passes, Slips
    <3> QED BY <1>3, <3>1, <3>2, <3>3, <3>4 DEF Stray
  <2>3. ASSUME NEW q \in up' PROVE FeedRead(bridge[q])' /\ CardFits(q, bridge[q], work[q])'
    <3>1. FeedRead(bridge[q]) /\ CardFits(q, bridge[q], work[q])
      BY <1>3, <1>5 DEF PairInv
    <3> QED BY <1>1, <1>3, <3>1 DEF FeedRead, CardFits
  <2> QED BY <2>1, <2>2, <2>3 DEF PairInv
<1> QED BY <1>4, <1>5 DEF Keeps

-----------------------------------------------------------------------------
(***************************************************************************)
(* The invariants hold.                                                    *)
(***************************************************************************)
LEMMA InitFeed == Init => FeedInv /\ PairInv
<1> SUFFICES ASSUME Init PROVE FeedInv /\ PairInv
  OBVIOUS
<1>1. /\ up = Process /\ gen = [p \in Process |-> 1] /\ bridge = [p \in Process |-> Fresh]
      /\ work = [p \in Process |-> "none"] /\ call = [p \in Process |-> Quiet]
      /\ takeover = [d \in Dir |-> <<>>] /\ failures = 0
  BY DEF Init
<1>2. /\ NoCards \in [Writer -> Status] /\ <<Ghost, 1>> \in Writer
      /\ \A w \in Writer : NoCards[w] = "none"
  BY DEF NoCards, Status, Writer
<1>3. /\ canonical \in Lease /\ feed \in [rev : Nat, cards : [Writer -> Status]]
      /\ \A w \in Token : feed.cards[w] = "none"
  <2> DEFINE C == [NoCards EXCEPT ![<<Ghost, 1>>] = "running"]
  <2>1. \A w \in Token : w \in Writer /\ w # <<Ghost, 1>>
    BY Tokens, Writers, Numbers
  <2>2. C \in [Writer -> Status]
    BY <1>2 DEF Status
  <2>3. \A w \in Token : C[w] = "none"
    BY <1>2, <2>1
  <2> HIDE DEF C
  <2>4. CASE canonical = <<>> /\ feed = [rev |-> 0, cards |-> NoCards]
    BY <1>2, <2>1, <2>4, Writers
  <2>5. CASE canonical = <<Ghost, 1>> /\ feed = [rev |-> 1, cards |-> C]
    BY <1>2, <2>2, <2>3, <2>5, Writers
  <2> QED BY <2>4, <2>5 DEF Init, C
<1>4. 1 \in Bridges /\ 0 \in 0..MaxFailures
  BY Numbers DEF Bridges
<1>5. TypeOK
  BY <1>1, <1>3, <1>4, QuietCall, FreshBridge, Writers DEF TypeOK
<1>6. /\ Plain(Quiet) /\ ~Publishing(Quiet) /\ ~Loading(Quiet) /\ \A d : ~Slips(Quiet, d)
      /\ ~Restoring(Quiet, "aba")
  BY QuietCall DEF Plain, Publishing, Restoring, Loading, Slips, Scanning
<1>7. FeedInv
  <2>1. ASSUME NEW p \in Process
        PROVE  Handy(call[p]) /\ BridgeFits(bridge[p], call[p]) /\ CallFits(p, call[p])
    BY <1>1, <1>6, QuietCall, FreshBridge, PlainFits DEF BridgeFits
  <2> QED BY <1>1, <1>5, <2>1 DEF FeedInv
<1>8. PairInv
  <2>1. \A p \in up : ~Owner(p) /\ OwnerFits(bridge[p], work[p], call[p])
    BY <1>1, <1>6, FreshBridge DEF Owner, Owns, OwnerFits
  <2>2. \A p \in up, d \in Dir : Stray(p, d)
    BY <1>1 DEF Stray, Old
  <2>3. \A p \in up : FeedRead(bridge[p])
    BY <1>1, FreshBridge DEF FeedRead
  <2>4. \A p \in up : CardFits(p, bridge[p], work[p])
    <3>1. \A p \in up, n \in Bridges : feed.cards[<<p, n>>] = "none"
      BY <1>1, <1>3, Tokens
    <3> QED BY <1>1, <1>4, <3>1 DEF CardFits, Self
  <2> QED BY <2>1, <2>2, <2>3, <2>4 DEF PairInv
<1> QED BY <1>7, <1>8

LEMMA StepKeeps ==
  ASSUME FeedInv, NEW p \in Process, Step(p) PROVE Keeps
<1>1. p \in up
  BY DEF Step, At, List, Scan, Look, Create, Move, Check, Replace, Link, Restored, Drop, Load,
     Exists, Find, FindRead, Verify, Store
<1>2. CASE List(p) \/ Scan(p) \/ Look(p) \/ Check(p) \/ Restored(p) \/ Load(p)
  BY <1>1, <1>2, ListStep, ScanPathStep, LookStep, CheckStep, RestoredStep, LoadStep, GoesKeeps
<1>3. CASE Exists(p) \/ Find(p) \/ FindRead(p) \/ Verify(p)
  BY <1>1, <1>3, ExistsStep, FindStep, FindReadStep, VerifyStep, GoesKeeps
<1>4. CASE Create(p) \/ Move(p) \/ Replace(p) \/ Link(p) \/ Drop(p) \/ Store(p)
  BY <1>1, <1>4, CreateStep, MoveStep, ReplaceStep, LinkStep, DropStep, StoreStep
<1> QED BY <1>2, <1>3, <1>4 DEF Step

LEMMA Inductive ==
  ASSUME FeedInv, [Next]_vars PROVE Keeps
<1>1. CASE UNCHANGED vars
  <2>1. FeedInv'
    BY <1>1 DEF vars, FeedInv, TypeOK, CallFits, Self
  <2>2. ASSUME PairInv PROVE PairInv'
    BY <1>1, <2>2 DEF vars, PairInv, Owner, Held, Stray, Old, Known, Meets, FeedRead, CardFits, Self
  <2> QED BY <2>1, <2>2 DEF Keeps
<1>2. CASE Next
  <2>1. PICK p \in Process :
          \/ Step(p) \/ Claim(p) \/ Refresh(p) \/ Publish(p)
          \/ Spawn(p) \/ Finish(p) \/ Shutdown(p) \/ Rebind(p) \/ Crash(p)
    BY <1>2 DEF Next
  <2>2. CASE Step(p)
    BY <2>2, StepKeeps
  <2>3. CASE Claim(p) \/ Refresh(p) \/ Publish(p) \/ Spawn(p) \/ Finish(p) \/ Shutdown(p)
    <3>1. p \in up
      BY <2>3 DEF At, Claim, Refresh, Publish, Spawn, Finish, Shutdown
    <3> QED BY <2>3, <3>1, ClaimStep, RefreshStep, PublishStep, WorkStep, ShutdownStep, GoesKeeps
  <2>4. CASE Rebind(p) \/ Crash(p)
    <3>1. p \in up
      BY <2>4 DEF At, Rebind, Crash
    <3> QED BY <2>4, <3>1, RebindStep, CrashStep
  <2> QED BY <2>1, <2>2, <2>3, <2>4
<1> QED BY <1>1, <1>2

LEMMA FeedAlways == Spec => []FeedInv
<1>1. FeedInv /\ [Next]_vars => FeedInv'
  BY Inductive DEF Keeps
<1> QED BY <1>1, InitFeed, PTL DEF Spec

LEMMA PairAlways == ASSUME Two PROVE Spec => [](FeedInv /\ PairInv)
<1>1. FeedInv /\ PairInv /\ [Next]_vars => (FeedInv /\ PairInv)'
  BY Inductive DEF Keeps
<1> QED BY <1>1, InitFeed, PTL DEF Spec

-----------------------------------------------------------------------------
(***************************************************************************)
(* What follows.                                                           *)
(***************************************************************************)
\* The lease, the feed, the bridges and their calls have their types, for any
\* processes, attempts and bridges.
THEOREM FeedTypes == Spec => []TypeOK
<1>1. FeedInv => TypeOK
  BY DEF FeedInv
<1> QED BY <1>1, FeedAlways, PTL

\* Two is what a bound on the number of processes says.
LEMMA AtMostTwo ==
  ASSUME Cardinality(Process) <= 2
  PROVE  Two
<1> SUFFICES ASSUME NEW a \in Process, NEW b \in Process, NEW c \in Process,
                    a # b, a # c, b # c
             PROVE  FALSE
  BY DEF Two
<1>1. IsFiniteSet({a}) /\ Cardinality({a}) = 1
  BY FS_Singleton
<1>2. IsFiniteSet({a} \cup {b}) /\ Cardinality({a} \cup {b}) = 2
  BY <1>1, FS_AddElement
<1> DEFINE T == ({a} \cup {b}) \cup {c}
<1>3. IsFiniteSet(T) /\ Cardinality(T) = 3
  BY <1>2, FS_AddElement
<1>4. T \in SUBSET Process
  OBVIOUS
<1> HIDE DEF T
<1>5. Cardinality(T) <= Cardinality(Process) /\ Cardinality(Process) \in Nat
  BY <1>4, Numbers, FS_Subset, FS_CardinalityType
<1> QED BY <1>3, <1>5

\* Of two processes that open a session, with any number of bridges each, never two
\* believe to be its writer (claimedOwners of manager-bridge.ts): whatever either
\* displaces by mistake, restores or dies in, claimWriter of feed-publisher.ts lets
\* no other in.
THEOREM TwoProduceOnce ==
  ASSUME Cardinality(Process) <= 2
  PROVE  Spec => []OneProducer
<1>1. Two
  BY AtMostTwo
<1>2. FeedInv /\ PairInv => OneProducer
  <2> SUFFICES ASSUME FeedInv, PairInv, NEW p \in up, NEW q \in up,
                      bridge[p].claimed, bridge[q].claimed
               PROVE  p = q
    BY DEF OneProducer
  <2>1. Owner(p) /\ Owner(q)
    BY Here DEF BridgeFits, Owner, Owns
  <2> QED BY <2>1, Alone
<1> QED BY <1>1, <1>2, PairAlways, PTL

\* A publication is the only step that writes the feed.
LEMMA OnlyStore ==
  ASSUME FeedInv, NEW p \in Process,
         \/ Step(p) \/ Claim(p) \/ Refresh(p) \/ Publish(p)
         \/ Spawn(p) \/ Finish(p) \/ Shutdown(p) \/ Rebind(p) \/ Crash(p)
  PROVE  feed' = feed \/ (p \in up /\ Store(p))
<1>1. CASE Step(p)
  BY <1>1 DEF Step, OnlyReads, OnlyLease, At, List, Scan, Look, Create, Move, Check, Replace, Link,
     Restored, Drop, Load, Exists, Find, FindRead, Verify, Store
<1>2. CASE Claim(p) \/ Refresh(p) \/ Publish(p) \/ Spawn(p) \/ Finish(p) \/ Shutdown(p)
  BY <1>2 DEF OnlyReads, Claim, Refresh, Publish, Spawn, Finish, Shutdown
<1>3. CASE Rebind(p) \/ Crash(p)
  BY <1>3 DEF Rebind, Crash
<1> QED BY <1>1, <1>2, <1>3

\* Store builds on the feed as it is, and reports no subagent lost that runs.
LEMMA StoreAdvances ==
  ASSUME FeedInv, PairInv, NEW p \in up, Store(p)
  PROVE  /\ feed'.rev = feed.rev + 1
         /\ \A w \in Writer : feed.cards[w] \in Settled => feed'.cards[w] \in Settled
         /\ \A w \in Writer : feed'.cards[w] = "lost" => ~Runs(w)'
<1>1. PICK b \in Bridge :
        /\ Acts(p, Quiet, b, work[p])
        /\ feed'.rev = bridge[p].rev + 1
        /\ \A w \in Writer : feed'.cards[w] = Card(p, w)
        /\ UNCHANGED <<canonical, takeover, up, gen, work>>
        /\ b.bound => ~call[p].ending
  BY Stores
<1>2. bridge[p].publisher /\ bridge[p].bound
  BY Here DEF Store, At, BridgeFits, Publishing
<1>3. FeedRead(bridge[p]) /\ CardFits(p, bridge[p], work[p])
  BY DEF PairInv
<1>4. feed'.rev = feed.rev + 1
  BY <1>1, <1>2, <1>3 DEF FeedRead
<1>5. \A w \in Writer : feed.cards[w] \in Settled => feed'.cards[w] \in Settled
  BY <1>1, <1>2, <1>3, CardOf DEF FeedRead
<1>6. ASSUME NEW w \in Writer, feed'.cards[w] = "lost", Runs(w)' PROVE FALSE
  <2>1. w[1] \in up /\ gen[w[1]] = w[2] /\ work[w[1]] = "running" /\ bridge'[w[1]].bound
    BY <1>1, <1>6 DEF Runs
  <2>2. w = Self(w[1])
    <3>1. w[1] \in Process
      BY <2>1, Here
    <3>2. w \in Token
      BY <3>1, Writers
    <3>3. w = <<w[1], w[2]>>
      BY <3>2, Tokens
    <3> QED BY <2>1, <3>3 DEF Self
  <2>3. CASE w[1] # p
    <3>1. bridge'[w[1]] = bridge[w[1]]
      BY <1>1, <2>1, <2>3, Others
    <3>2. Owner(w[1]) /\ Owner(p)
      BY <1>2, <2>1, <3>1 DEF Owner, Owns
    <3> QED BY <2>1, <2>3, <3>2, Alone
  <2>4. CASE w[1] = p
    <3>1. bridge'[p] = b /\ ~call[p].ending /\ work[p] = "running"
      BY <1>1, <2>1, <2>4, Others
    <3>2. bridge[p].cards[w] \in {"none", "running"}
      BY <1>2, <1>3, <2>2, <2>4, <3>1 DEF FeedRead, CardFits
    <3>3. Card(p, w) = "running"
      BY <2>2, <2>4, <3>1, <3>2, CardOf
    <3> QED BY <1>1, <1>6, <3>3
  <2> QED BY <2>3, <2>4
<1> QED BY <1>4, <1>5, <1>6

\* Of two processes that open a session, none publishes over what it has not read:
\* each version of feed.json builds on the last, a settled card stays settled, and no
\* subagent of a bridge that lives is reported lost (publish and mergeCards of
\* feed-publisher.ts, publishOwner of manager-bridge.ts).
THEOREM TwoFeedAdvances ==
  ASSUME Cardinality(Process) <= 2
  PROVE  Spec => FeedAdvances
<1>1. Two
  BY AtMostTwo
<1> DEFINE A == feed' # feed =>
                  /\ feed'.rev = feed.rev + 1
                  /\ \A w \in Writer : feed.cards[w] \in Settled => feed'.cards[w] \in Settled
                  /\ \A w \in Writer : feed'.cards[w] = "lost" => ~Runs(w)'
<1>2. FeedInv /\ PairInv /\ [Next]_vars => [A]_vars
  <2> SUFFICES ASSUME FeedInv, PairInv, Next, feed' # feed PROVE A
    BY DEF vars
  <2>1. PICK p \in up : Store(p)
    BY OnlyStore DEF Next
  <2> QED BY <2>1, StoreAdvances
<1>3. FeedAdvances <=> [][A]_vars
  BY DEF FeedAdvances
<1> HIDE DEF A
<1> QED BY <1>1, <1>2, <1>3, PairAlways, PTL DEF Spec
=============================================================================
