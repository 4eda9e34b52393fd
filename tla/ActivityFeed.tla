----------------------------- MODULE ActivityFeed -----------------------------
(***************************************************************************)
(* The durable Activity feed of one session: feed.json, written only by    *)
(* the holder of writer.json (activity/feed-publisher.ts), and the bridges *)
(* that claim it and publish the cards of their subagents                  *)
(* (activity/manager-bridge.ts).  The lease is displaced by renaming it to *)
(* a takeover path, after its process is proven dead or by a later bridge  *)
(* of the same process; a live lease moved by mistake is linked back.      *)
(*                                                                         *)
(* A writer is <<process, n>>, the token of the n-th bridge of a process,  *)
(* and <<>> stands for no lease.  Every file-system call is a step, so     *)
(* processes interleave anywhere; a process runs one call at a time.       *)
(***************************************************************************)
EXTENDS FiniteSets, Naturals

CONSTANTS
  Process,      \* Pi processes that open the session
  Ghost,        \* one that died with the lease and a running subagent
  MaxRebinds,   \* bound: sessions replaced within a process
  MaxAttempts,  \* attempts of claimWriter (16 in the code)
  MaxFailures,  \* bound: terminal refreshes that fail or stay incomplete
  MaxDirs       \* bound: takeover paths in use at once

ASSUME FeedAssumption ==
  /\ Ghost \notin Process /\ IsFiniteSet(Process)
  /\ {MaxAttempts, MaxDirs} \subseteq Nat \ {0} /\ {MaxRebinds, MaxFailures} \subseteq Nat

Dir == 1..MaxDirs
Bridges == 1..(MaxRebinds + 1)
Token == Process \X Bridges
Writer == Token \cup {<<Ghost, 1>>}
Lease == Writer \cup {<<>>}
Status == {"none", "running", "done", "lost"}
Settled == {"done", "lost"}

VARIABLES
  canonical,  \* writer.json
  takeover,   \* the lease under each takeover path
  feed,       \* feed.json
  up,         \* processes that live
  gen,        \* the number of the current bridge of each process
  bridge,     \* that bridge and its publisher
  work,       \* the bridge's subagent, as its manager lists it
  call,       \* the claim or publication under way
  failures    \* failed refreshes so far

vars == <<canonical, takeover, feed, up, gen, bridge, work, call, failures>>

Pc == {"idle", "list", "scan", "look", "create", "move", "check", "replace", "load",
       "link", "restored", "drop", "exists", "find", "findRead", "verify", "store"}

Call == [pc : Pc,
         attempt : 1..MaxAttempts,
         todo : SUBSET Dir,     \* takeover paths listed and not yet read
         blocked : BOOLEAN,     \* one of them belongs to another live process
         proven : BOOLEAN,      \* abandonedWriterDeathProven
         seen : Lease,          \* the lease about to be displaced
         at : Dir \cup {0},     \* the takeover path in hand
         use : {"scan", "aba", "publish", "tidy"},  \* what is done with it
         ending : BOOLEAN]      \* the publication of shutdownSession

Quiet == [pc |-> "idle", attempt |-> 1, todo |-> {}, blocked |-> FALSE, proven |-> FALSE,
          seen |-> <<>>, at |-> 0, use |-> "scan", ending |-> FALSE]

NoCards == [w \in Writer |-> "none"]

Bridge == [bound : BOOLEAN,       \* not disposed
           publisher : BOOLEAN,   \* publishers has one with writerOwned
           claimed : BOOLEAN,     \* claimedOwners has the session
           proof : BOOLEAN,       \* writerDeathProof
           abandoned : SUBSET Writer,
           rev : Nat, cards : [Writer -> Status]]

Fresh == [bound |-> TRUE, publisher |-> FALSE, claimed |-> FALSE, proof |-> FALSE,
          abandoned |-> {}, rev |-> 0, cards |-> NoCards]

Init ==
  /\ \/ canonical = <<>> /\ feed = [rev |-> 0, cards |-> NoCards]
     \/ /\ canonical = <<Ghost, 1>>
        /\ feed = [rev |-> 1, cards |-> [NoCards EXCEPT ![<<Ghost, 1>>] = "running"]]
  /\ takeover = [d \in Dir |-> <<>>]
  /\ up = Process
  /\ gen = [p \in Process |-> 1]
  /\ bridge = [p \in Process |-> Fresh]
  /\ work = [p \in Process |-> "none"]
  /\ call = [p \in Process |-> Quiet]
  /\ failures = 0

Self(p) == <<p, gen[p]>>
Listed == {d \in Dir : takeover[d] # <<>>}

\* A takeover name is never reused: a path that is gone and that no call refers to.
Unused == {d \in Dir : takeover[d] = <<>>
                       /\ \A p \in up : d \notin call[p].todo \cup {call[p].at}}

\* The random path a lease is moved to: they differ in nothing.
NewDir == CHOOSE d \in Unused : TRUE

At(p, pc) == p \in up /\ call[p].pc = pc
Continue(p, r) == call' = [call EXCEPT ![p] = r]
Goto(p, pc) == Continue(p, [call[p] EXCEPT !.pc = pc])
Returns(p) == Continue(p, Quiet)
SetBridge(p, b) == bridge' = [bridge EXCEPT ![p] = b]

\* What a step of a claim or a publication leaves alone.
Rest == UNCHANGED <<up, gen, work, failures>>
OnlyReads == UNCHANGED <<canonical, takeover, feed, bridge>> /\ Rest
OnlyLease == UNCHANGED <<feed, bridge>> /\ Rest

(***************************************************************************)
(* claimWriter.  A claim that fails leaves nothing behind: the bridge      *)
(* discards the publisher and tries again on a later pass.                 *)
(***************************************************************************)
\* syncOwnedSessions without a publisher: the constructor claims the lease first.
Claim(p) ==
  /\ At(p, "idle") /\ bridge[p].bound /\ ~bridge[p].publisher
  /\ Goto(p, "list") /\ OnlyReads

\* The next attempt, with the proof of the earlier ones.
Again(p) ==
  IF call[p].attempt = MaxAttempts THEN Returns(p)
  ELSE Continue(p, [Quiet EXCEPT !.pc = "list", !.attempt = call[p].attempt + 1,
                                 !.proven = call[p].proven])

\* The end of the scan of the takeover paths, or its next one.
Scanned(p, r) ==
  CASE r.todo # {}               -> Continue(p, [r EXCEPT !.pc = "scan"])
    [] r.todo = {} /\ r.blocked  -> Returns(p)
    [] r.todo = {} /\ ~r.blocked -> Continue(p, [r EXCEPT !.pc = "look"])

List(p) ==
  /\ At(p, "list")
  /\ Scanned(p, [call[p] EXCEPT !.todo = Listed, !.blocked = FALSE])
  /\ OnlyReads

\* inspectWriter proves the death of another process.
Dead(p, w) == w[1] # p /\ w[1] \notin up

\* Mutants of Blocks: a live writer's path does not block; the own process's does.
BlocksUnread(p, w) == w = <<>>
BlocksOwn(p, w) == w = <<>> \/ ~Dead(p, w)

\* A path that is gone, or that of a live process, blocks the claim.
Blocks(p, w) == w = <<>> \/ (w[1] # p /\ ~Dead(p, w))

\* A path of the own process is restored, one of a dead process is erased.
Scan(p) == \E d \in call[p].todo :
  LET w == takeover[d]
      r == [call[p] EXCEPT !.todo = @ \ {d}, !.at = d]
  IN /\ At(p, "scan") /\ OnlyReads
     /\ IF Blocks(p, w) THEN Scanned(p, [r EXCEPT !.blocked = TRUE])
        ELSE IF w[1] = p THEN Continue(p, [r EXCEPT !.pc = "link", !.use = "scan"])
        ELSE Continue(p, [r EXCEPT !.pc = "drop", !.use = "scan", !.proven = TRUE])

Look(p) ==
  /\ At(p, "look") /\ OnlyReads
  /\ CASE canonical = <<>>    -> Goto(p, "create")
       [] canonical = Self(p) -> Continue(p, [call[p] EXCEPT !.pc = "load", !.proven = FALSE])
       [] canonical \notin {<<>>, Self(p)} ->
          IF canonical[1] = p \/ Dead(p, canonical)
          THEN Continue(p, [call[p] EXCEPT !.pc = "move", !.seen = canonical])
          ELSE Returns(p)

\* writePrivateJsonExclusive over no lease; EEXIST starts the next attempt.
Create(p) ==
  /\ At(p, "create") /\ OnlyLease /\ UNCHANGED takeover
  /\ IF canonical = <<>>
     THEN canonical' = Self(p) /\ Goto(p, "load")
     ELSE Again(p) /\ UNCHANGED canonical

\* Mutant of Displaced: any lease that was moved will do.
DisplacedAny(p, w) == w # <<>>

Displaced(p, w) == w = call[p].seen

\* renameSync to a new takeover path; ENOENT starts the next attempt.
Move(p) ==
  /\ At(p, "move") /\ OnlyLease
  /\ IF canonical = <<>> THEN Again(p) /\ UNCHANGED <<canonical, takeover>>
     ELSE /\ Unused # {}
          /\ canonical' = <<>>
          /\ takeover' = [takeover EXCEPT ![NewDir] = canonical]
          /\ Continue(p, [call[p] EXCEPT !.pc = "check", !.at = NewDir])

\* The moved lease is the one that was looked at.
Check(p) ==
  /\ At(p, "check") /\ OnlyReads
  /\ IF Displaced(p, takeover[call[p].at]) THEN Goto(p, "replace")
     ELSE Continue(p, [call[p] EXCEPT !.pc = "link", !.use = "aba"])

\* EEXIST leaves the takeover path to the scan of the next attempt.
Replace(p) ==
  /\ At(p, "replace") /\ OnlyLease /\ UNCHANGED takeover
  /\ IF canonical = <<>>
     THEN /\ canonical' = Self(p)
          /\ Continue(p, [call[p] EXCEPT !.pc = "drop", !.use = "tidy",
                                         !.proven = @ \/ call[p].seen[1] # p])
     ELSE Again(p) /\ UNCHANGED canonical

\* load, and what syncOwnedSessions makes of it: a takeover proven by a death
\* waits for a refresh of the terminals, any other is claimed at once.
Load(p) ==
  /\ At(p, "load") /\ Returns(p)
  /\ SetBridge(p, [bound |-> TRUE, publisher |-> TRUE, claimed |-> ~call[p].proven,
                   proof |-> call[p].proven,
                   abandoned |-> {w \in Writer : call[p].proven /\ feed.cards[w] = "running"},
                   rev |-> feed.rev, cards |-> feed.cards])
  /\ UNCHANGED <<canonical, takeover, feed>> /\ Rest

\* Mutant of Deferred: the publisher goes with the failed refresh.
DeferredAfresh(b) == Fresh

\* deferTakeoverRefresh keeps lease, publisher and proof for the next attempt.
Deferred(b) == b

Refresh(p) ==
  /\ At(p, "idle") /\ bridge[p].publisher /\ ~bridge[p].claimed
  /\ \/ SetBridge(p, [bridge[p] EXCEPT !.claimed = TRUE]) /\ UNCHANGED failures
     \/ /\ failures < MaxFailures /\ failures' = failures + 1
        /\ SetBridge(p, Deferred(bridge[p]))
  /\ UNCHANGED <<canonical, takeover, feed, up, gen, work, call>>

(***************************************************************************)
(* restoreTakeoverLease, for a scan, an ABA race or recoverOwnTakeover.    *)
(***************************************************************************)
Disposed == [Fresh EXCEPT !.bound = FALSE]

\* The end of publishOwner, after which shutdownSession disposes the bridge.
Published(p, b) ==
  SetBridge(p, IF call[p].ending THEN Disposed ELSE b) /\ Returns(p)

\* linkSync over no lease or over one (EEXIST).  A path that is gone throws out
\* of the claim, or fails the publication.
Link(p) ==
  LET w == takeover[call[p].at]
  IN /\ At(p, "link") /\ UNCHANGED <<takeover, feed>> /\ Rest
     /\ IF w = <<>> THEN Published(p, bridge[p]) /\ UNCHANGED canonical
        ELSE /\ canonical' = IF canonical = <<>> THEN w ELSE canonical
             /\ Goto(p, "restored") /\ UNCHANGED bridge

\* Where the call goes on once the path in hand is dealt with.
Dealt(p) ==
  CASE call[p].use = "scan"    -> Scanned(p, call[p])
    [] call[p].use = "aba"     -> Again(p)
    [] call[p].use = "publish" -> Goto(p, "verify")
    [] call[p].use = "tidy"    -> Goto(p, "load")

Restored(p) ==
  /\ At(p, "restored") /\ OnlyReads
  /\ IF canonical # <<>> THEN Goto(p, "drop") ELSE Dealt(p)

\* rmSync of a restored path, of a dead writer's path or of the displaced lease.
Drop(p) ==
  /\ At(p, "drop") /\ OnlyLease /\ UNCHANGED canonical
  /\ takeover' = [takeover EXCEPT ![call[p].at] = <<>>]
  /\ Dealt(p)

(***************************************************************************)
(* publishOwner and publish: find the own lease again, verify it, merge    *)
(* the cards with those retained, store them.                              *)
(***************************************************************************)
Publishes(p, ending) ==
  Continue(p, [call[p] EXCEPT !.pc = "exists", !.use = "publish", !.ending = ending])

Publish(p) ==
  /\ At(p, "idle") /\ bridge[p].claimed
  /\ Publishes(p, FALSE) /\ OnlyReads

Exists(p) ==
  /\ At(p, "exists") /\ OnlyReads
  /\ Goto(p, IF canonical # <<>> THEN "verify" ELSE "find")

Found(p, r) == Continue(p, [r EXCEPT !.pc = IF r.todo = {} THEN "verify" ELSE "findRead"])

Find(p) ==
  /\ At(p, "find") /\ OnlyReads
  /\ Found(p, [call[p] EXCEPT !.todo = Listed])

FindRead(p) == \E d \in call[p].todo :
  /\ At(p, "findRead") /\ OnlyReads
  /\ IF takeover[d] = Self(p)
     THEN Continue(p, [call[p] EXCEPT !.pc = "link", !.todo = {}, !.at = d])
     ELSE Found(p, [call[p] EXCEPT !.todo = @ \ {d}])

Merge(old, new) == IF old \in Settled /\ new \notin Settled THEN old ELSE new

\* Mutant of Card: only what the bridge's own manager lists.
CardListed(p, w) ==
  IF w # Self(p) THEN "none"
  ELSE IF call[p].ending /\ work[p] = "running" THEN "lost" ELSE work[p]

\* A card of the feed after publishOwner of this bridge.
Card(p, w) ==
  LET b == bridge[p]
      listed == w = Self(p) /\ work[p] # "none"
      stops == call[p].ending /\ work[p] = "running"
  IN CASE listed -> Merge(b.cards[w], IF stops THEN "lost" ELSE work[p])
       [] ~listed /\ b.cards[w] = "running" /\ (w \in b.abandoned \/ call[p].ending) -> "lost"
       [] OTHER -> b.cards[w]

Cards(p) == [w \in Writer |-> Card(p, w)]

\* completeAbandonedReconciliation: the proof is used up.
Reconciled(b) == [b EXCEPT !.proof = FALSE, !.abandoned = {}]

\* Without its lease the bridge drops the publisher; without a change it stores nothing.
Verify(p) ==
  /\ At(p, "verify") /\ UNCHANGED <<canonical, takeover, feed>> /\ Rest
  /\ CASE canonical # Self(p) -> Published(p, Fresh)
       [] canonical = Self(p) /\ Cards(p) = bridge[p].cards ->
          Published(p, Reconciled(bridge[p]))
       [] canonical = Self(p) /\ Cards(p) # bridge[p].cards ->
          Goto(p, "store") /\ UNCHANGED bridge

Store(p) ==
  /\ At(p, "store")
  /\ feed' = [rev |-> bridge[p].rev + 1, cards |-> Cards(p)]
  /\ Published(p, Reconciled([bridge[p] EXCEPT !.rev = @ + 1, !.cards = Cards(p)]))
  /\ UNCHANGED <<canonical, takeover>> /\ Rest

(***************************************************************************)
(* The life of a bridge and of its process.                                *)
(***************************************************************************)
\* A spawn passes the tool_call gate, activityBlockReason.
Spawn(p) ==
  /\ At(p, "idle") /\ bridge[p].claimed /\ work[p] = "none"
  /\ work' = [work EXCEPT ![p] = "running"]
  /\ UNCHANGED <<canonical, takeover, feed, up, gen, bridge, call, failures>>

Finish(p) ==
  /\ At(p, "idle") /\ bridge[p].bound /\ work[p] = "running"
  /\ work' = [work EXCEPT ![p] = "done"]
  /\ UNCHANGED <<canonical, takeover, feed, up, gen, bridge, call, failures>>

\* shutdownSession publishes the end of its subagents if it can, and disposes.
\* The lease stays on disk.
Shutdown(p) ==
  /\ At(p, "idle") /\ bridge[p].bound
  /\ IF bridge[p].claimed THEN Publishes(p, TRUE) /\ UNCHANGED bridge
     ELSE SetBridge(p, Disposed) /\ UNCHANGED call
  /\ UNCHANGED <<canonical, takeover, feed>> /\ Rest

\* The bridges that were replaced.
Replaced == {w \in Token : w[2] < gen[w[1]]}

\* The extension's next life in the same process, with a bridge of its own.
Rebind(p) ==
  /\ At(p, "idle") /\ ~bridge[p].bound
  /\ Cardinality(Replaced) < MaxRebinds
  /\ gen' = [gen EXCEPT ![p] = @ + 1]
  /\ SetBridge(p, Fresh) /\ work' = [work EXCEPT ![p] = "none"]
  /\ UNCHANGED <<canonical, takeover, feed, up, call, failures>>

Crash(p) ==
  /\ p \in up /\ up' = up \ {p}
  /\ call' = [call EXCEPT ![p] = Quiet]
  /\ SetBridge(p, Disposed) /\ work' = [work EXCEPT ![p] = "none"]
  /\ UNCHANGED <<canonical, takeover, feed, gen, failures>>

\* One file-system call of a claim or a publication.
Step(p) ==
  \/ List(p) \/ Scan(p) \/ Look(p) \/ Create(p) \/ Move(p) \/ Check(p) \/ Replace(p)
  \/ Link(p) \/ Restored(p) \/ Drop(p) \/ Load(p)
  \/ Exists(p) \/ Find(p) \/ FindRead(p) \/ Verify(p) \/ Store(p)

Next == \E p \in Process :
  \/ Step(p) \/ Claim(p) \/ Refresh(p) \/ Publish(p)
  \/ Spawn(p) \/ Finish(p) \/ Shutdown(p) \/ Rebind(p) \/ Crash(p)

Spec == Init /\ [][Next]_vars

\* A call runs on until it returns; the bridge's timers sync and publish.
Fairness == \A p \in Process :
  WF_vars(Step(p)) /\ WF_vars(Claim(p)) /\ WF_vars(Refresh(p)) /\ WF_vars(Publish(p))

FairSpec == Spec /\ Fairness

(***************************************************************************)
(* Properties.                                                             *)
(***************************************************************************)
TypeOK ==
  /\ canonical \in Lease /\ takeover \in [Dir -> Lease]
  /\ feed \in [rev : Nat, cards : [Writer -> Status]]
  /\ up \subseteq Process /\ gen \in [Process -> Bridges]
  /\ bridge \in [Process -> Bridge] /\ work \in [Process -> {"none", "running", "done"}]
  /\ call \in [Process -> Call] /\ failures \in 0..MaxFailures

\* At most one bridge that lives believes to be the session's writer, however
\* claims, mistaken displacements, restorations and crashes interleave.
OneProducer == \A p, q \in up : bridge[p].claimed /\ bridge[q].claimed => p = q

\* The bridge of this token lists its subagent as running.
Runs(w) == w[1] \in up /\ gen[w[1]] = w[2] /\ bridge[w[1]].bound /\ work[w[1]] = "running"

\* Every version of the feed builds on the one before it: no writer publishes what
\* it read before its claim, a settled card stays settled, and a subagent is
\* reported lost only once its process died or its session ended.
FeedAdvances ==
  [][feed' # feed =>
       /\ feed'.rev = feed.rev + 1
       /\ \A w \in Writer : feed.cards[w] \in Settled => feed'.cards[w] \in Settled
       /\ \A w \in Writer : feed'.cards[w] = "lost" => ~Runs(w)']_vars

\* Cards that a dead writer left running end as lost, although the refresh of the
\* terminals may fail in between: the bridge that proved the death keeps the proof
\* until it has published, unless it loses the lease, is disposed or dies.  And the
\* last process left takes the lease over, whatever the others left behind.
TakeoverCompletes == \A p \in Process :
  /\ bridge[p].proof
       ~> \/ \A w \in Writer \ {Self(p)} : feed.cards[w] # "running"
          \/ canonical # Self(p) \/ ~bridge[p].bound
  /\ up = {p} /\ bridge[p].bound ~> bridge[p].claimed \/ ~bridge[p].bound
=============================================================================
