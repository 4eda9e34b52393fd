---------------------------- MODULE RpcSessionProofs ----------------------------
(***************************************************************************)
(* Proofs about the two state machines a change of session in the RPC host *)
(* runs through: PromptScheduler, which holds the prompts typed meanwhile, *)
(* for any prompts and any number of restores and session rebinds; and     *)
(* SessionHydration, which takes the session over from the child, for any  *)
(* sessions, passes and bounds.  They share no variable.                   *)
(***************************************************************************)
EXTENDS PromptScheduler, SessionHydration, SequenceTheorems, FiniteSetTheorems, TLAPS

(***************************************************************************)
(* PromptScheduler: no prompt vanishes or is doubled, and held prompts are *)
(* first sent in the order the user typed them.                            *)
(*                                                                         *)
(* The argument: a prompt is handed from place to place by single steps,   *)
(* and a dispatch that may come back to the queue carries the generation   *)
(* of the session it was typed in.  Prompts that were never sent stay in   *)
(* the queue in the order taken, behind everything sent before them.       *)
(***************************************************************************)
\* A prompt is held, awaits the host or is on its way to Pi; only one of these.
OnePlace(q, ds, es, fs) ==
  /\ \A i, j \in DOMAIN q : q[i] = q[j] => i = j
  /\ \A d, e \in ds : d.prompt = e.prompt => d = e
  /\ \A d \in ds : d.prompt \notin Range(q) \cup es
  /\ \A p \in es : p \notin Range(q)
  /\ \A p \in Prompt :
       fs[p] = "scheduler" <=> p \in Range(q) \cup es \cup {d.prompt : d \in ds}

\* What is held, and what may be put back, was typed into session s.
AtHome(q, ds, gen, hs, s) ==
  /\ \A p \in Range(q) : hs[p] = s
  /\ \A d \in ds : d.generation = gen => hs[d.prompt] = s

\* p was taken before q.
Before(acc, p, q) == \A k, l \in DOMAIN acc : acc[k] = p /\ acc[l] = q => k < l

KeepsOrder(q, acc, att) ==
  /\ Range(q) \cup Range(att) \subseteq Range(acc)
  /\ \A i, j \in DOMAIN att : i < j => Before(acc, att[i], att[j])
  /\ \A a \in Range(att), p \in Range(q) \ Range(att) : Before(acc, a, p)
  /\ \A i, j \in DOMAIN q :
       i < j /\ q[i] \notin Range(att) /\ q[j] \notin Range(att) => Before(acc, q[i], q[j])

\* Each prompt is taken at most once.
TakenOnce ==
  /\ \A k, l \in DOMAIN accepted : accepted[k] = accepted[l] => k = l
  /\ \A p \in Range(accepted) : fate[p] # "draft" /\ p \notin entering

\* The loop waits for exactly one dispatch, of a prompt that has been sent before.
Waiting(ds, at, att) ==
  /\ \A d, e \in ds : d.held /\ e.held => d = e
  /\ (\E d \in ds : d.held) <=> at = "waiting"
  /\ \A d \in ds : d.held => d.prompt \in Range(att)

PromptPlaces ==
  /\ OnePlace(queue, inflight, entering, fate)
  /\ AtHome(queue, inflight, generation, home, session)
  /\ KeepsOrder(queue, accepted, attempted)
  /\ Waiting(inflight, loop.at, attempted)

SchedulerInv == SchedulerTypeOK /\ session <= generation /\ TakenOnce /\ PromptPlaces

-----------------------------------------------------------------------------
(***************************************************************************)
(* Sequences.                                                              *)
(***************************************************************************)
LEMMA Indices == ASSUME NEW S, NEW q \in Seq(S)
                 PROVE  /\ DOMAIN q = 1..Len(q) /\ Len(q) \in Nat
                        /\ \A i \in DOMAIN q : i \in Nat /\ q[i] \in S
                        /\ Range(q) \subseteq S
BY DEF Range

LEMMA HeadAndTail ==
  ASSUME NEW S, NEW q \in Seq(S), q # <<>>
  PROVE  /\ Head(q) \in S /\ Tail(q) \in Seq(S)
         /\ 1 \in DOMAIN q /\ q[1] = Head(q)
         /\ \A i \in DOMAIN Tail(q) : i \in Nat /\ i + 1 \in DOMAIN q /\ Tail(q)[i] = q[i + 1]
         /\ Range(q) = Range(Tail(q)) \cup {Head(q)}
<1>1. /\ Head(q) \in S /\ Tail(q) \in Seq(S) /\ Len(Tail(q)) = Len(q) - 1
      /\ \A i \in 1 .. Len(Tail(q)) : Tail(q)[i] = q[i + 1]
  BY HeadTailProperties
<1>2. Len(q) \in Nat \ {0} /\ DOMAIN q = 1..Len(q) BY EmptySeq, LenProperties
<1>3. DOMAIN Tail(q) = 1..Len(Tail(q)) BY <1>1, LenProperties
<1>4. q[1] = Head(q) OBVIOUS
<1>5. \A i \in DOMAIN Tail(q) : i \in Nat /\ i + 1 \in DOMAIN q /\ Tail(q)[i] = q[i + 1]
  BY <1>1, <1>2, <1>3
<1>6. ASSUME NEW i \in DOMAIN q, i # 1 PROVE q[i] \in Range(Tail(q))
  <2>1. i - 1 \in DOMAIN Tail(q) /\ (i - 1) + 1 = i BY <1>1, <1>2, <1>3, <1>6
  <2>2. Tail(q)[i - 1] = q[i] BY <1>5, <2>1
  <2>3. QED BY <2>1, <2>2 DEF Range
<1>7. Range(q) = Range(Tail(q)) \cup {Head(q)}
  <2>1. ASSUME NEW x \in Range(q) PROVE x \in Range(Tail(q)) \cup {Head(q)}
    BY <1>4, <1>6, <2>1 DEF Range
  <2>2. Head(q) \in Range(q) BY <1>2, <1>4 DEF Range
  <2>3. Range(Tail(q)) \subseteq Range(q) BY <1>5 DEF Range
  <2>4. QED BY <2>1, <2>2, <2>3
<1>8. QED BY <1>1, <1>2, <1>4, <1>5, <1>7

LEMMA AppendOne ==
  ASSUME NEW S, NEW q \in Seq(S), NEW x \in S
  PROVE  /\ Append(q, x) \in Seq(S)
         /\ \A i \in DOMAIN Append(q, x) :
              i \in Nat /\ \/ i \in DOMAIN q /\ i < Len(q) + 1 /\ Append(q, x)[i] = q[i]
                           \/ i = Len(q) + 1 /\ Append(q, x)[i] = x
         /\ \A i \in DOMAIN q : i \in DOMAIN Append(q, x) /\ Append(q, x)[i] = q[i]
         /\ Range(Append(q, x)) = Range(q) \cup {x}
<1>1. /\ Append(q, x) \in Seq(S) /\ Len(Append(q, x)) = Len(q) + 1 /\ Len(q) \in Nat
      /\ DOMAIN q = 1..Len(q)
      /\ \A i \in 1..Len(q) : Append(q, x)[i] = q[i]
      /\ Append(q, x)[Len(q) + 1] = x
  BY AppendProperties, LenProperties
<1>2. DOMAIN Append(q, x) = 1..(Len(q) + 1) BY <1>1, LenProperties
<1>3. \A i \in DOMAIN Append(q, x) :
        i \in Nat /\ \/ i \in DOMAIN q /\ i < Len(q) + 1 /\ Append(q, x)[i] = q[i]
                     \/ i = Len(q) + 1 /\ Append(q, x)[i] = x
  BY <1>1, <1>2
<1>4. \A i \in DOMAIN q : i \in DOMAIN Append(q, x) /\ Append(q, x)[i] = q[i] BY <1>1, <1>2
<1>5. Range(Append(q, x)) = Range(q) \cup {x}
  <2>1. Len(q) + 1 \in DOMAIN Append(q, x) BY <1>1, <1>2
  <2>2. QED BY <1>1, <1>3, <1>4, <2>1 DEF Range
<1>6. QED BY <1>1, <1>3, <1>4, <1>5

LEMMA PutFirst ==
  ASSUME NEW S, NEW q \in Seq(S), NEW x \in S
  PROVE  /\ <<x>> \o q \in Seq(S)
         /\ \A i \in DOMAIN (<<x>> \o q) :
              i \in Nat /\ \/ i = 1 /\ (<<x>> \o q)[i] = x
                           \/ i # 1 /\ i - 1 \in DOMAIN q /\ (<<x>> \o q)[i] = q[i - 1]
         /\ Range(<<x>> \o q) = Range(q) \cup {x}
<1>1. <<x>> \in Seq(S) /\ Len(<<x>>) = 1 /\ <<x>>[1] = x OBVIOUS
<1> DEFINE c == <<x>> \o q
<1>2. /\ c \in Seq(S) /\ Len(c) = 1 + Len(q)
      /\ \A i \in 1 .. 1 + Len(q) : c[i] = IF i <= 1 THEN <<x>>[i] ELSE q[i - 1]
  BY <1>1, ConcatProperties
<1> HIDE DEF c
<1>3. Len(q) \in Nat /\ DOMAIN q = 1..Len(q) /\ DOMAIN c = 1..Len(c) BY <1>2, LenProperties
<1>4. \A i \in DOMAIN c :
        i \in Nat /\ \/ i = 1 /\ c[i] = x
                     \/ i # 1 /\ i - 1 \in DOMAIN q /\ c[i] = q[i - 1]
  BY <1>1, <1>2, <1>3
<1>5. Range(c) = Range(q) \cup {x}
  <2>1. 1 \in DOMAIN c /\ c[1] = x BY <1>1, <1>2, <1>3
  <2>2. ASSUME NEW i \in DOMAIN q PROVE q[i] \in Range(c)
    <3>1. i + 1 \in DOMAIN c /\ i + 1 # 1 /\ (i + 1) - 1 = i BY <1>2, <1>3
    <3>2. c[i + 1] = q[i] BY <1>4, <3>1
    <3>3. QED BY <3>1, <3>2 DEF Range
  <2>3. Range(q) \cup {x} \subseteq Range(c) BY <2>1, <2>2 DEF Range
  <2>4. Range(c) \subseteq Range(q) \cup {x} BY <1>4 DEF Range
  <2>5. QED BY <2>3, <2>4
<1>6. QED BY <1>2, <1>4, <1>5 DEF c

-----------------------------------------------------------------------------
(***************************************************************************)
(* Sending the head of the queue.                                          *)
(***************************************************************************)
LEMMA SendOnePlace ==
  ASSUME NEW q \in Seq(Prompt), q # <<>>, NEW ds, NEW es, NEW fs, OnePlace(q, ds, es, fs),
         NEW d, d.prompt = Head(q)
  PROVE  OnePlace(Tail(q), ds \cup {d}, es, fs)
<1>1. /\ 1 \in DOMAIN q /\ q[1] = Head(q)
      /\ \A i \in DOMAIN Tail(q) : i \in Nat /\ i + 1 \in DOMAIN q /\ Tail(q)[i] = q[i + 1]
      /\ Range(q) = Range(Tail(q)) \cup {Head(q)}
  BY HeadAndTail
<1>2. Head(q) \notin Range(Tail(q))
  <2>1. ASSUME NEW i \in DOMAIN Tail(q) PROVE Tail(q)[i] # Head(q)
    <3>1. i + 1 # 1 BY <1>1
    <3>2. QED BY <1>1, <3>1 DEF OnePlace
  <2>2. QED BY <2>1 DEF Range
<1>3. \A i, j \in DOMAIN Tail(q) : Tail(q)[i] = Tail(q)[j] => i = j
  <2>1. SUFFICES ASSUME NEW i \in DOMAIN Tail(q), NEW j \in DOMAIN Tail(q), Tail(q)[i] = Tail(q)[j]
                 PROVE  i = j
    OBVIOUS
  <2>2. i + 1 = j + 1 BY <1>1, <2>1 DEF OnePlace
  <2>3. QED BY <1>1, <2>2
<1>4. \A e \in ds : e.prompt # Head(q) /\ e.prompt \notin Range(Tail(q)) \cup es
  BY <1>1 DEF OnePlace
<1>5. Head(q) \notin es BY <1>1 DEF OnePlace
<1>6. {e.prompt : e \in ds \cup {d}} = {e.prompt : e \in ds} \cup {Head(q)} OBVIOUS
<1>7. \A p \in Prompt :
        fs[p] = "scheduler" <=> p \in Range(Tail(q)) \cup es \cup {e.prompt : e \in ds \cup {d}}
  BY <1>1, <1>6 DEF OnePlace
<1>8. \A e, f \in ds \cup {d} : e.prompt = f.prompt => e = f BY <1>4 DEF OnePlace
<1>9. \A e \in ds \cup {d} : e.prompt \notin Range(Tail(q)) \cup es BY <1>2, <1>4, <1>5
<1>10. \A p \in es : p \notin Range(Tail(q)) BY <1>1 DEF OnePlace
<1>11. QED BY <1>3, <1>7, <1>8, <1>9, <1>10 DEF OnePlace

\* A prompt sent for the first time was taken after all that were sent before it.
LEMMA SendOrdered ==
  ASSUME NEW q \in Seq(Prompt), q # <<>>, NEW acc, NEW att \in Seq(Prompt), KeepsOrder(q, acc, att)
  PROVE  KeepsOrder(Tail(q), acc, IF Head(q) \in Range(att) THEN att ELSE Append(att, Head(q)))
<1> DEFINE h == Head(q)
           t == Tail(q)
           new == Append(att, h)
<1>1. /\ h \in Prompt /\ 1 \in DOMAIN q /\ q[1] = h
      /\ \A i \in DOMAIN t : i \in Nat /\ i + 1 \in DOMAIN q /\ t[i] = q[i + 1]
      /\ Range(q) = Range(t) \cup {h}
  BY HeadAndTail
<1>2. /\ \A i \in DOMAIN new :
           i \in Nat /\ \/ i \in DOMAIN att /\ i < Len(att) + 1 /\ new[i] = att[i]
                        \/ i = Len(att) + 1 /\ new[i] = h
      /\ Range(new) = Range(att) \cup {h} /\ Len(att) \in Nat
  BY <1>1, AppendOne, LenProperties
<1> HIDE DEF h, t, new
<1>3. CASE h \in Range(att)
  <2>1. \A i, j \in DOMAIN t : i < j /\ t[i] \notin Range(att) /\ t[j] \notin Range(att) =>
          Before(acc, t[i], t[j])
    <3>1. SUFFICES ASSUME NEW i \in DOMAIN t, NEW j \in DOMAIN t, i < j,
                          t[i] \notin Range(att), t[j] \notin Range(att)
                   PROVE  Before(acc, t[i], t[j])
      OBVIOUS
    <3>2. i + 1 < j + 1 BY <1>1, <3>1
    <3>3. QED BY <1>1, <3>1, <3>2 DEF KeepsOrder
  <2>2. QED BY <1>1, <1>3, <2>1 DEF KeepsOrder, h, t
<1>4. CASE h \notin Range(att)
  <2>1. \A i, j \in DOMAIN new : i < j => Before(acc, new[i], new[j])
    <3>1. SUFFICES ASSUME NEW i \in DOMAIN new, NEW j \in DOMAIN new, i < j
                   PROVE  Before(acc, new[i], new[j])
      OBVIOUS
    <3>2. i \in DOMAIN att /\ new[i] = att[i] BY <1>2, <3>1
    <3>3. CASE j \in DOMAIN att /\ new[j] = att[j] BY <3>1, <3>2, <3>3 DEF KeepsOrder
    <3>4. CASE new[j] = h
      <4>1. att[i] \in Range(att) BY <3>2 DEF Range
      <4>2. QED BY <1>1, <1>4, <3>2, <3>4, <4>1 DEF KeepsOrder
    <3>5. QED BY <1>2, <3>3, <3>4
  <2>2. \A a \in Range(new), p \in Range(t) \ Range(new) : Before(acc, a, p)
    <3>1. SUFFICES ASSUME NEW a \in Range(new), NEW p \in Range(t) \ Range(new)
                   PROVE  Before(acc, a, p)
      OBVIOUS
    <3>2. CASE a \in Range(att) BY <1>1, <1>2, <3>1, <3>2 DEF KeepsOrder
    <3>3. CASE a = h
      <4>1. PICK i \in DOMAIN t : t[i] = p BY <3>1 DEF Range
      <4>2. 1 < i + 1 \/ i = 0 BY <1>1
      <4>3. p # h /\ p \notin Range(att) BY <1>2, <3>1
      <4>4. i # 0 BY <1>1, <4>1, <4>3
      <4>5. QED BY <1>1, <1>4, <3>3, <4>1, <4>2, <4>3, <4>4 DEF KeepsOrder
    <3>4. QED BY <1>2, <3>1, <3>2, <3>3
  <2>3. \A i, j \in DOMAIN t : i < j /\ t[i] \notin Range(new) /\ t[j] \notin Range(new) =>
          Before(acc, t[i], t[j])
    <3>1. SUFFICES ASSUME NEW i \in DOMAIN t, NEW j \in DOMAIN t, i < j,
                          t[i] \notin Range(new), t[j] \notin Range(new)
                   PROVE  Before(acc, t[i], t[j])
      OBVIOUS
    <3>2. i + 1 < j + 1 BY <1>1, <3>1
    <3>3. QED BY <1>1, <1>2, <3>1, <3>2 DEF KeepsOrder
  <2>4. Range(t) \cup Range(new) \subseteq Range(acc) BY <1>1, <1>2 DEF KeepsOrder
  <2>5. QED BY <1>4, <2>1, <2>2, <2>3, <2>4 DEF KeepsOrder, h, t, new
<1>5. QED BY <1>3, <1>4

LEMMA SendHeadKeeps ==
  ASSUME SchedulerTypeOK, NEW q \in Seq(Prompt), q # <<>>, SendHead(q), loop.at # "waiting",
         generation' = generation, OnePlace(q, inflight, entering', fate'),
         AtHome(q, inflight, generation, home', session'),
         KeepsOrder(q, accepted', attempted), Waiting(inflight, loop.at, attempted)
  PROVE  /\ queue' \in Seq(Prompt) /\ inflight' \subseteq Dispatch
         /\ \A d \in inflight' : d.generation <= generation'
         /\ loop' \in [at : {"idle", "waiting", "resumed"}, generation : 0..MaxRestores, ok : BOOLEAN]
         /\ attempted' \in Seq(Prompt) /\ PromptPlaces'
<1> DEFINE d == [prompt |-> Head(q), generation |-> generation, held |-> TRUE]
<1>1. /\ queue' = Tail(q) /\ inflight' = inflight \cup {d}
      /\ loop' = [at |-> "waiting", generation |-> generation, ok |-> FALSE]
      /\ attempted' = IF Head(q) \in Range(attempted) THEN attempted ELSE Append(attempted, Head(q))
  BY DEF SendHead, FirstSent
<1>2. /\ Head(q) \in Prompt /\ Tail(q) \in Seq(Prompt)
      /\ Range(q) = Range(Tail(q)) \cup {Head(q)}
  BY HeadAndTail
<1>3. /\ d \in Dispatch /\ d.prompt = Head(q) /\ d.generation = generation /\ d.held
      /\ generation \in Nat
  BY <1>2, SchedulerAssumption DEF Dispatch, SchedulerTypeOK
<1> HIDE DEF d
<1>4. queue' \in Seq(Prompt) /\ inflight' \subseteq Dispatch
      /\ \A e \in inflight' : e.generation <= generation'
  BY <1>1, <1>2, <1>3 DEF SchedulerTypeOK
<1>5. loop' \in [at : {"idle", "waiting", "resumed"}, generation : 0..MaxRestores, ok : BOOLEAN]
      /\ loop'.at = "waiting"
  BY <1>1 DEF SchedulerTypeOK
<1>6. attempted' \in Seq(Prompt) BY <1>1, <1>2, AppendOne DEF SchedulerTypeOK
<1>7. OnePlace(queue', inflight', entering', fate') BY <1>1, <1>3, SendOnePlace
<1>8. AtHome(queue', inflight', generation', home', session') BY <1>1, <1>2, <1>3 DEF AtHome
<1>9. KeepsOrder(queue', accepted', attempted')
  <2>1. attempted \in Seq(Prompt) BY DEF SchedulerTypeOK
  <2>2. QED BY <1>1, <2>1, SendOrdered
<1>10. Waiting(inflight', loop'.at, attempted')
  <2>1. Range(attempted') = Range(attempted) \cup {Head(q)}
    <3>1. attempted \in Seq(Prompt) BY DEF SchedulerTypeOK
    <3>2. Range(Append(attempted, Head(q))) = Range(attempted) \cup {Head(q)}
      BY <1>2, <3>1, AppendOne
    <3>3. QED BY <1>1, <3>2
  <2>2. QED BY <1>1, <1>3, <1>5, <2>1 DEF Waiting
<1>11. QED BY <1>4, <1>5, <1>6, <1>7, <1>8, <1>9, <1>10 DEF PromptPlaces

\* Flush sends the head of q or leaves q as the queue.
LEMMA FlushKeeps ==
  ASSUME SchedulerTypeOK, NEW q \in Seq(Prompt), NEW stopped, Flush(q, stopped),
         generation' = generation, OnePlace(q, inflight, entering', fate'),
         AtHome(q, inflight, generation, home', session'),
         KeepsOrder(q, accepted', attempted), Waiting(inflight, loop.at, attempted)
  PROVE  /\ queue' \in Seq(Prompt) /\ inflight' \subseteq Dispatch
         /\ \A d \in inflight' : d.generation <= generation'
         /\ loop' \in [at : {"idle", "waiting", "resumed"}, generation : 0..MaxRestores, ok : BOOLEAN]
         /\ attempted' \in Seq(Prompt) /\ PromptPlaces'
<1>1. CASE queue' = q /\ UNCHANGED <<inflight, loop, attempted>>
  BY <1>1 DEF SchedulerTypeOK, PromptPlaces
<1>2. CASE ~flushing /\ q # <<>> /\ SendHead(q)
  <2>1. loop.at # "waiting" BY <1>2 DEF flushing
  <2>2. QED BY <1>2, <2>1, SendHeadKeeps
<1>3. QED BY <1>1, <1>2 DEF Flush

-----------------------------------------------------------------------------
(***************************************************************************)
(* Submissions.                                                            *)
(***************************************************************************)
LEMMA EnterOnePlace ==
  ASSUME NEW q, NEW ds, NEW es, NEW fs \in [Prompt -> Fate], OnePlace(q, ds, es, fs),
         NEW p \in Prompt, fs[p] = "draft"
  PROVE  OnePlace(q, ds, es \cup {p}, [fs EXCEPT ![p] = "scheduler"])
<1>1. p \notin Range(q) \cup es \cup {d.prompt : d \in ds} BY DEF OnePlace
<1>2. QED BY <1>1 DEF OnePlace

LEMMA LeaveOnePlace ==
  ASSUME NEW q, NEW ds, NEW es, NEW fs \in [Prompt -> Fate], OnePlace(q, ds, es, fs),
         NEW p \in Prompt, p \in es, NEW x, x # "scheduler"
  PROVE  OnePlace(q, ds, es \ {p}, [fs EXCEPT ![p] = x])
<1>1. p \notin Range(q) \cup {d.prompt : d \in ds} BY DEF OnePlace
<1>2. QED BY <1>1 DEF OnePlace

LEMMA SendNowOnePlace ==
  ASSUME NEW q, NEW ds, NEW es, NEW fs, OnePlace(q, ds, es, fs),
         NEW p \in Prompt, p \in es, NEW d, d.prompt = p
  PROVE  OnePlace(q, ds \cup {d}, es \ {p}, fs)
<1>1. {e.prompt : e \in ds \cup {d}} = {e.prompt : e \in ds} \cup {p} OBVIOUS
<1>2. p \notin Range(q) /\ \A e \in ds : e.prompt # p BY DEF OnePlace
<1>3. \A e, f \in ds \cup {d} : e.prompt = f.prompt => e = f BY <1>2 DEF OnePlace
<1>4. \A e \in ds \cup {d} : e.prompt \notin Range(q) \cup (es \ {p}) BY <1>2 DEF OnePlace
<1>5. QED BY <1>1, <1>3, <1>4 DEF OnePlace

LEMMA HoldOnePlace ==
  ASSUME NEW q \in Seq(Prompt), NEW ds, NEW es, NEW fs, OnePlace(q, ds, es, fs),
         NEW p \in Prompt, p \in es
  PROVE  OnePlace(Append(q, p), ds, es \ {p}, fs)
<1>1. /\ \A i \in DOMAIN Append(q, p) :
           i \in Nat /\ \/ i \in DOMAIN q /\ i < Len(q) + 1 /\ Append(q, p)[i] = q[i]
                        \/ i = Len(q) + 1 /\ Append(q, p)[i] = p
      /\ Range(Append(q, p)) = Range(q) \cup {p}
  BY AppendOne
<1>2. p \notin Range(q) /\ \A e \in ds : e.prompt # p BY DEF OnePlace
<1>3. \A i \in DOMAIN q : q[i] # p BY <1>2 DEF Range
<1>4. \A i, j \in DOMAIN Append(q, p) : Append(q, p)[i] = Append(q, p)[j] => i = j
  BY <1>1, <1>3 DEF OnePlace
<1>5. QED BY <1>1, <1>2, <1>4 DEF OnePlace

\* What is taken last comes last.
LEMMA TakeOrdered ==
  ASSUME NEW q \in Seq(Prompt), NEW acc \in Seq(Prompt), NEW att \in Seq(Prompt),
         KeepsOrder(q, acc, att), NEW p \in Prompt, p \notin Range(acc)
  PROVE  /\ KeepsOrder(q, Append(acc, p), att) /\ KeepsOrder(Append(q, p), Append(acc, p), att)
<1> DEFINE r == Append(q, p)
           new == Append(acc, p)
<1>1. /\ \A i \in DOMAIN new :
           i \in Nat /\ \/ i \in DOMAIN acc /\ i < Len(acc) + 1 /\ new[i] = acc[i]
                        \/ i = Len(acc) + 1 /\ new[i] = p
      /\ Range(new) = Range(acc) \cup {p}
  BY AppendOne
<1>2. /\ \A i \in DOMAIN r :
           i \in Nat /\ \/ i \in DOMAIN q /\ i < Len(q) + 1 /\ r[i] = q[i]
                        \/ i = Len(q) + 1 /\ r[i] = p
      /\ Range(r) = Range(q) \cup {p} /\ Len(q) \in Nat
  BY AppendOne, LenProperties
<1> HIDE DEF r, new
<1>3. \A i \in DOMAIN acc : acc[i] # p BY DEF Range
<1>4. ASSUME NEW x \in Range(acc), NEW y \in Range(acc), Before(acc, x, y) PROVE Before(new, x, y)
  <2>1. x # p /\ y # p OBVIOUS
  <2>2. QED BY <1>1, <1>4, <2>1 DEF Before
<1>5. ASSUME NEW x \in Range(acc) PROVE Before(new, x, p)
  <2>1. x # p OBVIOUS
  <2>2. QED BY <1>1, <1>3, <2>1 DEF Before
<1>6. /\ Range(q) \subseteq Range(acc) /\ Range(att) \subseteq Range(acc)
      /\ \A i \in DOMAIN q : q[i] \in Range(acc)
      /\ \A i \in DOMAIN att : att[i] \in Range(acc)
  BY DEF KeepsOrder, Range
<1>7. \A i, j \in DOMAIN att : i < j => Before(new, att[i], att[j]) BY <1>4, <1>6 DEF KeepsOrder
<1>8. \A a \in Range(att), x \in Range(q) \ Range(att) : Before(new, a, x)
  BY <1>4, <1>6 DEF KeepsOrder
<1>9. \A i, j \in DOMAIN q :
        i < j /\ q[i] \notin Range(att) /\ q[j] \notin Range(att) => Before(new, q[i], q[j])
  BY <1>4, <1>6 DEF KeepsOrder
<1>10. KeepsOrder(q, new, att) BY <1>1, <1>6, <1>7, <1>8, <1>9 DEF KeepsOrder
<1>11. \A a \in Range(att), x \in Range(r) \ Range(att) : Before(new, a, x)
  BY <1>2, <1>5, <1>6, <1>8
<1>12. \A i, j \in DOMAIN r :
         i < j /\ r[i] \notin Range(att) /\ r[j] \notin Range(att) => Before(new, r[i], r[j])
  <2>1. SUFFICES ASSUME NEW i \in DOMAIN r, NEW j \in DOMAIN r, i < j,
                        r[i] \notin Range(att), r[j] \notin Range(att)
                 PROVE  Before(new, r[i], r[j])
    OBVIOUS
  <2>2. i \in DOMAIN q /\ r[i] = q[i]
    <3>1. \A k \in DOMAIN r : k <= Len(q) + 1 BY <1>2
    <3>2. QED BY <1>2, <2>1, <3>1
  <2>3. CASE j \in DOMAIN q /\ r[j] = q[j] BY <1>9, <2>1, <2>2, <2>3
  <2>4. CASE r[j] = p BY <1>5, <1>6, <2>2, <2>4
  <2>5. QED BY <1>2, <2>3, <2>4
<1>13. KeepsOrder(r, new, att) BY <1>1, <1>2, <1>6, <1>7, <1>11, <1>12 DEF KeepsOrder
<1>14. QED BY <1>10, <1>13 DEF r, new

LEMMA SubmitStep == ASSUME SchedulerInv, NEW p \in Prompt, Submit(p) PROVE SchedulerInv'
<1> USE DEF SchedulerInv
<1>1. /\ fate[p] = "draft" /\ entering' = entering \cup {p}
      /\ fate' = [fate EXCEPT ![p] = "scheduler"] /\ fate \in [Prompt -> Fate]
      /\ UNCHANGED <<queue, generation, paused, lifecycleBusy, inflight, loop, compacting, streaming,
                     session, home, accepted, attempted>>
  BY DEF Submit, store, SchedulerTypeOK
<1>2. SchedulerTypeOK' BY <1>1 DEF SchedulerTypeOK, Fate
<1>3. OnePlace(queue', inflight', entering', fate') BY <1>1, EnterOnePlace DEF PromptPlaces
<1>4. TakenOnce' BY <1>1 DEF TakenOnce
<1>5. PromptPlaces' BY <1>1, <1>3 DEF PromptPlaces
<1>6. QED BY <1>1, <1>2, <1>4, <1>5

\* The fate of a submission that the scheduler does not take.
LEMMA LeaveStep ==
  ASSUME SchedulerInv, NEW p \in Prompt, p \in entering, entering' = entering \ {p},
         NEW x \in {"host", "editor"}, fate' = [fate EXCEPT ![p] = x],
         UNCHANGED <<queue, generation, paused, lifecycleBusy, inflight, loop, compacting, streaming,
                     session, home, accepted, attempted>>
  PROVE  SchedulerInv'
<1> USE DEF SchedulerInv
<1>1. SchedulerTypeOK' BY DEF SchedulerTypeOK, Fate
<1>2. OnePlace(queue', inflight', entering', fate')
  BY LeaveOnePlace DEF PromptPlaces, SchedulerTypeOK
<1>3. TakenOnce' BY DEF TakenOnce, SchedulerTypeOK
<1>4. PromptPlaces' BY <1>2 DEF PromptPlaces
<1>5. QED BY <1>1, <1>3, <1>4

LEMMA BypassStep ==
  ASSUME SchedulerInv, NEW p \in Prompt, p \in entering, entering' = entering \ {p}, Bypass(p),
         UNCHANGED <<generation, lifecycleBusy, compacting, streaming, session>>
  PROVE  SchedulerInv'
<1> USE DEF SchedulerInv
<1> DEFINE d == [prompt |-> p, generation |-> generation, held |-> FALSE]
<1>1. /\ inflight' = inflight \cup {d} /\ home' = [home EXCEPT ![p] = session]
      /\ UNCHANGED <<queue, paused, loop, fate, accepted, attempted>>
  BY DEF Bypass, SendNow, Take
<1>2. d \in Dispatch /\ d.prompt = p /\ d.generation = generation /\ d.held = FALSE
  BY DEF Dispatch, SchedulerTypeOK
<1> HIDE DEF d
<1>3. SchedulerTypeOK' BY <1>1, <1>2, SchedulerAssumption DEF SchedulerTypeOK
<1>4. OnePlace(queue', inflight', entering', fate') BY <1>1, <1>2, SendNowOnePlace DEF PromptPlaces
<1>5. AtHome(queue', inflight', generation', home', session')
  <2>1. p \notin Range(queue) /\ \A e \in inflight : e.prompt # p BY DEF PromptPlaces, OnePlace
  <2>2. home'[p] = session /\ \A r \in Prompt : r # p => home'[r] = home[r]
    BY <1>1 DEF SchedulerTypeOK
  <2>3. Range(queue) \subseteq Prompt /\ \A e \in inflight : e.prompt \in Prompt
    BY Indices DEF SchedulerTypeOK, Dispatch
  <2>4. QED BY <1>1, <1>2, <2>1, <2>2, <2>3 DEF AtHome, PromptPlaces
<1>6. Waiting(inflight', loop'.at, attempted') BY <1>1, <1>2 DEF Waiting, PromptPlaces
<1>7. TakenOnce' BY <1>1 DEF TakenOnce
<1>8. PromptPlaces' BY <1>1, <1>4, <1>5, <1>6 DEF PromptPlaces
<1>9. QED BY <1>3, <1>7, <1>8

\* A prompt that is taken goes behind all that were taken before.
LEMMA TakenOnceStep ==
  ASSUME SchedulerInv, NEW p \in Prompt, p \in entering, entering' = entering \ {p},
         accepted' = Append(accepted, p), UNCHANGED fate
  PROVE  TakenOnce' /\ accepted' \in Seq(Prompt) /\ p \notin Range(accepted)
<1>1. accepted \in Seq(Prompt) /\ p \notin Range(accepted)
  BY DEF SchedulerInv, SchedulerTypeOK, TakenOnce
<1>2. /\ Append(accepted, p) \in Seq(Prompt)
      /\ \A i \in DOMAIN Append(accepted, p) :
           i \in Nat /\ \/ i \in DOMAIN accepted /\ i < Len(accepted) + 1
                           /\ Append(accepted, p)[i] = accepted[i]
                        \/ i = Len(accepted) + 1 /\ Append(accepted, p)[i] = p
      /\ Range(Append(accepted, p)) = Range(accepted) \cup {p}
  BY <1>1, AppendOne
<1>3. \A i \in DOMAIN accepted : accepted[i] # p BY <1>1 DEF Range
<1>4. fate[p] # "draft" BY DEF SchedulerInv, PromptPlaces, OnePlace
<1>5. \A k, l \in DOMAIN accepted' : accepted'[k] = accepted'[l] => k = l
  BY <1>2, <1>3 DEF SchedulerInv, TakenOnce
<1>6. \A r \in Range(accepted') : fate'[r] # "draft" /\ r \notin entering'
  BY <1>2, <1>4 DEF SchedulerInv, TakenOnce
<1>7. QED BY <1>1, <1>2, <1>5, <1>6 DEF TakenOnce

LEMMA HomeTaken ==
  ASSUME SchedulerInv, NEW p \in Prompt, p \in entering, Take(p)
  PROVE  /\ home' \in [Prompt -> 0..MaxRestores] /\ home'[p] = session
         /\ AtHome(queue, inflight, generation, home', session)
<1> USE DEF SchedulerInv
<1>1. p \notin Range(queue) /\ \A e \in inflight : e.prompt # p BY DEF PromptPlaces, OnePlace
<1>2. /\ home' \in [Prompt -> 0..MaxRestores] /\ home'[p] = session
      /\ \A r \in Prompt : r # p => home'[r] = home[r]
  BY DEF SchedulerTypeOK, Take
<1>3. Range(queue) \subseteq Prompt /\ \A e \in inflight : e.prompt \in Prompt
  BY Indices DEF SchedulerTypeOK, Dispatch
<1>4. QED BY <1>1, <1>2, <1>3 DEF AtHome, PromptPlaces

LEMMA HoldStep ==
  ASSUME SchedulerInv, NEW p \in Prompt, p \in entering, entering' = entering \ {p}, Hold(p),
         UNCHANGED <<generation, lifecycleBusy, compacting, streaming, session>>
  PROVE  SchedulerInv'
<1> USE DEF SchedulerInv
<1> DEFINE q == Append(queue, p)
<1>1. /\ Take(p) /\ accepted' = Append(accepted, p) /\ fate' = fate /\ paused' = FALSE
      /\ Flush(q, FALSE)
  BY DEF Hold, Taken
<1>2. q \in Seq(Prompt) /\ Range(q) = Range(queue) \cup {p} BY AppendOne DEF SchedulerTypeOK
<1>3. TakenOnce' /\ accepted' \in Seq(Prompt) /\ p \notin Range(accepted) BY <1>1, TakenOnceStep
<1>4. OnePlace(q, inflight, entering', fate')
  BY <1>1, HoldOnePlace DEF PromptPlaces, SchedulerTypeOK
<1>5. /\ home' \in [Prompt -> 0..MaxRestores] /\ home'[p] = session
      /\ AtHome(queue, inflight, generation, home', session)
  BY <1>1, HomeTaken
<1>6. KeepsOrder(q, accepted', attempted)
  BY <1>1, <1>3, TakeOrdered DEF PromptPlaces, SchedulerTypeOK
<1> HIDE DEF q
<1>7. AtHome(q, inflight, generation, home', session') BY <1>2, <1>5 DEF AtHome
<1>8. /\ queue' \in Seq(Prompt) /\ inflight' \subseteq Dispatch
      /\ \A d \in inflight' : d.generation <= generation'
      /\ loop' \in [at : {"idle", "waiting", "resumed"}, generation : 0..MaxRestores, ok : BOOLEAN]
      /\ attempted' \in Seq(Prompt) /\ PromptPlaces'
  BY <1>1, <1>2, <1>4, <1>6, <1>7, FlushKeeps DEF PromptPlaces
<1>9. SchedulerTypeOK' BY <1>1, <1>3, <1>5, <1>8 DEF SchedulerTypeOK
<1>10. QED BY <1>3, <1>8, <1>9

LEMMA SendDirectStep ==
  ASSUME SchedulerInv, NEW p \in Prompt, p \in entering, entering' = entering \ {p}, SendDirect(p),
         UNCHANGED <<generation, lifecycleBusy, compacting, streaming, session>>
  PROVE  SchedulerInv'
<1> USE DEF SchedulerInv
<1> DEFINE d == [prompt |-> p, generation |-> generation, held |-> FALSE]
           q == Append(queue, p)
<1>1. /\ Take(p) /\ accepted' = Append(accepted, p) /\ fate' = fate /\ queue = <<>>
      /\ inflight' = inflight \cup {d}
      /\ attempted' = IF p \in Range(attempted) THEN attempted ELSE Append(attempted, p)
      /\ UNCHANGED <<queue, paused, loop>>
  BY DEF SendDirect, Taken, SendNow, FirstSent
<1>2. d \in Dispatch /\ d.prompt = p /\ d.generation = generation /\ d.held = FALSE
  BY DEF Dispatch, SchedulerTypeOK
<1>3. TakenOnce' /\ accepted' \in Seq(Prompt) /\ p \notin Range(accepted) BY <1>1, TakenOnceStep
<1>4. /\ home' \in [Prompt -> 0..MaxRestores] /\ home'[p] = session
      /\ AtHome(queue, inflight, generation, home', session)
  BY <1>1, HomeTaken
<1> HIDE DEF d
<1>5. OnePlace(queue', inflight', entering', fate') BY <1>1, <1>2, SendNowOnePlace DEF PromptPlaces
<1>6. AtHome(queue', inflight', generation', home', session') BY <1>1, <1>2, <1>4 DEF AtHome
<1>7. KeepsOrder(queue', accepted', attempted')
  <2>1. q \in Seq(Prompt) /\ q # <<>> /\ Head(q) = p /\ Tail(q) = queue
    BY <1>1 DEF SchedulerTypeOK
  <2>2. KeepsOrder(q, accepted', attempted)
    BY <1>1, <1>3, TakeOrdered DEF PromptPlaces, SchedulerTypeOK
  <2>3. attempted \in Seq(Prompt) BY DEF SchedulerTypeOK
  <2> HIDE DEF q
  <2>4. KeepsOrder(Tail(q), accepted',
                IF Head(q) \in Range(attempted) THEN attempted ELSE Append(attempted, Head(q)))
    BY <2>1, <2>2, <2>3, SendOrdered
  <2>5. QED BY <1>1, <2>1, <2>4
<1>8. attempted' \in Seq(Prompt) /\ Range(attempted) \subseteq Range(attempted')
  <2>1. attempted \in Seq(Prompt) BY DEF SchedulerTypeOK
  <2>2. /\ Append(attempted, p) \in Seq(Prompt)
        /\ Range(Append(attempted, p)) = Range(attempted) \cup {p}
    BY <2>1, AppendOne
  <2>3. QED BY <1>1, <2>1, <2>2
<1>9. Waiting(inflight', loop'.at, attempted') BY <1>1, <1>2, <1>8 DEF Waiting, PromptPlaces
<1>10. SchedulerTypeOK' BY <1>1, <1>2, <1>3, <1>4, <1>8, SchedulerAssumption DEF SchedulerTypeOK
<1>11. PromptPlaces' BY <1>5, <1>6, <1>7, <1>9 DEF PromptPlaces
<1>12. QED BY <1>3, <1>10, <1>11

LEMMA DecideStep == ASSUME SchedulerInv, NEW p \in Prompt, Decide(p) PROVE SchedulerInv'
<1>1. /\ p \in entering /\ entering' = entering \ {p}
      /\ UNCHANGED <<generation, lifecycleBusy, compacting, streaming, session>>
  BY DEF Decide, store
<1>2. CASE Handled(p) BY <1>1, <1>2, LeaveStep DEF Handled
<1>3. CASE Bypass(p) BY <1>1, <1>3, BypassStep
<1>4. CASE RefusePrompt(p) BY <1>1, <1>4, LeaveStep DEF RefusePrompt
<1>5. CASE Hold(p) BY <1>1, <1>5, HoldStep
<1>6. CASE SendDirect(p) BY <1>1, <1>6, SendDirectStep
<1>7. QED BY <1>2, <1>3, <1>4, <1>5, <1>6 DEF Decide

-----------------------------------------------------------------------------
(***************************************************************************)
(* Answers.                                                                *)
(***************************************************************************)
LEMMA EndOnePlace ==
  ASSUME NEW q, NEW ds, NEW es, NEW fs \in [Prompt -> Fate], OnePlace(q, ds, es, fs),
         NEW d \in ds, d.prompt \in Prompt, NEW x, x # "scheduler"
  PROVE  OnePlace(q, ds \ {d}, es, [fs EXCEPT ![d.prompt] = x])
<1>1. {e.prompt : e \in ds \ {d}} = {e.prompt : e \in ds} \ {d.prompt} BY DEF OnePlace
<1>2. QED BY <1>1 DEF OnePlace

LEMMA RequeueOnePlace ==
  ASSUME NEW q \in Seq(Prompt), NEW ds, NEW es, NEW fs, OnePlace(q, ds, es, fs),
         NEW d \in ds, d.prompt \in Prompt
  PROVE  OnePlace(<<d.prompt>> \o q, ds \ {d}, es, fs)
<1> DEFINE r == <<d.prompt>> \o q
<1>1. /\ \A i \in DOMAIN r :
           i \in Nat /\ \/ i = 1 /\ r[i] = d.prompt
                        \/ i # 1 /\ i - 1 \in DOMAIN q /\ r[i] = q[i - 1]
      /\ Range(r) = Range(q) \cup {d.prompt}
  BY PutFirst
<1> HIDE DEF r
<1>2. {e.prompt : e \in ds \ {d}} = {e.prompt : e \in ds} \ {d.prompt} BY DEF OnePlace
<1>3. d.prompt \notin Range(q) /\ d.prompt \notin es BY DEF OnePlace
<1>4. \A i \in DOMAIN q : q[i] # d.prompt BY <1>3 DEF Range
<1>5. \A i, j \in DOMAIN r : r[i] = r[j] => i = j
  <2>1. SUFFICES ASSUME NEW i \in DOMAIN r, NEW j \in DOMAIN r, r[i] = r[j] PROVE i = j
    OBVIOUS
  <2>2. CASE i = 1 \/ j = 1 BY <1>1, <1>4, <2>1, <2>2
  <2>3. CASE i # 1 /\ j # 1
    <3>1. i - 1 = j - 1 BY <1>1, <2>1, <2>3 DEF OnePlace
    <3>2. QED BY <1>1, <3>1
  <2>4. QED BY <2>2, <2>3
<1>6. \A e \in ds \ {d} : e.prompt \notin Range(r) \cup es BY <1>1 DEF OnePlace
<1>7. \A p \in Prompt :
        fs[p] = "scheduler" <=> p \in Range(r) \cup es \cup {e.prompt : e \in ds \ {d}}
  BY <1>1, <1>2 DEF OnePlace
<1>8. QED BY <1>1, <1>3, <1>5, <1>6, <1>7 DEF OnePlace, r

\* What goes back to the head of the queue was sent before.
LEMMA RequeueOrdered ==
  ASSUME NEW q \in Seq(Prompt), NEW acc, NEW att, KeepsOrder(q, acc, att),
         NEW p \in Prompt, p \in Range(att)
  PROVE  KeepsOrder(<<p>> \o q, acc, att)
<1> DEFINE r == <<p>> \o q
<1>1. /\ \A i \in DOMAIN r :
           i \in Nat /\ \/ i = 1 /\ r[i] = p
                        \/ i # 1 /\ i - 1 \in DOMAIN q /\ r[i] = q[i - 1]
      /\ Range(r) = Range(q) \cup {p}
  BY PutFirst
<1>2. \A i \in DOMAIN q : i \in Nat BY Indices
<1> HIDE DEF r
<1>3. \A i, j \in DOMAIN r :
        i < j /\ r[i] \notin Range(att) /\ r[j] \notin Range(att) => Before(acc, r[i], r[j])
  <2>1. SUFFICES ASSUME NEW i \in DOMAIN r, NEW j \in DOMAIN r, i < j,
                        r[i] \notin Range(att), r[j] \notin Range(att)
                 PROVE  Before(acc, r[i], r[j])
    OBVIOUS
  <2>2. /\ i - 1 \in DOMAIN q /\ r[i] = q[i - 1] /\ j - 1 \in DOMAIN q /\ r[j] = q[j - 1]
        /\ i - 1 < j - 1
    BY <1>1, <2>1
  <2>3. QED BY <2>1, <2>2 DEF KeepsOrder
<1>4. QED BY <1>1, <1>3 DEF KeepsOrder, r

LEMMA EndWaiting ==
  ASSUME NEW ds, NEW at, NEW att, Waiting(ds, at, att), NEW d \in ds, d.held \in BOOLEAN
  PROVE  Waiting(ds \ {d}, IF d.held THEN "resumed" ELSE at, att)
BY DEF Waiting

LEMMA SettlePromptStep == ASSUME SchedulerInv, NEW p \in Prompt, Settle(p) PROVE SchedulerInv'
<1> USE DEF SchedulerInv
<1>1. PICK d \in inflight, outcome \in Outcome :
        /\ d.prompt = p /\ inflight' = inflight \ {d}
        /\ IF outcome = "ok" THEN Accepted(d) ELSE Failed(d, outcome)
        /\ UNCHANGED <<generation, lifecycleBusy, entering, compacting, streaming, session, home,
                       accepted, attempted>>
  BY DEF Settle, store
<1>2. /\ d \in Dispatch /\ d.held \in BOOLEAN /\ d.prompt \in Prompt /\ d.generation \in Nat
      /\ loop \in [at : {"idle", "waiting", "resumed"}, generation : 0..MaxRestores, ok : BOOLEAN]
  BY SchedulerAssumption DEF SchedulerTypeOK, Dispatch
<1>3. /\ loop' \in [at : {"idle", "waiting", "resumed"}, generation : 0..MaxRestores, ok : BOOLEAN]
      /\ loop'.at = IF d.held THEN "resumed" ELSE loop.at
  BY <1>1, <1>2 DEF Accepted, Failed, Returned
<1>4. Waiting(inflight', loop'.at, attempted')
  BY <1>1, <1>2, <1>3, EndWaiting DEF PromptPlaces
<1>5. CASE \E x \in {"pi", "unknown", "editor"} :
             fate' = [fate EXCEPT ![d.prompt] = x] /\ UNCHANGED <<queue, paused>>
  <2>1. PICK x \in {"pi", "unknown", "editor"} :
          fate' = [fate EXCEPT ![d.prompt] = x] /\ UNCHANGED <<queue, paused>>
    BY <1>5
  <2>2. SchedulerTypeOK' BY <1>1, <1>2, <1>3, <2>1 DEF SchedulerTypeOK, Fate
  <2>3. OnePlace(queue', inflight', entering', fate')
    BY <1>1, <1>2, <2>1, EndOnePlace DEF PromptPlaces, SchedulerTypeOK
  <2>4. TakenOnce' BY <1>1, <2>1 DEF TakenOnce, SchedulerTypeOK
  <2>5. AtHome(queue', inflight', generation', home', session')
    BY <1>1, <2>1 DEF AtHome, PromptPlaces
  <2>6. KeepsOrder(queue', accepted', attempted') BY <1>1, <2>1 DEF PromptPlaces
  <2>7. QED BY <1>1, <1>4, <2>2, <2>3, <2>4, <2>5, <2>6 DEF PromptPlaces
<1>6. CASE d.held /\ d.generation = generation /\ Requeue(d)
  <2>1. /\ queue' = <<d.prompt>> \o queue /\ paused' = TRUE /\ UNCHANGED fate
    BY <1>6 DEF Requeue
  <2>2. queue' \in Seq(Prompt) /\ Range(queue') = Range(queue) \cup {d.prompt}
    BY <1>2, <2>1, PutFirst DEF SchedulerTypeOK
  <2>3. SchedulerTypeOK' BY <1>1, <1>3, <2>1, <2>2 DEF SchedulerTypeOK
  <2>4. OnePlace(queue', inflight', entering', fate')
    BY <1>1, <1>2, <2>1, RequeueOnePlace DEF PromptPlaces, SchedulerTypeOK
  <2>5. TakenOnce' BY <1>1, <2>1 DEF TakenOnce
  <2>6. AtHome(queue', inflight', generation', home', session')
    BY <1>1, <1>6, <2>2 DEF AtHome, PromptPlaces
  <2>7. KeepsOrder(queue', accepted', attempted')
    <3>1. d.prompt \in Range(attempted) BY <1>6 DEF PromptPlaces, Waiting
    <3>2. QED BY <1>1, <1>2, <2>1, <3>1, RequeueOrdered DEF PromptPlaces, SchedulerTypeOK
  <2>8. QED BY <1>1, <1>4, <2>3, <2>4, <2>5, <2>6, <2>7 DEF PromptPlaces
<1>7. QED BY <1>1, <1>2, <1>5, <1>6 DEF Accepted, Failed, Report

-----------------------------------------------------------------------------
(***************************************************************************)
(* The loop, Pi's events, restores and session changes.                    *)
(***************************************************************************)
LEMMA FlushStep ==
  ASSUME SchedulerInv, NEW stopped, Flush(queue, stopped),
         lifecycleBusy' \in BOOLEAN, compacting' \in BOOLEAN, streaming' \in BOOLEAN,
         UNCHANGED <<generation, paused, entering, fate, session, home, accepted>>
  PROVE  SchedulerInv'
<1> USE DEF SchedulerInv
<1>1. /\ queue \in Seq(Prompt) /\ OnePlace(queue, inflight, entering', fate')
      /\ AtHome(queue, inflight, generation, home', session')
      /\ KeepsOrder(queue, accepted', attempted) /\ Waiting(inflight, loop.at, attempted)
  BY DEF PromptPlaces, SchedulerTypeOK
<1>2. /\ queue' \in Seq(Prompt) /\ inflight' \subseteq Dispatch
      /\ \A d \in inflight' : d.generation <= generation'
      /\ loop' \in [at : {"idle", "waiting", "resumed"}, generation : 0..MaxRestores, ok : BOOLEAN]
      /\ attempted' \in Seq(Prompt) /\ PromptPlaces'
  BY <1>1, FlushKeeps
<1>3. SchedulerTypeOK' BY <1>2 DEF SchedulerTypeOK
<1>4. TakenOnce' BY DEF TakenOnce
<1>5. QED BY <1>2, <1>3, <1>4

LEMMA ResumeStep == ASSUME SchedulerInv, Resume PROVE SchedulerInv'
<1> USE DEF SchedulerInv
<1>1. /\ loop.at = "resumed"
      /\ UNCHANGED <<generation, paused, lifecycleBusy, entering, fate, compacting, streaming,
                     session, home, accepted>>
  BY DEF Resume, store
<1>2. CASE queue # <<>> /\ SendHead(queue)
  <2>1. /\ queue \in Seq(Prompt) /\ OnePlace(queue, inflight, entering', fate')
        /\ AtHome(queue, inflight, generation, home', session')
        /\ KeepsOrder(queue, accepted', attempted) /\ Waiting(inflight, loop.at, attempted)
    BY <1>1 DEF PromptPlaces, SchedulerTypeOK
  <2>2. /\ queue' \in Seq(Prompt) /\ inflight' \subseteq Dispatch
        /\ \A d \in inflight' : d.generation <= generation'
        /\ loop' \in [at : {"idle", "waiting", "resumed"}, generation : 0..MaxRestores, ok : BOOLEAN]
        /\ attempted' \in Seq(Prompt) /\ PromptPlaces'
    BY <1>1, <1>2, <2>1, SendHeadKeeps
  <2>3. SchedulerTypeOK' BY <1>1, <2>2 DEF SchedulerTypeOK
  <2>4. TakenOnce' BY <1>1 DEF TakenOnce
  <2>5. QED BY <1>1, <2>2, <2>3, <2>4
<1>3. CASE loop' = [loop EXCEPT !.at = "idle", !.ok = FALSE] /\ UNCHANGED <<queue, inflight, attempted>>
  <2>1. /\ loop' \in [at : {"idle", "waiting", "resumed"}, generation : 0..MaxRestores, ok : BOOLEAN]
        /\ loop'.at = "idle"
    BY <1>3 DEF SchedulerTypeOK
  <2>2. SchedulerTypeOK' BY <1>1, <1>3, <2>1 DEF SchedulerTypeOK
  <2>3. Waiting(inflight', loop'.at, attempted') BY <1>1, <1>3, <2>1 DEF Waiting, PromptPlaces
  <2>4. PromptPlaces' BY <1>1, <1>3, <2>3 DEF PromptPlaces
  <2>5. TakenOnce' BY <1>1 DEF TakenOnce
  <2>6. QED BY <1>1, <2>2, <2>4, <2>5
<1>4. QED BY <1>2, <1>3 DEF Resume

LEMMA EventStep ==
  ASSUME SchedulerInv, AgentStart \/ AgentSettled \/ CompactionStart \/ CompactionEnd
  PROVE  SchedulerInv'
<1>1. lifecycleBusy \in BOOLEAN /\ compacting \in BOOLEAN /\ streaming \in BOOLEAN
  BY DEF SchedulerInv, SchedulerTypeOK
<1>2. ASSUME lifecycleBusy' \in BOOLEAN, compacting' \in BOOLEAN, streaming' \in BOOLEAN,
             UNCHANGED <<queue, inflight, loop, attempted, generation, paused, entering, fate,
                         session, home, accepted>>
      PROVE  SchedulerInv'
  BY <1>2 DEF SchedulerInv, SchedulerTypeOK, TakenOnce, PromptPlaces
<1>3. CASE AgentStart BY <1>1, <1>2, <1>3 DEF AgentStart, Kept
<1>4. CASE CompactionStart BY <1>1, <1>2, <1>4 DEF CompactionStart, Kept
<1>5. CASE AgentSettled BY <1>1, <1>5, FlushStep DEF AgentSettled, Kept
<1>6. CASE CompactionEnd BY <1>1, <1>6, FlushStep DEF CompactionEnd, Kept
<1>7. QED BY <1>3, <1>4, <1>5, <1>6

\* After a restore no answer of an earlier generation puts a prompt back.
LEMMA RestoredStep ==
  ASSUME SchedulerInv, RestoreAll \/ RebindSession PROVE SchedulerInv'
<1> USE DEF SchedulerInv
<1>1. /\ generation < MaxRestores /\ generation' = generation + 1 /\ queue' = <<>> /\ paused' = FALSE
      /\ fate' = [p \in Prompt |-> IF p \in Range(queue) THEN "editor" ELSE fate[p]]
      /\ UNCHANGED <<inflight, loop, entering, home, accepted, attempted>>
      /\ session' \in {session, session + 1}
      /\ lifecycleBusy' \in BOOLEAN /\ compacting' \in BOOLEAN /\ streaming' \in BOOLEAN
  BY DEF RestoreAll, RebindSession, Restored, store, SchedulerTypeOK
<1>2. /\ generation \in Nat /\ session \in Nat /\ MaxRestores \in Nat
      /\ generation' \in 0..MaxRestores /\ session' \in 0..MaxRestores
      /\ session' <= generation'
  BY <1>1, SchedulerAssumption DEF SchedulerTypeOK
<1>3. \A d \in inflight : d.generation \in Nat /\ d.generation < generation'
  BY <1>1, <1>2 DEF SchedulerTypeOK, Dispatch
<1>4. queue' \in Seq(Prompt) /\ Range(queue') = {} /\ DOMAIN queue' = {}
  BY <1>1 DEF Range
<1>5. SchedulerTypeOK'
  <2>1. fate' \in [Prompt -> Fate] BY <1>1 DEF SchedulerTypeOK, Fate
  <2>2. \A d \in inflight' : d.generation <= generation' BY <1>1, <1>2, <1>3
  <2>3. QED BY <1>1, <1>2, <1>4, <2>1, <2>2 DEF SchedulerTypeOK
<1>6. OnePlace(queue', inflight', entering', fate') BY <1>1, <1>4 DEF OnePlace, PromptPlaces
<1>7. AtHome(queue', inflight', generation', home', session') BY <1>1, <1>2, <1>3, <1>4 DEF AtHome
<1>8. KeepsOrder(queue', accepted', attempted') BY <1>1, <1>4 DEF KeepsOrder, PromptPlaces
<1>9. Waiting(inflight', loop'.at, attempted') BY <1>1 DEF PromptPlaces
<1>10. TakenOnce'
  <2>1. Range(accepted) \subseteq Prompt BY Indices DEF SchedulerTypeOK
  <2>2. QED BY <1>1, <2>1 DEF TakenOnce
<1>11. QED BY <1>2, <1>5, <1>6, <1>7, <1>8, <1>9, <1>10 DEF PromptPlaces

LEMMA SchedulerInitial == SchedulerInit => SchedulerInv
<1> SUFFICES ASSUME SchedulerInit PROVE SchedulerInv OBVIOUS
<1>1. /\ queue = <<>> /\ accepted = <<>> /\ attempted = <<>> /\ <<>> \in Seq(Prompt)
      /\ DOMAIN queue = {} /\ DOMAIN accepted = {} /\ DOMAIN attempted = {}
      /\ Range(queue) = {} /\ Range(accepted) = {} /\ Range(attempted) = {}
  BY DEF SchedulerInit, Range
<1>2. SchedulerTypeOK /\ session <= generation
  <2>1. 0 \in 0..MaxRestores BY SchedulerAssumption
  <2>2. /\ generation \in 0..MaxRestores /\ session \in 0..MaxRestores /\ session <= generation
        /\ home \in [Prompt -> 0..MaxRestores]
    BY <2>1 DEF SchedulerInit
  <2>3. loop \in [at : {"idle", "waiting", "resumed"}, generation : 0..MaxRestores, ok : BOOLEAN]
    BY <2>1 DEF SchedulerInit
  <2>4. fate \in [Prompt -> Fate] BY DEF SchedulerInit, Fate
  <2>5. /\ paused \in BOOLEAN /\ lifecycleBusy \in BOOLEAN /\ compacting \in BOOLEAN
        /\ streaming \in BOOLEAN /\ entering \subseteq Prompt /\ inflight = {}
    BY DEF SchedulerInit
  <2>6. QED BY <1>1, <2>2, <2>3, <2>4, <2>5 DEF SchedulerTypeOK
<1>3. OnePlace(queue, inflight, entering, fate) BY <1>1 DEF SchedulerInit, OnePlace
<1>4. AtHome(queue, inflight, generation, home, session) BY <1>1 DEF SchedulerInit, AtHome
<1>5. KeepsOrder(queue, accepted, attempted) BY <1>1 DEF KeepsOrder
<1>6. Waiting(inflight, loop.at, attempted) BY DEF SchedulerInit, Waiting
<1>7. TakenOnce BY <1>1 DEF TakenOnce
<1>8. QED BY <1>2, <1>3, <1>4, <1>5, <1>6, <1>7 DEF SchedulerInv, PromptPlaces

LEMMA SchedulerStep == ASSUME SchedulerInv, [SchedulerNext]_schedulerVars PROVE SchedulerInv'
<1>1. CASE Resume BY <1>1, ResumeStep
<1>2. ASSUME NEW p \in Prompt, Submit(p) PROVE SchedulerInv' BY <1>2, SubmitStep
<1>3. ASSUME NEW p \in Prompt, Decide(p) PROVE SchedulerInv' BY <1>3, DecideStep
<1>4. ASSUME NEW p \in Prompt, Settle(p) PROVE SchedulerInv' BY <1>4, SettlePromptStep
<1>5. CASE AgentStart \/ AgentSettled \/ CompactionStart \/ CompactionEnd BY <1>5, EventStep
<1>6. CASE RestoreAll \/ RebindSession BY <1>6, RestoredStep
<1>7. CASE UNCHANGED schedulerVars
  BY <1>7 DEF schedulerVars, store, SchedulerInv, SchedulerTypeOK, TakenOnce, PromptPlaces
<1>8. QED BY <1>1, <1>2, <1>3, <1>4, <1>5, <1>6, <1>7 DEF SchedulerNext

-----------------------------------------------------------------------------
(***************************************************************************)
(* The theorems.                                                           *)
(***************************************************************************)
\* Every variable of the scheduler keeps its type, and no dispatch is younger than it.
THEOREM SchedulerTypes == SchedulerSpec => []SchedulerTypeOK
<1>1. SchedulerInv => SchedulerTypeOK BY DEF SchedulerInv
<1>2. QED BY <1>1, SchedulerInitial, SchedulerStep, PTL DEF SchedulerSpec

LEMMA CountOne ==
  ASSUME NEW S, NEW x \in S, \A y \in S : y = x PROVE Cardinality(S) = 1
<1>1. S = {x} OBVIOUS
<1>2. QED BY <1>1, FS_Singleton

LEMMA CountNone == ASSUME NEW S, S = {} PROVE Cardinality(S) = 0
BY FS_EmptySet

LEMMA InvVanishes == SchedulerInv => NothingVanishes
<1> SUFFICES ASSUME SchedulerInv PROVE NothingVanishes OBVIOUS
<1> USE DEF SchedulerInv, PromptPlaces
<1>1. ASSUME NEW p \in Prompt, fate[p] = "scheduler"
      PROVE  Cardinality({i \in DOMAIN queue : queue[i] = p})
               + Cardinality({d \in inflight : d.prompt = p})
               + (IF p \in entering THEN 1 ELSE 0) = 1
  <2> DEFINE I == {i \in DOMAIN queue : queue[i] = p}
             D == {d \in inflight : d.prompt = p}
  <2>1. CASE p \in Range(queue)
    <3>1. PICK i \in DOMAIN queue : queue[i] = p BY <2>1 DEF Range
    <3>2. i \in I /\ \A j \in I : j = i BY <3>1 DEF OnePlace
    <3>3. D = {} /\ p \notin entering BY <2>1 DEF OnePlace
    <3>4. Cardinality(I) = 1 /\ Cardinality(D) = 0 BY <3>2, <3>3, CountOne, CountNone
    <3>5. QED BY <3>3, <3>4
  <2>2. CASE p \in entering
    <3>1. I = {} BY <2>2 DEF OnePlace, Range
    <3>2. D = {} BY <2>2 DEF OnePlace
    <3>3. Cardinality(I) = 0 /\ Cardinality(D) = 0 BY <3>1, <3>2, CountNone
    <3>4. QED BY <2>2, <3>3
  <2>3. CASE p \in {d.prompt : d \in inflight}
    <3>1. PICK d \in inflight : d.prompt = p BY <2>3
    <3>2. d \in D /\ \A e \in D : e = d BY <3>1 DEF OnePlace
    <3>3. I = {} BY <3>1 DEF OnePlace, Range
    <3>4. p \notin entering BY <3>1 DEF OnePlace
    <3>5. Cardinality(I) = 0 /\ Cardinality(D) = 1 BY <3>2, <3>3, CountOne, CountNone
    <3>6. QED BY <3>4, <3>5
  <2>4. QED BY <1>1, <2>1, <2>2, <2>3 DEF OnePlace
<1>2. \A p \in Prompt : fate[p] # "scheduler" =>
        p \notin Range(queue) \cup entering \cup {d.prompt : d \in inflight}
  BY DEF OnePlace
<1>3. \A p \in Range(queue) : home[p] = session BY DEF AtHome
<1>4. QED BY <1>1, <1>2, <1>3 DEF NothingVanishes

\* Whatever is submitted, restored, rebound, refused or lost: a prompt the user sent
\* is in exactly one place until it ends, and only this session's prompts are held.
THEOREM NothingVanishesHolds == SchedulerSpec => []NothingVanishes
BY InvVanishes, SchedulerInitial, SchedulerStep, PTL DEF SchedulerSpec

LEMMA InvInOrder == SchedulerInv => FirstAttemptsInOrder
<1> SUFFICES ASSUME SchedulerInv PROVE FirstAttemptsInOrder OBVIOUS
<1> USE DEF SchedulerInv, PromptPlaces
<1>1. Cardinality({d \in inflight : d.held}) = IF loop.at = "waiting" THEN 1 ELSE 0
  <2> DEFINE H == {d \in inflight : d.held}
  <2>1. CASE loop.at = "waiting"
    <3>1. PICK d \in inflight : d.held BY <2>1 DEF Waiting
    <3>2. d \in H /\ \A e \in H : e = d BY <3>1 DEF Waiting
    <3>3. QED BY <2>1, <3>2, CountOne
  <2>2. CASE loop.at # "waiting"
    <3>1. H = {} BY <2>2 DEF Waiting
    <3>2. QED BY <2>2, <3>1, CountNone
  <2>3. QED BY <2>1, <2>2
<1>2. \A i \in DOMAIN attempted : \E k \in DOMAIN accepted : accepted[k] = attempted[i]
  BY DEF KeepsOrder, Range
<1> DEFINE f == [i \in DOMAIN attempted |-> CHOOSE k \in DOMAIN accepted : accepted[k] = attempted[i]]
<1>3. /\ f \in [DOMAIN attempted -> DOMAIN accepted]
      /\ \A i \in DOMAIN attempted : accepted[f[i]] = attempted[i]
  BY <1>2
<1> HIDE DEF f
<1>4. \A i, j \in DOMAIN attempted : i < j => f[i] < f[j]
  <2>1. SUFFICES ASSUME NEW i \in DOMAIN attempted, NEW j \in DOMAIN attempted, i < j
                 PROVE  f[i] < f[j]
    OBVIOUS
  <2>2. Before(accepted, attempted[i], attempted[j]) BY <2>1 DEF KeepsOrder
  <2>3. QED BY <1>3, <2>2 DEF Before
<1>5. QED BY <1>1, <1>3, <1>4 DEF FirstAttemptsInOrder

\* Prompts are first sent in the order they were taken, held ones one at a time.
THEOREM InOrderHolds == SchedulerSpec => []FirstAttemptsInOrder
BY InvInOrder, SchedulerInitial, SchedulerStep, PTL DEF SchedulerSpec

-----------------------------------------------------------------------------
(***************************************************************************)
(* The invariant.                                                          *)
(***************************************************************************)
\* The lines p the host has not read, when rd events of each session were read, wr
\* were written, and the child has session ch open: every event between the two is
\* there, in order, and the answer, of which there is one at most, says how many
\* came before it.  Only an operation that has opened ch may have another session's
\* events before it.
Numbered(p, rd, wr) ==
  /\ \A s \in Session : rd[s] <= wr[s]
  /\ \A i \in DOMAIN p : /\ rd[p[i].session] <= p[i].n /\ p[i].n <= wr[p[i].session]
                         /\ ~IsAnswer(p[i]) => rd[p[i].session] < p[i].n

Ordered(p) ==
  \A i, j \in DOMAIN p : i < j /\ p[i].session = p[j].session =>
    /\ p[i].n <= p[j].n
    /\ ~IsAnswer(p[j]) => p[i].n < p[j].n

Carries(p, s, m) ==
  \E i \in DOMAIN p : p[i].what = "event" /\ p[i].session = s /\ p[i].n = m

Complete(p, rd, wr) ==
  \A s \in Session, m \in Nat : rd[s] < m /\ m <= wr[s] => Carries(p, s, m)

OneAnswer(p, ch) ==
  /\ \A i, j \in DOMAIN p : IsAnswer(p[i]) /\ IsAnswer(p[j]) => i = j
  /\ \A i \in DOMAIN p : IsAnswer(p[i]) => p[i].session = ch
  /\ \A i \in DOMAIN p : p[i].session # ch => \E j \in DOMAIN p : i < j /\ p[j].what = "ok"

Unanswered(p) == \A i \in DOMAIN p : ~IsAnswer(p[i])

PipeInv(p, rd, wr, ch) ==
  Numbered(p, rd, wr) /\ Ordered(p) /\ Complete(p, rd, wr) /\ OneAnswer(p, ch)

\* What the call under way has to do with the pipe and the runtime.
CallInv ==
  /\ call.pc \notin Asking \/ call.answer # None => \A i \in DOMAIN pipe : ~IsAnswer(pipe[i])
  /\ call.pc # "operate" =>
       \A i \in DOMAIN pipe : pipe[i].session = child /\ pipe[i].what # "cancelled"
  /\ call.answer # None => call.pc \in Asking /\ IsAnswer(call.answer)
  /\ call.answer.what = "cancelled" => call.pc = "operate"
  /\ call.answer.what = "ok" => call.answer.session = child /\ call.answer.n <= read[child]
  /\ call.pc \notin {"state", "messages"} => ~call.boot /\ call.pass = 1

PhaseInv ==
  /\ buffer.active <=> \/ call.pc \in {"operate", "state", "messages", "over"}
                       \/ call.pc = "idle" /\ retrying
  /\ retrying => call.pc \in {"idle", "state", "messages"} /\ ~call.boot
  /\ runtime.ready <=> ~call.boot /\ call.pc # "over"
  /\ runtime.depth = IF buffer.active /\ runtime.ready THEN 1 ELSE 0
  /\ runtime.blocked <=> buffer.active /\ runtime.ready

\* The events of s after the a-th, up to the b-th.
Span(s, a, b) == [i \in 1..(b - a) |-> <<s, a + i>>]

\* Everybody has what the child's session had when r of its events were read.
Shows(r) ==
  /\ view.owner = child /\ view.shown = Upto(child, r) /\ view.state = <<child, r>>
  /\ base[child] <= r /\ heard = Span(child, base[child], r)

\* No operation has opened another session, as far as anyone can tell.
Intact ==
  \/ call.answer = None /\ \A i \in DOMAIN pipe : ~IsAnswer(pipe[i])
  \/ call.answer.what = "cancelled"
  \/ \E i \in DOMAIN pipe : pipe[i].what = "cancelled"

OperateInv ==
  call.pc = "operate" /\ Intact =>
    LET r == read[child] - Len(buffer.events) IN
    Shows(r) /\ buffer.events = Span(child, r, read[child])

\* A replacement that was detached, and is read or waits for the timer.
Hydrating == buffer.active /\ call.pc \in {"idle", "state", "messages"}

\* How many events of the session had been read at the barrier.
Mark == base[child] + (buffer.replay - buffer.failure)

HydrationInv ==
  Hydrating =>
    /\ heard = <<>> /\ view.shown = {}
    /\ buffer.failure <= buffer.replay /\ buffer.replay <= Len(buffer.events)
    /\ base[child] <= read[child]
    /\ Len(buffer.events) - buffer.failure = read[child] - base[child]
    /\ \A i \in 1..(read[child] - base[child]) :
          buffer.events[buffer.failure + i] = <<child, base[child] + i>>
    /\ call.pass > 1 \/ call.pc = "messages" => view.owner = child
    /\ call.pc = "messages" => \E k \in Nat : /\ view.state = <<child, k>>
                                              /\ Mark <= k /\ k <= read[child]
    /\ call.answer.what = "ok" => Mark <= call.answer.n

Unmixed == \A e \in view.shown \cup ToSet(heard) : e[1] = view.owner

SettledInv == ~buffer.active => Shows(read[child])

IInv ==
  /\ TypeOK /\ PipeInv(pipe, read, written, child) /\ CallInv /\ PhaseInv
  /\ SettledInv /\ OperateInv /\ HydrationInv /\ Unmixed

(***************************************************************************)
(* Sequences.                                                              *)
(***************************************************************************)
LEMMA Places ==
  ASSUME NEW S, NEW s \in Seq(S)
  PROVE  /\ DOMAIN s = 1..Len(s) /\ Len(s) \in Nat
         /\ \A i \in 1..Len(s) : s[i] \in S
         /\ s = <<>> <=> Len(s) = 0
  BY LenProperties, EmptySeq, ElementOfSeq

LEMMA Spans ==
  ASSUME NEW s \in Session, NEW a \in Nat, NEW b \in Nat, a <= b
  PROVE  /\ Span(s, a, b) \in Seq(Event) /\ Len(Span(s, a, b)) = b - a
         /\ \A i \in 1..(b - a) : Span(s, a, b)[i] = <<s, a + i>>
         /\ a < b => Last(Span(s, a, b)) = <<s, b>>
<1> DEFINE q == Span(s, a, b)
<1>1. b - a \in Nat /\ \A i \in 1..(b - a) : <<s, a + i>> \in Event
  BY DEF Event
<1>2. q \in [1..(b - a) -> Event] /\ \A i \in 1..(b - a) : q[i] = <<s, a + i>>
  BY <1>1 DEF Span
<1>3. q \in Seq(Event)
  BY <1>1, <1>2
<1>4. Len(q) = b - a
  BY <1>1, <1>2, <1>3, Places
<1>5. a < b => Last(q) = <<s, b>>
  <2>1. a < b => b - a \in 1..(b - a) /\ a + (b - a) = b
    OBVIOUS
  <2> QED BY <2>1, <1>2, <1>4 DEF Last
<1> QED BY <1>2, <1>3, <1>4, <1>5

\* A sequence that is a span, element by element, is that span.
LEMMA IsSpan ==
  ASSUME NEW s \in Session, NEW a \in Nat, NEW b \in Nat, a <= b,
         NEW q \in Seq(Event), Len(q) = b - a,
         \A i \in 1..(b - a) : q[i] = <<s, a + i>>
  PROVE  q = Span(s, a, b)
<1> DEFINE r == Span(s, a, b)
<1>1. r \in Seq(Event) /\ Len(r) = b - a /\ \A i \in 1..(b - a) : r[i] = <<s, a + i>>
  BY Spans
<1> HIDE DEF r
<1>2. Len(q) = Len(r) /\ \A i \in 1..Len(q) : q[i] = r[i]
  BY <1>1
<1>3. q = r
  BY <1>1, <1>2, SeqEqual
<1> QED BY <1>3 DEF r

LEMMA NoSpan ==
  ASSUME NEW s \in Session, NEW a \in Nat
  PROVE  Span(s, a, a) = <<>>
<1>1. Span(s, a, a) \in Seq(Event) /\ Len(Span(s, a, a)) = a - a
  BY Spans
<1> QED BY <1>1, Places

LEMMA SpanGrows ==
  ASSUME NEW s \in Session, NEW a \in Nat, NEW b \in Nat, a <= b
  PROVE  Append(Span(s, a, b), <<s, b + 1>>) = Span(s, a, b + 1)
<1> DEFINE r == Span(s, a, b)
           e == <<s, b + 1>>
           q == Append(r, e)
<1>1. r \in Seq(Event) /\ Len(r) = b - a /\ \A i \in 1..(b - a) : r[i] = <<s, a + i>>
  BY Spans
<1>2. e \in Event
  BY DEF Event
<1> HIDE DEF r, e
<1>7. q \in Seq(Event) /\ Len(q) = Len(r) + 1 /\ q[Len(r) + 1] = e
      /\ \A i \in 1..Len(r) : q[i] = r[i]
  BY <1>1, <1>2, AppendProperties
<1> HIDE DEF q
<1>3. q \in Seq(Event) /\ Len(q) = (b - a) + 1 /\ q[(b - a) + 1] = <<s, b + 1>>
      /\ \A i \in 1..(b - a) : q[i] = <<s, a + i>>
  BY <1>1, <1>7 DEF e
<1>4. Len(q) = (b + 1) - a
  BY <1>3
<1>5. ASSUME NEW i \in 1..((b + 1) - a) PROVE q[i] = <<s, a + i>>
  <2>1. CASE i \in 1..(b - a)
    BY <2>1, <1>3
  <2>2. CASE i = (b - a) + 1
    <3>1. a + i = b + 1
      BY <2>2
    <3> QED BY <3>1, <2>2, <1>3
  <2> QED BY <2>1, <2>2
<1>6. q = Span(s, a, b + 1)
  BY <1>3, <1>4, <1>5, IsSpan, b + 1 \in Nat, a <= b + 1
<1> QED BY <1>6 DEF q, r, e

LEMMA SpansMeet ==
  ASSUME NEW s \in Session, NEW a \in Nat, NEW b \in Nat, NEW c \in Nat, a <= b, b <= c
  PROVE  Span(s, a, b) \o Span(s, b, c) = Span(s, a, c)
<1> DEFINE u == Span(s, a, b)
           v == Span(s, b, c)
<1>1. /\ u \in Seq(Event) /\ Len(u) = b - a /\ \A i \in 1..(b - a) : u[i] = <<s, a + i>>
      /\ v \in Seq(Event) /\ Len(v) = c - b /\ \A i \in 1..(c - b) : v[i] = <<s, b + i>>
  BY Spans
<1> HIDE DEF u, v
<1>6. /\ u \o v \in Seq(Event) /\ Len(u \o v) = Len(u) + Len(v)
      /\ \A i \in 1..(Len(u) + Len(v)) :
           (u \o v)[i] = IF i <= Len(u) THEN u[i] ELSE v[i - Len(u)]
  BY <1>1, ConcatProperties
<1>2. /\ u \o v \in Seq(Event) /\ Len(u \o v) = (b - a) + (c - b)
      /\ \A i \in 1..((b - a) + (c - b)) :
           (u \o v)[i] = IF i <= b - a THEN u[i] ELSE v[i - (b - a)]
  BY <1>1, <1>6
<1>3. (b - a) + (c - b) = c - a /\ a <= c
  OBVIOUS
<1>4. ASSUME NEW i \in 1..(c - a) PROVE (u \o v)[i] = <<s, a + i>>
  <2>1. CASE i <= b - a
    BY <2>1, <1>1, <1>2, <1>3
  <2>2. CASE ~(i <= b - a)
    <3>1. i - (b - a) \in 1..(c - b) /\ b + (i - (b - a)) = a + i
      BY <2>2
    <3> QED BY <3>1, <2>2, <1>1, <1>2, <1>3
  <2> QED BY <2>1, <2>2
<1>5. u \o v = Span(s, a, c)
  BY <1>2, <1>3, <1>4, IsSpan
<1> QED BY <1>5 DEF u, v

\* A transcript of the first n events, and all after the a-th, is one of b events.
LEMMA Completes ==
  ASSUME NEW s \in Session, NEW a \in Nat, NEW b \in Nat, NEW n \in Nat,
         a <= n, n <= b
  PROVE  Upto(s, n) \cup ToSet(Span(s, a, b)) = Upto(s, b)
<1> DEFINE q == Span(s, a, b)
<1>1. /\ q \in Seq(Event) /\ Len(q) = b - a /\ \A i \in 1..(b - a) : q[i] = <<s, a + i>>
  BY Spans, a <= b
<1>2. DOMAIN q = 1..(b - a)
  BY <1>1, Places
<1> HIDE DEF q
<1>3. ASSUME NEW e \in Upto(s, n) PROVE e \in Upto(s, b)
  BY DEF Upto
<1>4. ASSUME NEW e \in ToSet(q) PROVE e \in Upto(s, b)
  <2>1. PICK i \in 1..(b - a) : e = <<s, a + i>>
    BY <1>1, <1>2 DEF ToSet
  <2>2. a + i \in 1..b
    OBVIOUS
  <2> QED BY <2>1, <2>2 DEF Upto
<1>5. ASSUME NEW e \in Upto(s, b) PROVE e \in Upto(s, n) \cup ToSet(q)
  <2>1. PICK i \in 1..b : e = <<s, i>>
    BY DEF Upto
  <2>2. CASE i <= n
    BY <2>1, <2>2 DEF Upto
  <2>3. CASE n < i
    <3>1. i - a \in 1..(b - a) /\ a + (i - a) = i
      BY <2>3
    <3>2. q[i - a] = e
      BY <3>1, <2>1, <1>1
    <3> QED BY <3>1, <3>2, <1>2 DEF ToSet
  <2> QED BY <2>2, <2>3
<1> QED BY <1>3, <1>4, <1>5 DEF q

\* After its k-th element, q has the events of s after the a-th.
Follows(q, k, s, a, b) == \A i \in 1..(b - a) : q[k + i] = <<s, a + i>>

\* The elements of q after the m-th, up to the n-th.
Piece(q, m, n) == SubSeq(q, m + 1, n)

\* A piece of such a tail is a run of events.
LEMMA Cut ==
  ASSUME NEW s \in Session, NEW a \in Nat, NEW b \in Nat, NEW c \in Nat, NEW d \in Nat,
         NEW q \in Seq(Event), NEW k \in Nat, NEW m \in Nat, NEW n \in Nat,
         k <= m, m <= n, n <= Len(q), c = a + (m - k), d = a + (n - k), d <= b,
         Follows(q, k, s, a, b)
  PROVE  Piece(q, m, n) = Span(s, c, d)
<1> DEFINE r == Piece(q, m, n)
<1>1. Len(q) \in Nat /\ \A i \in 1..Len(q) : q[i] \in Event
  BY Places
<1>2. c <= d /\ d - c = n - m /\ n - (m + 1) + 1 = n - m
  OBVIOUS
<1>3. /\ r \in Seq(Event)
      /\ Len(r) = IF m + 1 <= n THEN n - (m + 1) + 1 ELSE 0
      /\ \A i \in 1..(n - (m + 1) + 1) : r[i] = q[(m + 1) + i - 1]
  <2>1. \A i \in (m + 1)..n : q[i] \in Event
    BY <1>1
  <2> QED BY <2>1, SubSeqProperties DEF Piece
<1> HIDE DEF r
<1>4. Len(r) = d - c
  BY <1>2, <1>3
<1>5. ASSUME NEW i \in 1..(d - c) PROVE r[i] = <<s, c + i>>
  <2>1. (m + 1) + i - 1 = k + ((m - k) + i) /\ (m - k) + i \in 1..(b - a)
        /\ a + ((m - k) + i) = c + i
    BY <1>2
  <2>2. q[k + ((m - k) + i)] = <<s, a + ((m - k) + i)>>
    BY <2>1 DEF Follows
  <2> QED BY <2>1, <2>2, <1>2, <1>3
<1>6. r = Span(s, c, d)
  BY <1>2, <1>3, <1>4, <1>5, IsSpan
<1> QED BY <1>6 DEF r

\* The whole tail is the events before its cut and those after it.
IsCut(q, k, m, n, s, a, c, b) ==
  /\ k <= m /\ m <= n /\ n = Len(q) /\ n - k = b - a /\ c = a + (m - k)
  /\ Follows(q, k, s, a, b)

LEMMA Halves ==
  ASSUME NEW s \in Session, NEW a \in Nat, NEW b \in Nat, NEW c \in Nat,
         NEW q \in Seq(Event), NEW k \in Nat, NEW m \in Nat, NEW n \in Nat,
         IsCut(q, k, m, n, s, a, c, b)
  PROVE  Piece(q, k, m) = Span(s, a, c) /\ Piece(q, m, n) = Span(s, c, b)
<1>0. k <= m /\ m <= n /\ n = Len(q) /\ n - k = b - a /\ c = a + (m - k)
      /\ Follows(q, k, s, a, b)
  BY DEF IsCut
<1>1. /\ k <= k /\ m <= Len(q) /\ a = a + (k - k) /\ c = a + (m - k) /\ c <= b
      /\ k <= m /\ Follows(q, k, s, a, b)
  BY <1>0
<1>2. n <= Len(q) /\ b = a + (n - k) /\ b <= b /\ m <= n
  BY <1>0
<1>3. Piece(q, k, m) = Span(s, a, c)
  BY <1>1, Cut
<1>4. Piece(q, m, n) = Span(s, c, b)
  BY <1>1, <1>2, Cut
<1> QED BY <1>3, <1>4

(***************************************************************************)
(* The pipe.                                                               *)
(***************************************************************************)
LEMMA Lines ==
  ASSUME NEW p \in Seq(Line)
  PROVE  /\ DOMAIN p = 1..Len(p) /\ Len(p) \in Nat
         /\ \A i \in 1..Len(p) : /\ p[i] \in Line /\ p[i].session \in Session /\ p[i].n \in Nat
                                 /\ p[i].what \in {"event", "ok", "cancelled", "error"}
<1>1. DOMAIN p = 1..Len(p) /\ Len(p) \in Nat /\ \A i \in 1..Len(p) : p[i] \in Line
  BY Places
<1> QED BY <1>1 DEF Line

LEMMA Written ==
  ASSUME NEW p \in Seq(Line), NEW l \in Line
  PROVE  LET q == Append(p, l) IN
         /\ q \in Seq(Line) /\ DOMAIN q = 1..(Len(p) + 1) /\ q[Len(p) + 1] = l
         /\ \A i \in 1..Len(p) : q[i] = p[i]
<1> DEFINE q == Append(p, l)
<1>1. q \in Seq(Line) /\ Len(q) = Len(p) + 1 /\ q[Len(p) + 1] = l
      /\ \A i \in 1..Len(p) : q[i] = p[i]
  BY AppendProperties
<1>2. DOMAIN q = 1..Len(q)
  BY <1>1, Places
<1> QED BY <1>1, <1>2

\* The child writes its next event.
LEMMA EventWritten ==
  ASSUME NEW p \in Seq(Line), NEW rd \in [Session -> Nat], NEW wr \in [Session -> Nat],
         NEW ch \in Session, PipeInv(p, rd, wr, ch), NEW l \in Line,
         l.what = "event", l.session = ch, l.n = wr[ch] + 1
  PROVE  PipeInv(Append(p, l), rd, [wr EXCEPT ![ch] = @ + 1], ch)
<1> DEFINE q == Append(p, l)
           w == [wr EXCEPT ![ch] = @ + 1]
           k == Len(p) + 1
<1>1. /\ DOMAIN q = 1..k /\ q[k] = l /\ \A i \in 1..Len(p) : q[i] = p[i]
      /\ DOMAIN p = 1..Len(p) /\ Len(p) \in Nat
  BY Written, Lines
<1>2. \A i \in 1..Len(p) : p[i].session \in Session /\ p[i].n \in Nat
  BY Lines
<1>3. \A s \in Session : /\ rd[s] \in Nat /\ wr[s] \in Nat /\ w[s] \in Nat
                         /\ w[s] = IF s = ch THEN wr[s] + 1 ELSE wr[s]
  OBVIOUS
<1> HIDE DEF q, w
<1>4. Numbered(q, rd, w)
  <2>1. \A s \in Session : rd[s] <= wr[s] /\ wr[s] <= w[s]
    BY <1>3 DEF PipeInv, Numbered
  <2>2. ASSUME NEW i \in 1..Len(p)
        PROVE  /\ rd[q[i].session] <= q[i].n /\ q[i].n <= w[q[i].session]
               /\ ~IsAnswer(q[i]) => rd[q[i].session] < q[i].n
    <3>1. /\ rd[p[i].session] <= p[i].n /\ p[i].n <= wr[p[i].session]
          /\ ~IsAnswer(p[i]) => rd[p[i].session] < p[i].n
      BY <1>1 DEF PipeInv, Numbered
    <3> QED BY <3>1, <2>1, <1>1, <1>2, <1>3
  <2>3. rd[l.session] < l.n /\ rd[l.session] <= l.n /\ l.n <= w[l.session]
    BY <2>1, <1>3
  <2>4. \A i \in 1..k : i \in 1..Len(p) \/ i = k
    BY <1>1
  <2>5. \A s \in Session : rd[s] <= w[s]
    BY <2>1, <1>3
  <2> QED BY <2>2, <2>3, <2>4, <2>5, <1>1 DEF Numbered
<1>5. Ordered(q)
  <2> SUFFICES ASSUME NEW i \in 1..k, NEW j \in 1..k, i < j, q[i].session = q[j].session
               PROVE  q[i].n <= q[j].n /\ (~IsAnswer(q[j]) => q[i].n < q[j].n)
    BY <1>1 DEF Ordered
  <2>1. CASE j \in 1..Len(p)
    <3>1. i \in 1..Len(p)
      BY <2>1, <1>1
    <3> QED BY <3>1, <2>1, <1>1 DEF PipeInv, Ordered
  <2>2. CASE j = k
    <3>1. i \in 1..Len(p) /\ q[j] = l /\ q[i] = p[i]
      BY <2>2, <1>1
    <3>2. p[i].n <= wr[ch] /\ p[i].n \in Nat
      BY <3>1, <1>1, <1>2 DEF PipeInv, Numbered
    <3>3. p[i].n < l.n /\ p[i].n <= l.n
      BY <3>2, <1>3
    <3> QED BY <3>1, <3>3
  <2>3. j \in 1..Len(p) \/ j = k
    BY <1>1
  <2> QED BY <2>1, <2>2, <2>3
<1>6. Complete(q, rd, w)
  <2> SUFFICES ASSUME NEW s \in Session, NEW x \in Nat, rd[s] < x, x <= w[s]
               PROVE  Carries(q, s, x)
    BY DEF Complete
  <2>1. CASE x <= wr[s]
    <3>4. Carries(p, s, x)
      BY <2>1, <1>1 DEF PipeInv, Complete
    <3>1. PICK i \in 1..Len(p) : p[i].what = "event" /\ p[i].session = s /\ p[i].n = x
      BY <3>4, <1>1 DEF Carries
    <3> QED BY <3>1, <1>1 DEF Carries
  <2>2. CASE ~(x <= wr[s])
    <3>1. s = ch /\ x = wr[ch] + 1
      BY <2>2, <1>3
    <3>2. k \in 1..k /\ q[k].what = "event" /\ q[k].session = s /\ q[k].n = x
      BY <3>1, <1>1 DEF IsAnswer
    <3> QED BY <3>2, <1>1 DEF Carries
  <2> QED BY <2>1, <2>2
<1>7. OneAnswer(q, ch)
  <2>1. \A i \in 1..k : (i \in 1..Len(p) /\ q[i] = p[i]) \/ (i = k /\ q[i] = l /\ ~IsAnswer(q[i]))
    BY <1>1 DEF IsAnswer
  <2>2. \A i \in 1..k, j \in 1..k : IsAnswer(q[i]) /\ IsAnswer(q[j]) => i = j
    BY <2>1, <1>1 DEF PipeInv, OneAnswer
  <2>3. \A i \in 1..k : IsAnswer(q[i]) => q[i].session = ch
    BY <2>1, <1>1 DEF PipeInv, OneAnswer
  <2>4. ASSUME NEW i \in 1..k, q[i].session # ch
        PROVE  \E j \in 1..k : i < j /\ q[j].what = "ok"
    <3>1. i \in 1..Len(p) /\ q[i] = p[i]
      BY <2>1, <2>4
    <3>2. PICK j \in 1..Len(p) : i < j /\ p[j].what = "ok"
      BY <3>1, <2>4, <1>1 DEF PipeInv, OneAnswer
    <3>3. j \in 1..k /\ q[j] = p[j]
      BY <1>1
    <3> QED BY <3>2, <3>3
  <2> QED BY <2>2, <2>3, <2>4, <1>1 DEF OneAnswer
<1>8. PipeInv(q, rd, w, ch)
  BY <1>4, <1>5, <1>6, <1>7 DEF PipeInv
<1> QED BY <1>8 DEF q, w

\* The child answers; only an operation that succeeds opens another session.
LEMMA AnswerWritten ==
  ASSUME NEW p \in Seq(Line), NEW rd \in [Session -> Nat], NEW wr \in [Session -> Nat],
         NEW ch \in Session, PipeInv(p, rd, wr, ch), NEW c \in Session, NEW l \in Line,
         IsAnswer(l), l.session = c, l.n = wr[c], l.what # "ok" => c = ch, Unanswered(p)
  PROVE  PipeInv(Append(p, l), rd, wr, c) /\ \A i \in DOMAIN p : p[i].session = ch
<1> DEFINE q == Append(p, l)
           k == Len(p) + 1
<1>1. /\ DOMAIN q = 1..k /\ q[k] = l /\ \A i \in 1..Len(p) : q[i] = p[i]
      /\ DOMAIN p = 1..Len(p) /\ Len(p) \in Nat
  BY Written, Lines
<1>2. \A i \in 1..Len(p) : p[i].session \in Session /\ p[i].n \in Nat
  BY Lines
<1>3. \A s \in Session : rd[s] \in Nat /\ wr[s] \in Nat /\ rd[s] <= wr[s]
  BY DEF PipeInv, Numbered
<1>9. \A i \in 1..Len(p) : p[i].session = ch
  BY <1>1 DEF PipeInv, OneAnswer, IsAnswer, Unanswered
<1>10. \A i \in 1..k : (i \in 1..Len(p) /\ q[i] = p[i] /\ ~IsAnswer(q[i])) \/ (i = k /\ q[i] = l)
  BY <1>1 DEF Unanswered
<1> HIDE DEF q
<1>4. Numbered(q, rd, wr)
  <2>1. ASSUME NEW i \in 1..k
        PROVE  /\ rd[q[i].session] <= q[i].n /\ q[i].n <= wr[q[i].session]
               /\ ~IsAnswer(q[i]) => rd[q[i].session] < q[i].n
    <3>1. CASE i \in 1..Len(p)
      BY <3>1, <1>1 DEF PipeInv, Numbered
    <3>2. CASE i = k
      BY <3>2, <1>1, <1>3
    <3> QED BY <3>1, <3>2, <1>10
  <2> QED BY <2>1, <1>1, <1>3 DEF Numbered
<1>5. Ordered(q)
  <2> SUFFICES ASSUME NEW i \in 1..k, NEW j \in 1..k, i < j, q[i].session = q[j].session
               PROVE  q[i].n <= q[j].n /\ (~IsAnswer(q[j]) => q[i].n < q[j].n)
    BY <1>1 DEF Ordered
  <2>1. CASE j \in 1..Len(p)
    <3>1. i \in 1..Len(p)
      BY <2>1, <1>1
    <3> QED BY <3>1, <2>1, <1>1 DEF PipeInv, Ordered
  <2>2. CASE j = k
    <3>1. i \in 1..Len(p) /\ q[j] = l /\ q[i] = p[i]
      BY <2>2, <1>1
    <3>2. p[i].n <= wr[c]
      BY <3>1, <1>1, <1>2 DEF PipeInv, Numbered
    <3> QED BY <3>1, <3>2
  <2>3. j \in 1..Len(p) \/ j = k
    BY <1>1
  <2> QED BY <2>1, <2>2, <2>3
<1>6. Complete(q, rd, wr)
  <2> SUFFICES ASSUME NEW s \in Session, NEW x \in Nat, rd[s] < x, x <= wr[s]
               PROVE  Carries(q, s, x)
    BY DEF Complete
  <2>4. Carries(p, s, x)
    BY <1>1 DEF PipeInv, Complete
  <2>1. PICK i \in 1..Len(p) : p[i].what = "event" /\ p[i].session = s /\ p[i].n = x
    BY <2>4, <1>1, <1>2 DEF Carries
  <2> QED BY <2>1, <1>1 DEF Carries
<1>7. OneAnswer(q, c)
  <2>1. \A i \in 1..k, j \in 1..k : IsAnswer(q[i]) /\ IsAnswer(q[j]) => i = j
    BY <1>10
  <2>2. \A i \in 1..k : IsAnswer(q[i]) => q[i].session = c
    BY <1>10
  <2>3. ASSUME NEW i \in 1..k, q[i].session # c
        PROVE  \E j \in 1..k : i < j /\ q[j].what = "ok"
    <3>1. i \in 1..Len(p) /\ q[i] = p[i]
      BY <1>10, <2>3
    <3>2. l.what = "ok" /\ i < k /\ k \in 1..k
      BY <3>1, <2>3, <1>9, <1>1
    <3> QED BY <3>2, <1>1
  <2> QED BY <2>1, <2>2, <2>3, <1>1 DEF OneAnswer
<1>8. PipeInv(q, rd, wr, c)
  BY <1>4, <1>5, <1>6, <1>7 DEF PipeInv
<1> QED BY <1>8, <1>9, <1>1 DEF q

LEMMA FirstRead ==
  ASSUME NEW p \in Seq(Line), p # <<>>
  PROVE  /\ Head(p) = p[1] /\ 1 \in 1..Len(p) /\ p[1] \in Line
         /\ Tail(p) \in Seq(Line) /\ DOMAIN Tail(p) = 1..(Len(p) - 1)
         /\ \A i \in 1..(Len(p) - 1) : Tail(p)[i] = p[i + 1] /\ i + 1 \in 1..Len(p)
<1>1. /\ Tail(p) \in Seq(Line) /\ Len(Tail(p)) = Len(p) - 1
      /\ \A i \in 1..Len(Tail(p)) : Tail(p)[i] = p[i + 1]
  BY HeadTailProperties
<1>2. Len(p) \in Nat /\ Len(p) # 0
  BY Places
<1>3. 1 \in 1..Len(p) /\ p[1] \in Line
  BY <1>2, Lines
<1>4. DOMAIN Tail(p) = 1..(Len(p) - 1)
  BY <1>1, Places
<1>5. Head(p) = p[1]
  OBVIOUS
<1> QED BY <1>1, <1>2, <1>3, <1>4, <1>5

LEMMA TailAnswers ==
  ASSUME NEW p \in Seq(Line), p # <<>>, NEW ch, OneAnswer(p, ch)
  PROVE  OneAnswer(Tail(p), ch)
<1> DEFINE q == Tail(p)
           k == Len(p) - 1
<1>1. /\ DOMAIN q = 1..k /\ DOMAIN p = 1..Len(p) /\ Len(p) \in Nat
      /\ \A i \in 1..k : q[i] = p[i + 1] /\ i + 1 \in 1..Len(p)
  BY FirstRead, Lines
<1> HIDE DEF q
<1>2. ASSUME NEW i \in 1..k, NEW j \in 1..k, IsAnswer(q[i]), IsAnswer(q[j]) PROVE i = j
  <2>1. i + 1 = j + 1
    BY <1>1, <1>2 DEF OneAnswer
  <2> QED BY <2>1
<1>3. \A i \in 1..k : IsAnswer(q[i]) => q[i].session = ch
  BY <1>1 DEF OneAnswer
<1>4. ASSUME NEW i \in 1..k, q[i].session # ch
      PROVE  \E j \in 1..k : i < j /\ q[j].what = "ok"
  <2>1. PICK j \in 1..Len(p) : i + 1 < j /\ p[j].what = "ok"
    BY <1>1, <1>4 DEF OneAnswer
  <2>2. j - 1 \in 1..k /\ (j - 1) + 1 = j /\ i < j - 1
    BY <2>1, <1>1
  <2>3. q[j - 1] = p[j]
    BY <2>2, <1>1
  <2> QED BY <2>1, <2>2, <2>3
<1>5. OneAnswer(q, ch)
  BY <1>1, <1>2, <1>3, <1>4 DEF OneAnswer
<1> QED BY <1>5 DEF q

\* The event in front is the next one of its session.
LEMMA EventRead ==
  ASSUME NEW p \in Seq(Line), NEW rd \in [Session -> Nat], NEW wr \in [Session -> Nat],
         NEW ch \in Session, PipeInv(p, rd, wr, ch), p # <<>>, ~IsAnswer(Head(p))
  PROVE  LET s == Head(p).session
             n == Head(p).n IN
         /\ s \in Session /\ n = rd[s] + 1
         /\ PipeInv(Tail(p), [rd EXCEPT ![s] = n], wr, ch)
<1> DEFINE l == p[1]
           q == Tail(p)
           d == [rd EXCEPT ![l.session] = l.n]
           k == Len(p) - 1
<1>1. /\ Head(p) = l /\ 1 \in 1..Len(p) /\ DOMAIN q = 1..k
      /\ \A i \in 1..k : q[i] = p[i + 1] /\ i + 1 \in 1..Len(p)
  BY FirstRead
<1>2. /\ DOMAIN p = 1..Len(p) /\ Len(p) \in Nat
      /\ \A i \in 1..Len(p) : p[i].session \in Session /\ p[i].n \in Nat
  BY Lines
<1>3. \A s \in Session : rd[s] \in Nat /\ wr[s] \in Nat
  OBVIOUS
<1>4. rd[l.session] < l.n /\ l.n <= wr[l.session]
  BY <1>1, <1>2 DEF PipeInv, Numbered
<1>5. l.n = rd[l.session] + 1
  <2> SUFFICES ASSUME rd[l.session] + 1 < l.n PROVE FALSE
    BY <1>1, <1>2, <1>3, <1>4
  <2> DEFINE x == rd[l.session] + 1
  <2>5. x \in Nat /\ rd[l.session] < x /\ x <= wr[l.session] /\ l.session \in Session
    BY <1>1, <1>2, <1>3, <1>4
  <2> HIDE DEF x
  <2>6. Carries(p, l.session, x)
    BY <2>5, <1>2 DEF PipeInv, Complete
  <2>7. PICK i \in 1..Len(p) : p[i].what = "event" /\ p[i].session = l.session /\ p[i].n = x
    BY <2>6, <1>1, <1>2 DEF Carries
  <2>1. p[i].session = l.session /\ p[i].n = rd[l.session] + 1
    BY <2>7 DEF x
  <2>2. 1 < i
    BY <2>1, <1>2
  <2>3. l.n <= p[i].n
    BY <2>1, <2>2, <1>1, <1>2 DEF PipeInv, Ordered
  <2> QED BY <2>1, <2>3, <1>1, <1>2, <1>3
<1>6. \A s \in Session : d[s] \in Nat /\ d[s] = IF s = l.session THEN l.n ELSE rd[s]
  BY <1>1, <1>2
<1>7. \A i \in 1..k : /\ q[i].session \in Session /\ q[i].n \in Nat
                      /\ q[i].session = l.session => /\ l.n <= q[i].n
                                                     /\ ~IsAnswer(q[i]) => l.n < q[i].n
  <2> SUFFICES ASSUME NEW i \in 1..k
               PROVE  /\ q[i].session \in Session /\ q[i].n \in Nat
                      /\ q[i].session = l.session => /\ l.n <= q[i].n
                                                     /\ ~IsAnswer(q[i]) => l.n < q[i].n
    OBVIOUS
  <2>1. i + 1 \in 1..Len(p) /\ 1 < i + 1 /\ q[i] = p[i + 1]
    BY <1>1
  <2> QED BY <2>1, <1>1, <1>2 DEF PipeInv, Ordered
<1> HIDE DEF q, d
<1>8. Numbered(q, d, wr)
  <2>1. \A s \in Session : d[s] <= wr[s]
    BY <1>4, <1>6 DEF PipeInv, Numbered
  <2>2. ASSUME NEW i \in 1..k
        PROVE  /\ d[q[i].session] <= q[i].n /\ q[i].n <= wr[q[i].session]
               /\ ~IsAnswer(q[i]) => d[q[i].session] < q[i].n
    <3>1. /\ rd[q[i].session] <= q[i].n /\ q[i].n <= wr[q[i].session]
          /\ ~IsAnswer(q[i]) => rd[q[i].session] < q[i].n
      BY <1>1, <1>2 DEF PipeInv, Numbered
    <3> QED BY <3>1, <1>6, <1>7
  <2> QED BY <2>1, <2>2, <1>1 DEF Numbered
<1>9. Ordered(q)
  <2> SUFFICES ASSUME NEW i \in 1..k, NEW j \in 1..k, i < j, q[i].session = q[j].session
               PROVE  q[i].n <= q[j].n /\ (~IsAnswer(q[j]) => q[i].n < q[j].n)
    BY <1>1 DEF Ordered
  <2>1. i + 1 < j + 1 /\ q[i] = p[i + 1] /\ q[j] = p[j + 1]
        /\ i + 1 \in 1..Len(p) /\ j + 1 \in 1..Len(p)
    BY <1>1
  <2> QED BY <2>1, <1>2 DEF PipeInv, Ordered
<1>10. Complete(q, d, wr)
  <2> SUFFICES ASSUME NEW s \in Session, NEW x \in Nat, d[s] < x, x <= wr[s]
               PROVE  Carries(q, s, x)
    BY DEF Complete
  <2>1. rd[s] < x /\ (s = l.session => x # l.n)
    BY <1>3, <1>4, <1>6
  <2>6. Carries(p, s, x)
    BY <2>1, <1>2 DEF PipeInv, Complete
  <2>2. PICK i \in 1..Len(p) : p[i].what = "event" /\ p[i].session = s /\ p[i].n = x
    BY <2>6, <1>1, <1>2 DEF Carries
  <2>3. i - 1 \in 1..k /\ (i - 1) + 1 = i
    BY <2>1, <2>2, <1>2
  <2>4. q[i - 1] = p[i]
    BY <2>3, <1>1
  <2> QED BY <2>2, <2>3, <2>4, <1>1 DEF Carries
<1>11. OneAnswer(q, ch)
  BY <1>1, <1>2, TailAnswers DEF PipeInv, q
<1>12. PipeInv(q, d, wr, ch)
  BY <1>8, <1>9, <1>10, <1>11 DEF PipeInv
<1> QED BY <1>1, <1>2, <1>5, <1>12 DEF q, d

\* What an answer in front says, and what is behind it.
LEMMA AnswerRead ==
  ASSUME NEW p \in Seq(Line), NEW rd \in [Session -> Nat], NEW wr \in [Session -> Nat],
         NEW ch \in Session, PipeInv(p, rd, wr, ch), p # <<>>, IsAnswer(Head(p))
  PROVE  /\ Head(p).session = ch /\ Head(p).n = rd[ch]
         /\ PipeInv(Tail(p), rd, wr, ch)
         /\ \A i \in DOMAIN Tail(p) : ~IsAnswer(Tail(p)[i]) /\ Tail(p)[i].session = ch
<1> DEFINE l == p[1]
           q == Tail(p)
           k == Len(p) - 1
<1>1. /\ Head(p) = l /\ 1 \in 1..Len(p) /\ DOMAIN q = 1..k
      /\ \A i \in 1..k : q[i] = p[i + 1] /\ i + 1 \in 1..Len(p)
  BY FirstRead
<1>2. /\ DOMAIN p = 1..Len(p) /\ Len(p) \in Nat
      /\ \A i \in 1..Len(p) : p[i].session \in Session /\ p[i].n \in Nat
  BY Lines
<1>3. rd[ch] \in Nat /\ wr[ch] \in Nat
  OBVIOUS
<1>4. l.session = ch
  BY <1>1, <1>2 DEF PipeInv, OneAnswer
<1>5. rd[ch] <= l.n /\ l.n <= wr[ch] /\ l.n \in Nat
  BY <1>1, <1>2, <1>4 DEF PipeInv, Numbered
<1>6. l.n = rd[ch]
  <2> SUFFICES ASSUME rd[ch] < l.n PROVE FALSE
    BY <1>3, <1>5
  <2> DEFINE x == rd[ch] + 1
  <2>4. x \in Nat /\ rd[ch] < x /\ x <= wr[ch]
    BY <1>3, <1>5
  <2> HIDE DEF x
  <2>5. Carries(p, ch, x)
    BY <2>4, <1>2 DEF PipeInv, Complete
  <2>6. PICK i \in 1..Len(p) : p[i].what = "event" /\ p[i].session = ch /\ p[i].n = x
    BY <2>5, <1>1, <1>2 DEF Carries
  <2>1. ~IsAnswer(p[i]) /\ p[i].session = ch /\ p[i].n = rd[ch] + 1
    BY <2>6 DEF x, IsAnswer
  <2>2. 1 < i
    BY <2>1, <1>1, <1>2
  <2>3. l.n < p[i].n
    BY <2>1, <2>2, <1>1, <1>2, <1>4 DEF PipeInv, Ordered
  <2> QED BY <2>1, <2>3, <1>3, <1>5
<1>7. \A i \in 2..Len(p) : ~IsAnswer(p[i]) /\ p[i].session = ch
  <2> SUFFICES ASSUME NEW i \in 2..Len(p) PROVE ~IsAnswer(p[i]) /\ p[i].session = ch
    OBVIOUS
  <2>1. i \in DOMAIN p /\ 1 \in DOMAIN p /\ i # 1
    BY <1>1, <1>2
  <2>2. ~IsAnswer(p[i])
    BY <2>1, <1>1 DEF PipeInv, OneAnswer
  <2>3. ASSUME NEW j \in 1..Len(p), i < j PROVE p[j].what # "ok"
    <3>1. j \in DOMAIN p /\ j # 1
      BY <2>3, <1>2
    <3> QED BY <3>1, <2>1, <1>1 DEF PipeInv, OneAnswer, IsAnswer
  <2> QED BY <2>1, <2>2, <2>3, <1>2 DEF PipeInv, OneAnswer
<1>8. \A i \in 1..k : ~IsAnswer(q[i]) /\ q[i].session = ch
  BY <1>1, <1>2, <1>7
<1> HIDE DEF q
<1>9. Numbered(q, rd, wr)
  BY <1>1, <1>2 DEF PipeInv, Numbered
<1>10. Ordered(q)
  <2> SUFFICES ASSUME NEW i \in 1..k, NEW j \in 1..k, i < j, q[i].session = q[j].session
               PROVE  q[i].n <= q[j].n /\ (~IsAnswer(q[j]) => q[i].n < q[j].n)
    BY <1>1 DEF Ordered
  <2>1. i + 1 < j + 1 /\ q[i] = p[i + 1] /\ q[j] = p[j + 1]
        /\ i + 1 \in 1..Len(p) /\ j + 1 \in 1..Len(p)
    BY <1>1
  <2> QED BY <2>1, <1>2 DEF PipeInv, Ordered
<1>11. Complete(q, rd, wr)
  <2> SUFFICES ASSUME NEW s \in Session, NEW x \in Nat, rd[s] < x, x <= wr[s]
               PROVE  Carries(q, s, x)
    BY DEF Complete
  <2>5. Carries(p, s, x)
    BY <1>2 DEF PipeInv, Complete
  <2>1. PICK i \in 1..Len(p) : p[i].what = "event" /\ p[i].session = s /\ p[i].n = x
    BY <2>5, <1>1, <1>2 DEF Carries
  <2>4. i # 1
    BY <2>1, <1>1 DEF IsAnswer
  <2>2. i - 1 \in 1..k /\ (i - 1) + 1 = i
    BY <2>4, <1>1, <1>2
  <2>3. q[i - 1] = p[i]
    BY <2>2, <1>1
  <2> QED BY <2>1, <2>2, <2>3, <1>1 DEF Carries
<1>12. OneAnswer(q, ch)
  BY <1>1, <1>8 DEF OneAnswer
<1>13. PipeInv(q, rd, wr, ch)
  BY <1>9, <1>10, <1>11, <1>12 DEF PipeInv
<1> QED BY <1>1, <1>4, <1>6, <1>8, <1>13 DEF q

\* How many places are behind the a-th.
LEMMA Behind ==
  ASSUME NEW n \in Nat, NEW a \in 1..n
  PROVE  (IF a + 1 <= n THEN n - (a + 1) + 1 ELSE 0) = n - a
  OBVIOUS

\* What is left of the pipe when the client ignores the answer.
LEMMA AnswerDropped ==
  ASSUME NEW p \in Seq(Line), NEW rd \in [Session -> Nat], NEW wr \in [Session -> Nat],
         NEW ch \in Session, PipeInv(p, rd, wr, ch),
         \A i \in DOMAIN p : p[i].session = ch
  PROVE  LET q == RemoveFirstMatch(p, IsAnswer) IN
         /\ q \in Seq(Line) /\ PipeInv(q, rd, wr, ch)
         /\ \A i \in DOMAIN q : ~IsAnswer(q[i]) /\ q[i].session = ch
<1> DEFINE q == RemoveFirstMatch(p, IsAnswer)
<1>1. DOMAIN p = 1..Len(p) /\ Len(p) \in Nat /\ \A i \in 1..Len(p) : p[i] \in Line
  BY Lines
<1>2. CASE \A i \in 1..Len(p) : ~IsAnswer(p[i])
  <2>1. q = p
    BY <1>2 DEF RemoveFirstMatch
  <2> HIDE DEF q
  <2>2. \A i \in DOMAIN q : ~IsAnswer(q[i]) /\ q[i].session = ch
    BY <2>1, <1>1, <1>2
  <2> QED BY <2>1, <2>2 DEF q
<1>3. CASE \E i \in 1..Len(p) : IsAnswer(p[i])
  <2>1. PICK a \in 1..Len(p) : IsAnswer(p[a])
    BY <1>3
  <2>2. \A i \in 1..Len(p) : IsAnswer(p[i]) => i = a
    BY <2>1, <1>1 DEF PipeInv, OneAnswer
  <2>3. q = SubSeq(p, 1, a - 1) \o SubSeq(p, a + 1, Len(p))
    <3>1. {i \in 1..Len(p) : IsAnswer(p[i])} = {a}
      BY <2>1, <2>2
    <3>2. Min({a}) = a
      BY DEF Min
    <3>3. SelectInSeq(p, IsAnswer) = a
      BY <3>1, <3>2 DEF SelectInSeq
    <3> QED BY <3>3, <1>3 DEF RemoveFirstMatch, RemoveAt
  <2> HIDE DEF q
  <2> DEFINE u == SubSeq(p, 1, a - 1)
             v == SubSeq(p, a + 1, Len(p))
             k == Len(p) - 1
  <2>4. u \in Seq(Line) /\ Len(u) = a - 1 /\ \A i \in 1..(a - 1) : u[i] = p[i]
    <3>1. /\ u \in Seq(Line) /\ Len(u) = IF 1 <= a - 1 THEN (a - 1) - 1 + 1 ELSE 0
          /\ \A i \in 1..((a - 1) - 1 + 1) : u[i] = p[1 + i - 1]
      <4>1. \A i \in 1..(a - 1) : p[i] \in Line
        BY <1>1
      <4> QED BY <4>1, <1>1, SubSeqProperties
    <3> QED BY <3>1, <1>1
  <2>5. v \in Seq(Line) /\ Len(v) = Len(p) - a /\ \A i \in 1..(Len(p) - a) : v[i] = p[a + i]
    <3>1. /\ v \in Seq(Line) /\ Len(v) = IF a + 1 <= Len(p) THEN Len(p) - (a + 1) + 1 ELSE 0
          /\ \A i \in 1..(Len(p) - (a + 1) + 1) : v[i] = p[(a + 1) + i - 1]
      <4>1. \A i \in (a + 1)..Len(p) : p[i] \in Line
        BY <1>1
      <4> QED BY <4>1, <1>1, SubSeqProperties
    <3> HIDE DEF v
    <3>2. Len(v) = Len(p) - a
      <4>1. (IF a + 1 <= Len(p) THEN Len(p) - (a + 1) + 1 ELSE 0) = Len(p) - a
        BY <1>1, Behind
      <4> QED BY <4>1, <3>1
    <3>3. ASSUME NEW i \in 1..(Len(p) - a) PROVE v[i] = p[a + i]
      <4>1. (a + 1) + i - 1 = a + i /\ i \in 1..(Len(p) - (a + 1) + 1)
        BY <1>1
      <4> QED BY <4>1, <3>1
    <3> QED BY <3>1, <3>2, <3>3
  <2> HIDE DEF u, v
  <2>6. /\ q \in Seq(Line) /\ Len(q) = Len(u) + Len(v)
        /\ \A i \in 1..(Len(u) + Len(v)) : q[i] = IF i <= Len(u) THEN u[i] ELSE v[i - Len(u)]
    <3>1. q = u \o v
      BY <2>3 DEF u, v
    <3> QED BY <3>1, <2>4, <2>5, ConcatProperties
  <2>7. Len(u) + Len(v) = k
    BY <2>4, <2>5, <1>1
  <2>8. /\ q \in Seq(Line) /\ DOMAIN q = 1..k
        /\ \A i \in 1..k : q[i] = IF i < a THEN p[i] ELSE p[i + 1]
    <3>1. DOMAIN q = 1..k
      BY <2>6, <2>7, Places
    <3>2. ASSUME NEW i \in 1..k PROVE q[i] = IF i < a THEN p[i] ELSE p[i + 1]
      <4>1. CASE i < a
        <5>1. i <= Len(u) /\ i \in 1..(a - 1)
          BY <4>1, <2>4, <1>1
        <5>2. q[i] = u[i]
          BY <5>1, <2>6, <2>7
        <5> QED BY <5>1, <5>2, <4>1, <2>4
      <4>2. CASE ~(i < a)
        <5>1. ~(i <= Len(u)) /\ i - Len(u) = i - (a - 1) /\ i - (a - 1) \in 1..(Len(p) - a)
              /\ a + (i - (a - 1)) = i + 1
          BY <4>2, <2>4, <1>1
        <5>2. q[i] = v[i - (a - 1)]
          BY <5>1, <2>6, <2>7
        <5> QED BY <5>1, <5>2, <4>2, <2>5
      <4> QED BY <4>1, <4>2
    <3> QED BY <3>1, <3>2, <2>6
  \* The place in p of the i-th line of q.
  <2> DEFINE at(i) == IF i < a THEN i ELSE i + 1
  <2>9. \A i \in 1..k : at(i) \in 1..Len(p) /\ at(i) # a /\ q[i] = p[at(i)]
    BY <2>8, <1>1
  <2>10. \A i, j \in 1..k : i < j => at(i) < at(j)
    BY <1>1
  <2>11. \A j \in 1..Len(p) : j # a => \E i \in 1..k : at(i) = j
    <3> SUFFICES ASSUME NEW j \in 1..Len(p), j # a PROVE \E i \in 1..k : at(i) = j
      OBVIOUS
    <3>1. CASE j < a
      <4>1. j \in 1..k /\ at(j) = j
        BY <3>1, <1>1
      <4> QED BY <4>1
    <3>2. CASE a < j
      <4>1. j - 1 \in 1..k /\ at(j - 1) = j
        BY <3>2, <1>1
      <4> QED BY <4>1
    <3> QED BY <3>1, <3>2, <1>1
  <2> HIDE DEF at
  <2>12. \A i \in 1..k : ~IsAnswer(q[i]) /\ q[i].session = ch
    BY <2>2, <2>9, <1>1
  <2>13. Numbered(q, rd, wr)
    BY <2>8, <2>9, <1>1 DEF PipeInv, Numbered
  <2>14. Ordered(q)
    <3> SUFFICES ASSUME NEW i \in 1..k, NEW j \in 1..k, i < j, q[i].session = q[j].session
                 PROVE  q[i].n <= q[j].n /\ (~IsAnswer(q[j]) => q[i].n < q[j].n)
      BY <2>8 DEF Ordered
    <3> QED BY <2>9, <2>10, <1>1 DEF PipeInv, Ordered
  <2>15. Complete(q, rd, wr)
    <3> SUFFICES ASSUME NEW s \in Session, NEW x \in Nat, rd[s] < x, x <= wr[s]
                 PROVE  Carries(q, s, x)
      BY DEF Complete
    <3>1. Carries(p, s, x)
      BY DEF PipeInv, Complete
    <3>2. PICK j \in 1..Len(p) : p[j].what = "event" /\ p[j].session = s /\ p[j].n = x
      BY <3>1, <1>1 DEF Carries
    <3>3. PICK i \in 1..k : at(i) = j
      BY <3>2, <2>1, <2>11 DEF IsAnswer
    <3> QED BY <3>2, <3>3, <2>8, <2>9 DEF Carries
  <2>16. OneAnswer(q, ch)
    BY <2>8, <2>12 DEF OneAnswer
  <2>17. PipeInv(q, rd, wr, ch) /\ \A i \in DOMAIN q : ~IsAnswer(q[i]) /\ q[i].session = ch
    BY <2>8, <2>12, <2>13, <2>14, <2>15, <2>16 DEF PipeInv
  <2> QED BY <2>8, <2>17 DEF q
<1> QED BY <1>2, <1>3

(***************************************************************************)
(* Facts about a state.                                                    *)
(***************************************************************************)
LEMMA Typed ==
  ASSUME TypeOK
  PROVE  /\ call.pc \in Asking \cup {"idle", "over"} /\ call.boot \in BOOLEAN
         /\ call.pass \in 1..Passes /\ call.pass \in Nat
         /\ call.answer.what = "none" <=> call.answer = None
         /\ call.answer # None =>
              /\ call.answer \in Line /\ call.answer.session \in Session
              /\ call.answer.n \in Nat
              /\ call.answer.what \in {"event", "ok", "cancelled", "error"}
         /\ buffer.active \in BOOLEAN /\ buffer.replay \in Nat /\ buffer.failure \in Nat
         /\ buffer.events \in Seq(Event) /\ Len(buffer.events) \in Nat
         /\ read[child] \in Nat /\ base[child] \in Nat /\ written[child] \in Nat
         /\ DOMAIN pipe = 1..Len(pipe) /\ Len(pipe) \in Nat
<1>1. /\ call.pc \in Asking \cup {"idle", "over"} /\ call.boot \in BOOLEAN
      /\ call.pass \in 1..Passes /\ call.answer \in Line \cup {None}
  BY DEF TypeOK, Call
<1>2. call.pass \in Nat
  BY <1>1, HydrationAssumption DEF HydrationAssumption
<1>3. call.answer = None => call.answer.what = "none"
  BY DEF None
<1>4. ASSUME call.answer # None
      PROVE  /\ call.answer \in Line /\ call.answer.session \in Session
             /\ call.answer.n \in Nat
             /\ call.answer.what \in {"event", "ok", "cancelled", "error"}
  BY <1>1, <1>4 DEF Line
<1>5. /\ buffer.active \in BOOLEAN /\ buffer.replay \in Nat /\ buffer.failure \in Nat
      /\ buffer.events \in Seq(Event)
  BY DEF TypeOK
<1>6. Len(buffer.events) \in Nat
  BY <1>5, Places
<1>7. read[child] \in Nat /\ base[child] \in Nat /\ written[child] \in Nat
  BY DEF TypeOK
<1>8. DOMAIN pipe = 1..Len(pipe) /\ Len(pipe) \in Nat
  BY Lines DEF TypeOK
<1> QED BY <1>1, <1>2, <1>3, <1>4, <1>5, <1>6, <1>7, <1>8

\* An answer that has arrived is of one of these, and then none is in the pipe.
LEMMA Arrived ==
  ASSUME IInv, call.answer # None
  PROVE  /\ \A i \in DOMAIN pipe : ~IsAnswer(pipe[i]) /\ pipe[i].session = child
         /\ call.answer.what \in {"ok", "cancelled", "error"}
<1>1. \A i \in DOMAIN pipe : ~IsAnswer(pipe[i])
  BY DEF IInv, CallInv
<1>2. \A i \in DOMAIN pipe : pipe[i].session = child
  BY <1>1 DEF IInv, PipeInv, OneAnswer, IsAnswer
<1>3. call.answer.what \in {"ok", "cancelled", "error"}
  BY Typed DEF IInv, CallInv, IsAnswer
<1> QED BY <1>1, <1>2, <1>3

\* If no other session has been opened, none has events in the pipe.
LEMMA IntactPipe ==
  ASSUME IInv, Intact
  PROVE  \A i \in DOMAIN pipe : pipe[i].session = child
<1>1. CASE call.answer = None /\ \A i \in DOMAIN pipe : ~IsAnswer(pipe[i])
  BY <1>1 DEF IInv, PipeInv, OneAnswer, IsAnswer
<1>2. CASE call.answer.what = "cancelled"
  BY <1>2, Arrived, Typed DEF IInv
<1>3. CASE \E i \in DOMAIN pipe : pipe[i].what = "cancelled"
  <2>1. PICK i \in DOMAIN pipe : pipe[i].what = "cancelled"
    BY <1>3
  <2>2. \A j \in DOMAIN pipe : pipe[j].what # "ok"
    BY <2>1 DEF IInv, PipeInv, OneAnswer, IsAnswer
  <2> QED BY <2>2 DEF IInv, PipeInv, OneAnswer
<1> QED BY <1>1, <1>2, <1>3 DEF Intact

\* Someone who has the events of c up to the r-th has those of no other session.
LEMMA OfOneSession ==
  ASSUME NEW c \in Session, NEW b \in Nat, NEW r \in Nat, b <= r
  PROVE  \A e \in Upto(c, r) \cup ToSet(Span(c, b, r)) : e[1] = c
<1>1. \A e \in Upto(c, r) : e[1] = c
  BY DEF Upto
<1>2. ASSUME NEW e \in ToSet(Span(c, b, r)) PROVE e[1] = c
  <2>1. /\ DOMAIN Span(c, b, r) = 1..(r - b)
        /\ \A i \in 1..(r - b) : Span(c, b, r)[i] = <<c, b + i>>
    BY DEF Span
  <2>2. PICK i \in 1..(r - b) : e = <<c, b + i>>
    BY <2>1 DEF ToSet
  <2> QED BY <2>2
<1> QED BY <1>1, <1>2

\* Nothing is mixed where nothing is shown or heard.
LEMMA NothingShown == \A e \in {} \cup ToSet(<<>>) : FALSE
  BY EmptySeq DEF ToSet

LEMMA IdleCall ==
  /\ Idle \in Call
  /\ Idle.pc = "idle" /\ Idle.boot = FALSE /\ Idle.pass = 1 /\ Idle.answer = None
<1>1. 1 \in 1..Passes
  BY HydrationAssumption DEF HydrationAssumption
<1> QED BY <1>1 DEF Idle, Call

LEMMA AskingCall ==
  ASSUME NEW c \in Call, NEW p \in Asking
  PROVE  /\ Asks(c, p) \in Call /\ Asks(c, p).pc = p /\ Asks(c, p).answer = None
         /\ Asks(c, p).boot = c.boot /\ Asks(c, p).pass = c.pass
  BY DEF Asks, Call

-----------------------------------------------------------------------------
\* The boot's state.
LEMMA InitInv == Init => IInv
<1> SUFFICES ASSUME Init PROVE IInv
  OBVIOUS
<1>1. TypeOK
  <2>1. call \in Call
    <3>1. Asks(Idle, "state") \in Call
      BY IdleCall, AskingCall DEF Asking
    <3> QED BY <3>1 DEF Init, Call
  <2>2. buffer \in [active : BOOLEAN, events : Seq(Event), replay : Nat, failure : Nat]
    BY EmptySeq DEF Init, Begun, Closed
  <2>3. view \in [owner : Session \cup {Nobody}, shown : SUBSET Event,
                  state : (Session \cup {Nobody}) \X Nat]
    BY DEF Init, NoView
  <2>4. pipe \in Seq(Line) /\ heard \in Seq(Event)
    BY EmptySeq DEF Init
  <2>5. counts \in [events : 0..MaxEvents, changes : 0..MaxChanges, failures : 0..MaxFailures]
    BY HydrationAssumption DEF Init, HydrationAssumption
  <2>6. child \in Session /\ written \in [Session -> Nat] /\ read \in [Session -> Nat]
        /\ base \in [Session -> Nat]
    BY DEF Init
  <2>7. /\ reading \in BOOLEAN /\ retrying \in BOOLEAN
        /\ runtime \in [depth : Nat, blocked : BOOLEAN, ready : BOOLEAN]
    BY DEF Init
  <2> QED BY <2>1, <2>2, <2>3, <2>4, <2>5, <2>6, <2>7 DEF TypeOK
<1>2. pipe = <<>> /\ DOMAIN pipe = {}
  <2>1. pipe = <<>> /\ Len(pipe) = 0
    BY EmptySeq DEF Init
  <2> QED BY <2>1, <1>1, Typed
<1>3. PipeInv(pipe, read, written, child)
  <2>1. read = written /\ \A s \in Session : read[s] \in Nat
    BY <1>1 DEF Init, TypeOK
  <2>2. Numbered(pipe, read, written) /\ Complete(pipe, read, written)
    BY <1>2, <2>1 DEF Numbered, Complete
  <2>3. Ordered(pipe) /\ OneAnswer(pipe, child)
    BY <1>2 DEF Ordered, OneAnswer
  <2> QED BY <2>2, <2>3 DEF PipeInv
<1>4. /\ call.pc = "state" /\ call.boot = TRUE /\ call.pass = 1 /\ call.answer = None
      /\ call.answer.what = "none"
  BY DEF Init, Idle, Asks, None
<1>5. buffer.active = TRUE /\ buffer.replay = 0 /\ buffer.failure = 0 /\ Len(buffer.events) = 0
  BY EmptySeq DEF Init, Begun, Closed
<1>6. CallInv
  BY <1>2, <1>4 DEF CallInv
<1>7. PhaseInv
  BY <1>4, <1>5 DEF PhaseInv, Init
<1>8. HydrationInv
  <2>1. base[child] = read[child] /\ read[child] \in Nat
    BY <1>1, Typed DEF Init
  <2>2. heard = <<>> /\ view.shown = {}
    BY DEF Init, NoView
  <2> QED BY <1>4, <1>5, <2>1, <2>2 DEF HydrationInv, Mark
<1>9. SettledInv /\ OperateInv
  BY <1>4, <1>5 DEF SettledInv, OperateInv
<1>10. Unmixed
  BY NothingShown DEF Init, NoView, Unmixed
<1> QED BY <1>1, <1>3, <1>6, <1>7, <1>8, <1>9, <1>10 DEF IInv

LEMMA Counted ==
  ASSUME TypeOK,
         \/ Counts("events", MaxEvents)
         \/ Counts("changes", MaxChanges)
         \/ Counts("failures", MaxFailures)
  PROVE  counts' \in [events : 0..MaxEvents, changes : 0..MaxChanges, failures : 0..MaxFailures]
<1>1. counts \in [events : 0..MaxEvents, changes : 0..MaxChanges, failures : 0..MaxFailures]
  BY DEF TypeOK
<1>2. MaxEvents \in Nat /\ MaxChanges \in Nat /\ MaxFailures \in Nat
  BY HydrationAssumption DEF HydrationAssumption
<1>3. CASE Counts("events", MaxEvents)
  <2>1. counts.events + 1 \in 0..MaxEvents
    BY <1>1, <1>2, <1>3 DEF Counts
  <2>2. counts' = [counts EXCEPT !.events = counts.events + 1]
    BY <1>3 DEF Counts
  <2> QED BY <2>1, <2>2, <1>1
<1>4. CASE Counts("changes", MaxChanges)
  <2>1. counts.changes + 1 \in 0..MaxChanges
    BY <1>1, <1>2, <1>4 DEF Counts
  <2>2. counts' = [counts EXCEPT !.changes = counts.changes + 1]
    BY <1>4 DEF Counts
  <2> QED BY <2>1, <2>2, <1>1
<1>5. CASE Counts("failures", MaxFailures)
  <2>1. counts.failures + 1 \in 0..MaxFailures
    BY <1>1, <1>2, <1>5 DEF Counts
  <2>2. counts' = [counts EXCEPT !.failures = counts.failures + 1]
    BY <1>5 DEF Counts
  <2> QED BY <2>1, <2>2, <1>1
<1> QED BY <1>3, <1>4, <1>5

\* The child writes an event.
LEMMA EmitKeeps == IInv /\ Emit => IInv'
<1> SUFFICES ASSUME IInv, Emit PROVE IInv'
  OBVIOUS
<1> DEFINE l == [what |-> "event", session |-> child, n |-> written[child] + 1]
<1>1. /\ TypeOK /\ child \in Session /\ pipe \in Seq(Line) /\ read \in [Session -> Nat]
      /\ written \in [Session -> Nat] /\ written[child] \in Nat
  BY DEF IInv, TypeOK
<1>2. /\ l \in Line /\ ~IsAnswer(l) /\ l.what = "event" /\ l.session = child
      /\ l.n = written[child] + 1
  BY <1>1 DEF Line, IsAnswer
<1>3. /\ written' = [written EXCEPT ![child] = @ + 1] /\ pipe' = Append(pipe, l)
      /\ UNCHANGED <<child, reading, read, buffer, call, retrying, view, runtime, heard, base>>
  BY <1>1 DEF Emit, Writes, host_
<1> HIDE DEF l
<1>4. /\ pipe' \in Seq(Line) /\ DOMAIN pipe' = 1..(Len(pipe) + 1)
      /\ DOMAIN pipe = 1..Len(pipe) /\ Len(pipe) \in Nat
      /\ pipe'[Len(pipe) + 1] = l /\ \A i \in 1..Len(pipe) : pipe'[i] = pipe[i]
  BY <1>1, <1>2, <1>3, Written, Lines
<1>5. TypeOK'
  <2>1. written' \in [Session -> Nat]
    BY <1>1, <1>3
  <2>2. counts' \in [events : 0..MaxEvents, changes : 0..MaxChanges, failures : 0..MaxFailures]
    BY <1>1, Counted DEF Emit
  <2> QED BY <2>1, <2>2, <1>1, <1>3, <1>4 DEF TypeOK
<1>6. PipeInv(pipe', read', written', child')
  BY <1>1, <1>2, <1>3, EventWritten DEF IInv
<1>7. \A i \in DOMAIN pipe' : (i \in DOMAIN pipe /\ pipe'[i] = pipe[i]) \/ pipe'[i] = l
  BY <1>4
<1>8. CallInv'
  BY <1>2, <1>3, <1>7 DEF IInv, CallInv, IsAnswer
<1>9. PhaseInv' /\ SettledInv' /\ HydrationInv' /\ Unmixed'
  BY <1>3 DEF IInv, PhaseInv, SettledInv, Shows, HydrationInv, Hydrating, Mark, Unmixed
<1>10. OperateInv'
  <2>1. Intact' => Intact
    BY <1>2, <1>3, <1>4, <1>7 DEF Intact, IsAnswer
  <2> QED BY <2>1, <1>3 DEF IInv, OperateInv, Shows
<1> QED BY <1>5, <1>6, <1>8, <1>9, <1>10 DEF IInv

\* The child answers, c being the session it has open then.
LEMMA AnswerKeeps ==
  ASSUME IInv, Awaited, NEW c \in Session, NEW l \in Line, IsAnswer(l), l.session = c,
         l.n = written[c], l.what = "ok" \/ c = child,
         l.what = "cancelled" \/ c # child => call.pc = "operate",
         child' = c, pipe' = Append(pipe, l), TypeOK',
         UNCHANGED <<written, reading, read, buffer, call, retrying, view, runtime, heard, base>>
  PROVE  IInv'
<1>1. /\ TypeOK /\ child \in Session /\ pipe \in Seq(Line) /\ read \in [Session -> Nat]
      /\ written \in [Session -> Nat]
  BY DEF IInv, TypeOK
<1>2. /\ call.pc \in Asking /\ call.answer = None /\ call.answer.what = "none"
      /\ \A i \in DOMAIN pipe : ~IsAnswer(pipe[i])
  BY DEF Awaited, Answered, None
<1>3. PipeInv(pipe', read', written', child') /\ \A i \in DOMAIN pipe : pipe[i].session = child
  <2>1. l.what # "ok" => c = child
    OBVIOUS
  <2>2. /\ PipeInv(Append(pipe, l), read, written, c)
        /\ \A i \in DOMAIN pipe : pipe[i].session = child
    <3>1. PipeInv(pipe, read, written, child)
      BY DEF IInv
    <3>2. Unanswered(pipe)
      BY <1>2 DEF Unanswered
    <3> QED BY <3>1, <3>2, <2>1, <1>1, AnswerWritten
  <2> QED BY <2>2
<1>4. /\ pipe' \in Seq(Line) /\ DOMAIN pipe' = 1..(Len(pipe) + 1)
      /\ DOMAIN pipe = 1..Len(pipe) /\ Len(pipe) \in Nat
      /\ pipe'[Len(pipe) + 1] = l /\ \A i \in 1..Len(pipe) : pipe'[i] = pipe[i]
  BY <1>1, Written, Lines
<1>5. \A i \in DOMAIN pipe' : (i \in DOMAIN pipe /\ pipe'[i] = pipe[i]) \/ pipe'[i] = l
  BY <1>4
<1>6. CallInv'
  <2>1. call.pc # "operate" => \A i \in DOMAIN pipe' :
           pipe'[i].session = child' /\ pipe'[i].what # "cancelled"
    BY <1>3, <1>5 DEF IInv, CallInv
  <2> QED BY <2>1, <1>2 DEF IInv, CallInv
<1>7. PhaseInv' /\ Unmixed'
  BY DEF IInv, PhaseInv, Unmixed
<1>8. SettledInv' /\ HydrationInv'
  <2>1. CASE call.pc = "operate"
    BY <2>1 DEF IInv, PhaseInv, SettledInv, HydrationInv, Hydrating
  <2>2. CASE call.pc # "operate"
    BY <2>2 DEF IInv, SettledInv, Shows, HydrationInv, Hydrating, Mark
  <2> QED BY <2>1, <2>2
<1>9. OperateInv'
  <2> SUFFICES ASSUME call.pc = "operate", Intact' PROVE OperateInv'
    BY DEF OperateInv
  <2>1. Len(pipe) + 1 \in DOMAIN pipe' /\ IsAnswer(pipe'[Len(pipe) + 1])
    BY <1>4
  <2>2. PICK i \in DOMAIN pipe' : pipe'[i].what = "cancelled"
    BY <2>1, <1>2 DEF Intact
  <2>3. l.what = "cancelled" /\ child' = child
    BY <2>2, <1>2, <1>5 DEF IsAnswer
  <2>4. Intact
    BY <1>2 DEF Intact
  <2> QED BY <2>3, <2>4 DEF IInv, OperateInv, Shows
<1> QED BY <1>3, <1>6, <1>7, <1>8, <1>9 DEF IInv

LEMMA AnswerStep == IInv /\ Answer => IInv'
<1> SUFFICES ASSUME IInv, Answer PROVE IInv'
  OBVIOUS
<1>1. PICK w \in {"ok", "cancelled"} :
         /\ pipe' = Append(pipe, [what |-> w, session |-> child', n |-> written'[child']])
         /\ child' \in Session /\ (w = "ok" \/ child' = child)
         /\ w = "cancelled" \/ child' # child => call.pc = "operate"
  BY DEF IInv, TypeOK, Answer, Writes
<1>2. /\ Awaited
      /\ UNCHANGED <<written, counts, reading, read, buffer, call, retrying, view, runtime,
                     heard, base>>
  BY DEF Answer, host_
<1> DEFINE l == [what |-> w, session |-> child', n |-> written'[child']]
<1>3. written[child'] \in Nat /\ written' = written
  BY <1>1, <1>2 DEF IInv, TypeOK
<1>4. /\ l \in Line /\ IsAnswer(l) /\ l.session = child' /\ l.n = written[child'] /\ l.what = w
      /\ pipe' = Append(pipe, l)
  BY <1>1, <1>3 DEF Line, IsAnswer
<1> HIDE DEF l
<1>5. TypeOK'
  <2>1. pipe' \in Seq(Line)
    BY <1>4, Written DEF IInv, TypeOK
  <2> QED BY <2>1, <1>1, <1>2 DEF IInv, TypeOK
<1> QED BY <1>1, <1>2, <1>4, <1>5, AnswerKeeps

LEMMA RefuseStep == IInv /\ Refuse => IInv'
<1> SUFFICES ASSUME IInv, Refuse PROVE IInv'
  OBVIOUS
<1>1. /\ pipe' = Append(pipe, [what |-> "error", session |-> child, n |-> written[child]])
      /\ Awaited /\ child \in Session /\ written[child] \in Nat
      /\ UNCHANGED <<child, written, reading, read, buffer, call, retrying, view, runtime,
                     heard, base>>
  BY DEF IInv, TypeOK, Refuse, Writes, child_, host_
<1> DEFINE l == [what |-> "error", session |-> child, n |-> written[child]]
<1>2. /\ l \in Line /\ IsAnswer(l) /\ l.session = child /\ l.n = written[child]
      /\ l.what = "error" /\ pipe' = Append(pipe, l)
  BY <1>1 DEF Line, IsAnswer
<1> HIDE DEF l
<1>3. TypeOK'
  <2>1. pipe' \in Seq(Line)
    BY <1>2, Written DEF IInv, TypeOK
  <2>2. counts' \in [events : 0..MaxEvents, changes : 0..MaxChanges, failures : 0..MaxFailures]
    BY Counted DEF IInv, Refuse
  <2> QED BY <2>1, <2>2, <1>1 DEF IInv, TypeOK
<1> QED BY <1>1, <1>2, <1>3, AnswerKeeps

\* The client gives up, and will ignore the answer.
LEMMA TimeOutKeeps == IInv /\ TimeOut => IInv'
<1> SUFFICES ASSUME IInv, TimeOut PROVE IInv'
  OBVIOUS
<1>1. /\ TypeOK /\ child \in Session /\ pipe \in Seq(Line) /\ read \in [Session -> Nat]
      /\ written \in [Session -> Nat] /\ call \in Call
  BY DEF IInv, TypeOK
<1>2. /\ call.pc \in Asking /\ call' = [call EXCEPT !.answer = Error]
      /\ pipe' = RemoveFirstMatch(pipe, IsAnswer)
      /\ UNCHANGED <<child, written, reading, read, buffer, retrying, view, runtime, heard, base>>
  BY DEF TimeOut, child_
<1>3. \A i \in DOMAIN pipe : pipe[i].session = child
  <2>1. CASE call.pc # "operate"
    BY <2>1 DEF IInv, CallInv
  <2>2. CASE call.pc = "operate"
    <3>1. pipe # <<>> /\ IsAnswer(Head(pipe))
      BY <2>2 DEF TimeOut
    <3>2. /\ Head(pipe) = pipe[1] /\ 1 \in DOMAIN pipe /\ IsAnswer(pipe[1])
          /\ DOMAIN pipe \subseteq Nat
      BY <3>1, <1>1, FirstRead, Lines
    <3>3. \A j \in DOMAIN pipe : pipe[j].what = "ok" => j = 1
      BY <3>2 DEF IInv, PipeInv, OneAnswer, IsAnswer
    <3>4. \A i \in DOMAIN pipe : ~(i < 1)
      BY <1>1, Lines
    <3> QED BY <3>3, <3>4 DEF IInv, PipeInv, OneAnswer
  <2> QED BY <2>1, <2>2
<1>4. /\ pipe' \in Seq(Line) /\ PipeInv(pipe', read, written, child)
      /\ \A i \in DOMAIN pipe' : ~IsAnswer(pipe'[i]) /\ pipe'[i].session = child
  BY <1>1, <1>2, <1>3, AnswerDropped DEF IInv
<1>5. Error \in Line /\ Error.what = "error"
  BY <1>1 DEF Error, Line
<1>6. /\ call' \in Call /\ call'.pc = call.pc /\ call'.boot = call.boot
      /\ call'.pass = call.pass /\ call'.answer = Error /\ call'.answer.what = "error"
  BY <1>1, <1>2, <1>5 DEF Call
<1>7. TypeOK'
  <2>1. counts' \in [events : 0..MaxEvents, changes : 0..MaxChanges, failures : 0..MaxFailures]
    BY <1>1, Counted DEF TimeOut
  <2> QED BY <2>1, <1>1, <1>2, <1>4, <1>6 DEF TypeOK
<1>8. CallInv'
  <2>1. call'.pc \notin {"state", "messages"} => ~call'.boot /\ call'.pass = 1
    BY <1>6 DEF IInv, CallInv
  <2> QED BY <2>1, <1>2, <1>4, <1>6 DEF CallInv, IsAnswer
<1>9. PhaseInv' /\ SettledInv' /\ Unmixed'
  <2>1. PhaseInv'
    BY <1>2, <1>6 DEF IInv, PhaseInv
  <2> QED BY <2>1, <1>2 DEF IInv, SettledInv, Shows, Unmixed
<1>10. HydrationInv'
  BY <1>2, <1>6 DEF IInv, HydrationInv, Hydrating, Mark
<1>11. OperateInv'
  <2>1. call'.answer # None
    BY <1>6 DEF None
  <2>2. ~Intact'
    BY <2>1, <1>4, <1>6 DEF Intact, IsAnswer
  <2> QED BY <2>2 DEF OperateInv
<1>12. PipeInv(pipe, read, written, child)'
  BY <1>2, <1>4
<1> QED BY <1>7, <1>8, <1>9, <1>10, <1>11, <1>12 DEF IInv

\* The answer in front is read.
LEMMA AnswerArrives == IInv /\ ReadLine /\ IsAnswer(Head(pipe)) => IInv'
<1> SUFFICES ASSUME IInv, ReadLine, IsAnswer(Head(pipe)) PROVE IInv'
  OBVIOUS
<1> DEFINE l == Head(pipe)
<1>1. /\ TypeOK /\ child \in Session /\ pipe \in Seq(Line) /\ read \in [Session -> Nat]
      /\ written \in [Session -> Nat] /\ call \in Call /\ read[child] \in Nat
  BY DEF IInv, TypeOK
<1>2. /\ pipe # <<>> /\ pipe' = Tail(pipe) /\ reading' \in BOOLEAN
      /\ call' = [call EXCEPT !.answer = l]
      /\ UNCHANGED <<child, written, read, buffer, retrying, view, runtime, heard, base, counts>>
  BY DEF ReadLine, child_
<1>3. /\ l = pipe[1] /\ 1 \in DOMAIN pipe /\ l \in Line /\ pipe' \in Seq(Line)
  BY <1>1, <1>2, FirstRead, Lines
<1>4. PipeInv(pipe, read, written, child)
  BY DEF IInv
<1>5. /\ l.session = child /\ l.n = read[child] /\ PipeInv(pipe', read, written, child)
      /\ \A i \in DOMAIN pipe' : ~IsAnswer(pipe'[i]) /\ pipe'[i].session = child
  BY <1>1, <1>2, <1>4, AnswerRead
<1> HIDE DEF l
<1>6. IsAnswer(l) /\ l # None /\ l.what # "none"
  BY <1>3 DEF l, Line, None
<1>7. /\ call' \in Call /\ call'.pc = call.pc /\ call'.boot = call.boot
      /\ call'.pass = call.pass /\ call'.answer = l
  BY <1>1, <1>2, <1>3 DEF Call
<1>8. call.pc \in Asking
  BY <1>3, <1>6 DEF IInv, CallInv
<1>9. TypeOK'
  BY <1>1, <1>2, <1>3, <1>7 DEF TypeOK
<1>10. PipeInv(pipe, read, written, child)'
  BY <1>2, <1>5
<1>11. CallInv'
  <2>1. call'.pc \notin {"state", "messages"} => ~call'.boot /\ call'.pass = 1
    BY <1>7 DEF IInv, CallInv
  <2>2. l.what = "cancelled" => call.pc = "operate"
    BY <1>3 DEF IInv, CallInv
  <2>3. l.n <= read[child]
    BY <1>1, <1>5
  <2> QED BY <2>1, <2>2, <2>3, <1>2, <1>5, <1>6, <1>7, <1>8 DEF CallInv, IsAnswer
<1>12. PhaseInv' /\ SettledInv' /\ Unmixed'
  <2>1. PhaseInv'
    BY <1>2, <1>7 DEF IInv, PhaseInv
  <2> QED BY <2>1, <1>2 DEF IInv, SettledInv, Shows, Unmixed
<1>13. HydrationInv'
  <2> SUFFICES ASSUME Hydrating' PROVE HydrationInv'
    BY DEF HydrationInv
  <2>1. Hydrating /\ Mark' = Mark
    BY <1>2, <1>7 DEF Hydrating, Mark
  <2>2. Mark <= read[child]
    BY <2>1, <1>1, Typed DEF IInv, HydrationInv, Mark
  <2>3. Mark <= l.n
    BY <2>2, <1>5
  <2> QED BY <2>1, <2>3, <1>2, <1>7 DEF IInv, HydrationInv
<1>14. OperateInv'
  <2> SUFFICES ASSUME call.pc = "operate", Intact' PROVE OperateInv'
    BY <1>7 DEF OperateInv
  <2>1. l.what = "cancelled"
    BY <1>5, <1>6, <1>7 DEF Intact, IsAnswer
  <2>2. Intact
    BY <2>1, <1>3 DEF Intact
  <2> QED BY <2>2, <1>2 DEF IInv, OperateInv, Shows
<1> QED BY <1>9, <1>10, <1>11, <1>12, <1>13, <1>14 DEF IInv

\* What the pipe, the call and the phase have to do with an event that is read.
LEMMA EventArrives ==
  ASSUME IInv, ReadLine, ~IsAnswer(Head(pipe)), PhaseInv'
  PROVE  /\ pipe' \in Seq(Line) /\ read' \in [Session -> Nat]
         /\ Head(pipe).session \in Session /\ Head(pipe).n = read[Head(pipe).session] + 1
         /\ read' = [read EXCEPT ![Head(pipe).session] = Head(pipe).n]
         /\ <<Head(pipe).session, Head(pipe).n>> \in Event
         /\ PipeInv(pipe, read, written, child)' /\ CallInv'
         /\ (\A i \in DOMAIN pipe : pipe[i].session = child) => Head(pipe).session = child
         /\ Intact' => Intact
<1> DEFINE l == Head(pipe)
<1>1. /\ TypeOK /\ child \in Session /\ pipe \in Seq(Line) /\ read \in [Session -> Nat]
      /\ written \in [Session -> Nat] /\ call \in Call /\ read[child] \in Nat
  BY DEF IInv, TypeOK
<1>2. /\ pipe # <<>> /\ pipe' = Tail(pipe) /\ reading' \in BOOLEAN
      /\ read' = [read EXCEPT ![l.session] = l.n]
      /\ UNCHANGED <<child, written, call, retrying, runtime, base, counts>>
  BY DEF ReadLine, child_
<1>3. /\ l = pipe[1] /\ 1 \in DOMAIN pipe /\ l \in Line /\ pipe' \in Seq(Line)
      /\ DOMAIN pipe = 1..Len(pipe) /\ Len(pipe) \in Nat
      /\ DOMAIN pipe' = 1..(Len(pipe) - 1)
      /\ \A i \in 1..(Len(pipe) - 1) : pipe'[i] = pipe[i + 1] /\ i + 1 \in 1..Len(pipe)
  BY <1>1, <1>2, FirstRead, Lines
<1>4. PipeInv(pipe, read, written, child)
  BY DEF IInv
<1>5. /\ l.session \in Session /\ l.n = read[l.session] + 1
      /\ PipeInv(pipe', [read EXCEPT ![l.session] = l.n], written, child)
  BY <1>1, <1>2, <1>4, EventRead
<1>6. ~IsAnswer(l) /\ l.n \in Nat /\ l.n # 0
  BY <1>1, <1>5
<1> HIDE DEF l
<1>7. \A i \in DOMAIN pipe' : \E j \in DOMAIN pipe : pipe'[i] = pipe[j]
  BY <1>3
<1>8. read' \in [Session -> Nat] /\ read[child] <= read'[child]
  BY <1>1, <1>2, <1>5, <1>6
<1>9. CallInv'
  <2>1. call.pc \notin Asking \/ call.answer # None => \A i \in DOMAIN pipe' : ~IsAnswer(pipe'[i])
    BY <1>7 DEF IInv, CallInv
  <2>2. call.pc # "operate" => \A i \in DOMAIN pipe' :
           pipe'[i].session = child /\ pipe'[i].what # "cancelled"
    BY <1>7 DEF IInv, CallInv
  <2>3. call.answer.what = "ok" => call.answer.n <= read'[child]
    <3>1. call.answer.what = "ok" => call.answer.n \in Nat /\ call.answer.n <= read[child]
      BY <1>1, Typed DEF IInv, CallInv
    <3> QED BY <3>1, <1>1, <1>8
  <2> QED BY <2>1, <2>2, <2>3, <1>2 DEF IInv, CallInv
<1>10. PipeInv(pipe, read, written, child)'
  BY <1>2, <1>5
<1>11. (\A i \in DOMAIN pipe : pipe[i].session = child) => l.session = child
  BY <1>3
<1>12. Intact' => Intact
  <2>1. CASE call.answer = None /\ \A i \in DOMAIN pipe' : ~IsAnswer(pipe'[i])
    <3>1. ASSUME NEW j \in DOMAIN pipe PROVE ~IsAnswer(pipe[j])
      <4>1. CASE j = 1
        BY <4>1, <1>3, <1>6
      <4>2. CASE j # 1
        <5>1. j - 1 \in DOMAIN pipe' /\ (j - 1) + 1 = j
          BY <4>2, <1>3
        <5>2. pipe'[j - 1] = pipe[j]
          BY <5>1, <1>3
        <5> QED BY <5>1, <5>2, <2>1
      <4> QED BY <4>1, <4>2
    <3> QED BY <3>1, <2>1 DEF Intact
  <2>2. CASE call.answer.what = "cancelled"
    BY <2>2 DEF Intact
  <2>3. CASE \E i \in DOMAIN pipe' : pipe'[i].what = "cancelled"
    BY <2>3, <1>7 DEF Intact
  <2> QED BY <2>1, <2>2, <2>3, <1>2 DEF Intact
<1>13. <<l.session, l.n>> \in Event
  BY <1>5, <1>6 DEF Event
<1> QED BY <1>2, <1>3, <1>5, <1>8, <1>9, <1>10, <1>11, <1>12, <1>13 DEF l

\* An event that arrives while the buffer captures.
LEMMA EventCaptured == IInv /\ ReadLine /\ ~IsAnswer(Head(pipe)) /\ buffer.active => IInv'
<1> SUFFICES ASSUME IInv, ReadLine, ~IsAnswer(Head(pipe)), buffer.active PROVE IInv'
  OBVIOUS
<1> DEFINE s == Head(pipe).session
           e == <<Head(pipe).session, Head(pipe).n>>
<1>1. /\ TypeOK /\ child \in Session /\ buffer.events \in Seq(Event)
      /\ read[child] \in Nat /\ base[child] \in Nat
      /\ buffer \in [active : BOOLEAN, events : Seq(Event), replay : Nat, failure : Nat]
  BY DEF IInv, TypeOK
<1>2. /\ buffer' = [buffer EXCEPT !.events = Append(@, e)] /\ reading' \in BOOLEAN
      /\ UNCHANGED <<child, written, call, retrying, view, runtime, heard, base, counts>>
  BY DEF ReadLine, child_
<1>3. PhaseInv'
  <2>1. buffer'.active = buffer.active
    BY <1>1, <1>2
  <2> QED BY <2>1, <1>2 DEF IInv, PhaseInv
<1>4. /\ pipe' \in Seq(Line) /\ read' \in [Session -> Nat]
      /\ s \in Session /\ Head(pipe).n = read[s] + 1 /\ e \in Event
      /\ read' = [read EXCEPT ![s] = Head(pipe).n]
      /\ PipeInv(pipe, read, written, child)' /\ CallInv'
      /\ (\A i \in DOMAIN pipe : pipe[i].session = child) => s = child
      /\ Intact' => Intact
  BY <1>3, EventArrives
<1>5. s = child => e = <<child, read[child] + 1>> /\ read'[child] = read[child] + 1
  BY <1>1, <1>4
<1> HIDE DEF s, e
<1>6. /\ Append(buffer.events, e) \in Seq(Event)
      /\ Len(Append(buffer.events, e)) = Len(buffer.events) + 1
      /\ Append(buffer.events, e)[Len(buffer.events) + 1] = e
      /\ \A i \in 1..Len(buffer.events) : Append(buffer.events, e)[i] = buffer.events[i]
  BY <1>1, <1>4, AppendProperties
<1>7. /\ buffer' \in [active : BOOLEAN, events : Seq(Event), replay : Nat, failure : Nat]
      /\ buffer'.events = Append(buffer.events, e) /\ buffer'.active
      /\ buffer'.replay = buffer.replay /\ buffer'.failure = buffer.failure
  BY <1>1, <1>2, <1>6
<1>8. TypeOK'
  BY <1>1, <1>2, <1>4, <1>7 DEF TypeOK
<1>9. SettledInv' /\ Unmixed'
  BY <1>2, <1>7 DEF IInv, SettledInv, Unmixed
<1>10. OperateInv'
  <2> SUFFICES ASSUME call.pc = "operate", Intact' PROVE OperateInv'
    BY <1>2 DEF OperateInv
  <2>1. Intact /\ s = child
    BY <1>4, IntactPipe
  <2>2. PICK r : /\ r = read[child] - Len(buffer.events)
                 /\ Shows(r) /\ buffer.events = Span(child, r, read[child])
    BY <2>1 DEF IInv, OperateInv
  <2>3. r \in Nat /\ r <= read[child]
    BY <2>2, <1>1, Typed DEF Shows
  <2>4. r = read'[child'] - Len(buffer'.events)
    <3>1. read'[child'] = read[child] + 1 /\ Len(buffer'.events) = Len(buffer.events) + 1
      BY <2>1, <1>2, <1>5, <1>6, <1>7
    <3>2. r = read[child] - Len(buffer.events)
      BY <2>2
    <3>3. read[child] \in Nat /\ Len(buffer.events) \in Nat
      BY <1>1, Typed
    <3> QED BY <3>1, <3>2, <3>3
  <2>5. buffer'.events = Span(child, r, read[child] + 1)
    <3>1. e = <<child, read[child] + 1>> /\ buffer'.events = Append(buffer.events, e)
      BY <2>1, <1>5, <1>7
    <3>2. Append(Span(child, r, read[child]), <<child, read[child] + 1>>)
            = Span(child, r, read[child] + 1)
      BY <2>3, <1>1, SpanGrows
    <3> QED BY <3>1, <3>2, <2>2
  <2>6. Shows(r)'
    BY <2>2, <1>2 DEF Shows
  <2> QED BY <2>1, <2>4, <2>5, <2>6, <1>2, <1>5 DEF OperateInv
<1>11. HydrationInv'
  <2> SUFFICES ASSUME Hydrating' PROVE HydrationInv'
    BY DEF HydrationInv
  <2>1. Hydrating /\ Mark' = Mark /\ call.pc # "operate"
    BY <1>2, <1>7 DEF Hydrating, Mark
  <2>2. s = child
    BY <2>1, <1>4 DEF IInv, CallInv
  <2> DEFINE d == read[child] - base[child]
  <2>3. /\ base[child] <= read[child] /\ Len(buffer.events) - buffer.failure = d
        /\ buffer.failure <= buffer.replay /\ buffer.replay <= Len(buffer.events)
        /\ \A i \in 1..d : buffer.events[buffer.failure + i] = <<child, base[child] + i>>
    BY <2>1 DEF IInv, HydrationInv
  <2>4. /\ d \in Nat /\ read'[child] - base[child] = d + 1
        /\ buffer.failure \in Nat /\ buffer.replay \in Nat /\ Len(buffer.events) \in Nat
    BY <2>2, <2>3, <1>1, <1>5, Typed
  <2>5. ASSUME NEW i \in 1..(d + 1)
        PROVE  buffer'.events[buffer.failure + i] = <<child, base[child] + i>>
    <3>1. CASE i \in 1..d
      <4>1. buffer.failure + i \in 1..Len(buffer.events)
        BY <3>1, <2>3, <2>4
      <4> QED BY <4>1, <3>1, <2>3, <1>6, <1>7
    <3>2. CASE i = d + 1
      <4>1. buffer.failure + i = Len(buffer.events) + 1 /\ base[child] + i = read[child] + 1
        BY <3>2, <2>3, <2>4, <1>1
      <4> QED BY <4>1, <2>2, <1>5, <1>6, <1>7
    <3> QED BY <3>1, <3>2, <2>4
  <2>6. /\ base[child] <= read'[child]
        /\ Len(buffer'.events) - buffer.failure = read'[child] - base[child]
        /\ buffer.replay <= Len(buffer'.events)
    BY <2>2, <2>3, <2>4, <1>1, <1>5, <1>6, <1>7
  <2>7. call.pc = "messages" => \E k \in Nat : /\ view.state = <<child, k>>
                                               /\ Mark <= k /\ k <= read'[child]
    <3> SUFFICES ASSUME call.pc = "messages"
                 PROVE  \E k \in Nat : view.state = <<child, k>> /\ Mark <= k /\ k <= read'[child]
      OBVIOUS
    <3>1. PICK k \in Nat : view.state = <<child, k>> /\ Mark <= k /\ k <= read[child]
      BY <2>1 DEF IInv, HydrationInv
    <3>2. k <= read'[child]
      BY <3>1, <2>2, <1>1, <1>5
    <3> QED BY <3>1, <3>2
  <2>8. \A i \in 1..(read'[child] - base[child]) :
           buffer'.events[buffer.failure + i] = <<child, base[child] + i>>
    BY <2>4, <2>5
  <2> QED BY <2>1, <2>3, <2>6, <2>7, <2>8, <1>2, <1>7 DEF IInv, HydrationInv
<1> QED BY <1>3, <1>4, <1>8, <1>9, <1>10, <1>11 DEF IInv

\* An event that is passed on at once.
LEMMA EventPassed == IInv /\ ReadLine /\ ~IsAnswer(Head(pipe)) /\ ~buffer.active => IInv'
<1> SUFFICES ASSUME IInv, ReadLine, ~IsAnswer(Head(pipe)), ~buffer.active PROVE IInv'
  OBVIOUS
<1> DEFINE s == Head(pipe).session
           e == <<Head(pipe).session, Head(pipe).n>>
<1>1. /\ TypeOK /\ child \in Session /\ read[child] \in Nat /\ base[child] \in Nat
  BY DEF IInv, TypeOK
<1>2. /\ view' = Processed(view, <<e>>) /\ heard' = Append(heard, e) /\ reading' \in BOOLEAN
      /\ UNCHANGED <<child, written, call, buffer, retrying, runtime, base, counts>>
  BY DEF ReadLine, child_
<1>3. PhaseInv'
  BY <1>2 DEF IInv, PhaseInv
<1>4. /\ pipe' \in Seq(Line) /\ read' \in [Session -> Nat]
      /\ s \in Session /\ Head(pipe).n = read[s] + 1 /\ e \in Event
      /\ read' = [read EXCEPT ![s] = Head(pipe).n]
      /\ PipeInv(pipe, read, written, child)' /\ CallInv'
      /\ (\A i \in DOMAIN pipe : pipe[i].session = child) => s = child
  BY <1>3, EventArrives
<1>5. call.pc # "operate"
  BY DEF IInv, PhaseInv
<1>6. s = child
  BY <1>4, <1>5 DEF IInv, CallInv
<1>7. e = <<child, read[child] + 1>> /\ read'[child] = read[child] + 1
  BY <1>1, <1>4, <1>6
<1> HIDE DEF s, e
<1>8. /\ view.owner = child /\ view.shown = Upto(child, read[child])
      /\ base[child] <= read[child] /\ heard = Span(child, base[child], read[child])
  BY DEF IInv, SettledInv, Shows
<1>9. view'.owner = child /\ view'.shown = Upto(child, read[child]) \cup {e} /\ view'.state = e
  <2>1. ToSet(<<e>>) = {e} /\ Last(<<e>>) = e /\ <<e>> # <<>>
    BY DEF ToSet, Last
  <2>2. view \in [owner : Session \cup {Nobody}, shown : SUBSET Event,
                  state : (Session \cup {Nobody}) \X Nat]
    BY <1>1 DEF TypeOK
  <2> HIDE DEF e
  <2> QED BY <2>1, <2>2, <1>2, <1>8 DEF Processed
<1>10. Upto(child, read[child]) \cup {e} = Upto(child, read[child] + 1)
  BY <1>1, <1>7 DEF Upto
<1>11. heard' = Span(child, base[child], read[child] + 1)
  BY <1>1, <1>2, <1>7, <1>8, SpanGrows
<1>12. Shows(read[child])'
  <2>1. base[child] <= read[child] + 1
    BY <1>1, <1>8
  <2>2. PICK x : x = read[child] + 1
    OBVIOUS
  <2>3. Shows(x)'
    BY <2>1, <2>2, <1>2, <1>7, <1>8, <1>9, <1>10, <1>11 DEF Shows
  <2>4. x = read'[child']
    BY <2>2, <1>2, <1>7
  <2> QED BY <2>3, <2>4
<1>13. TypeOK'
  <2>1. heard' \in Seq(Event)
    BY <1>1, <1>2, <1>4, AppendProperties DEF TypeOK
  <2>2. view' \in [owner : Session \cup {Nobody}, shown : SUBSET Event,
                   state : (Session \cup {Nobody}) \X Nat]
    <3>1. view' = [view EXCEPT !.shown = @ \cup ToSet(<<e>>), !.state = Last(<<e>>)]
      BY <1>2 DEF Processed
    <3>2. ToSet(<<e>>) = {e} /\ Last(<<e>>) = e
      BY DEF ToSet, Last
    <3>3. e \in (Session \cup {Nobody}) \X Nat
      BY <1>1, <1>7
    <3> QED BY <3>1, <3>2, <3>3, <1>1, <1>4 DEF TypeOK
  <2> QED BY <2>1, <2>2, <1>1, <1>2, <1>4 DEF TypeOK
<1>14. SettledInv' /\ OperateInv' /\ HydrationInv'
  BY <1>2, <1>5, <1>12 DEF SettledInv, OperateInv, HydrationInv, Hydrating
<1>15. Unmixed'
  <2>1. \A x \in Upto(child, read'[child]) \cup ToSet(Span(child, base[child], read'[child])) :
           x[1] = child
    BY <1>1, <1>7, <1>8, OfOneSession, read[child] + 1 \in Nat, base[child] <= read[child] + 1
  <2> QED BY <2>1, <1>2, <1>12 DEF Shows, Unmixed
<1> QED BY <1>3, <1>4, <1>13, <1>14, <1>15 DEF IInv

LEMMA ReadLineStep == IInv /\ ReadLine => IInv'
<1> SUFFICES ASSUME IInv, ReadLine PROVE IInv'
  OBVIOUS
<1>1. CASE IsAnswer(Head(pipe))
  BY <1>1, AnswerArrives
<1>2. CASE ~IsAnswer(Head(pipe)) /\ buffer.active
  BY <1>2, EventCaptured
<1>3. CASE ~IsAnswer(Head(pipe)) /\ ~buffer.active
  BY <1>3, EventPassed
<1> QED BY <1>1, <1>2, <1>3

(***************************************************************************)
(* The continuations.                                                      *)
(***************************************************************************)
Buffers == [active : BOOLEAN, events : Seq(Event), replay : Nat, failure : Nat]
Views == [owner : Session \cup {Nobody}, shown : SUBSET Event,
          state : (Session \cup {Nobody}) \X Nat]
Runtimes == [depth : Nat, blocked : BOOLEAN, ready : BOOLEAN]

\* What every continuation leaves as it was, and what it asks for.
LEMMA Continued ==
  ASSUME IInv, UNCHANGED <<child_, pipe, reading, read>>,
         \A i \in DOMAIN pipe : ~IsAnswer(pipe[i]) /\ pipe[i].session = child,
         call' \in Call, call'.answer = None,
         call'.pc \notin {"state", "messages"} => ~call'.boot /\ call'.pass = 1,
         buffer' \in Buffers, retrying' \in BOOLEAN, view' \in Views, runtime' \in Runtimes,
         heard' \in Seq(Event), base' \in [Session -> Nat],
         counts' \in [events : 0..MaxEvents, changes : 0..MaxChanges, failures : 0..MaxFailures]
  PROVE  TypeOK' /\ PipeInv(pipe, read, written, child)' /\ CallInv'
<1>1. UNCHANGED <<child, written, pipe, reading, read>>
  BY DEF child_
<1>2. TypeOK'
  BY <1>1 DEF IInv, TypeOK, Buffers, Views, Runtimes
<1>3. PipeInv(pipe, read, written, child)'
  BY <1>1 DEF IInv
<1>4. call'.answer.what = "none"
  BY DEF None
<1>5. CallInv'
  BY <1>1, <1>4 DEF CallInv, IsAnswer
<1> QED BY <1>2, <1>3, <1>5

LEMMA Parts ==
  ASSUME TypeOK
  PROVE  /\ call \in Call /\ buffer \in Buffers /\ retrying \in BOOLEAN /\ view \in Views
         /\ runtime \in Runtimes /\ heard \in Seq(Event) /\ base \in [Session -> Nat]
         /\ read \in [Session -> Nat] /\ child \in Session
         /\ counts \in [events : 0..MaxEvents, changes : 0..MaxChanges, failures : 0..MaxFailures]
  BY DEF TypeOK, Buffers, Views, Runtimes

\* A buffer that begins or is closed, and one whose barrier moves.
LEMMA Marks ==
  /\ Closed \in Buffers /\ Closed.active = FALSE
  /\ Begun \in Buffers /\ Begun.active = TRUE /\ Begun.events = <<>>
  /\ \A b \in Buffers :
       /\ Barrier(b) \in Buffers /\ Barrier(b).active = b.active
       /\ Barrier(b).events = b.events /\ Barrier(b).failure = b.failure
       /\ Barrier(b).replay = Len(b.events)
       /\ Baseline(b) \in Buffers /\ Baseline(b).active = b.active
       /\ Baseline(b).events = b.events /\ Baseline(b).failure = Len(b.events)
       /\ Baseline(b).replay = Len(b.events)
<1>1. Closed \in Buffers /\ Closed.active = FALSE
  BY EmptySeq DEF Closed, Buffers
<1>2. Begun \in Buffers /\ Begun.active = TRUE /\ Begun.events = <<>>
  BY EmptySeq DEF Begun, Closed, Buffers
<1>3. \A b \in Buffers : Len(b.events) \in Nat
  BY Places DEF Buffers
<1>4. ASSUME NEW b \in Buffers
      PROVE  /\ Barrier(b) \in Buffers /\ Barrier(b).active = b.active
             /\ Barrier(b).events = b.events /\ Barrier(b).failure = b.failure
             /\ Barrier(b).replay = Len(b.events)
  BY <1>3 DEF Barrier, Buffers
<1>5. ASSUME NEW b \in Buffers
      PROVE  /\ Baseline(b) \in Buffers /\ Baseline(b).active = b.active
             /\ Baseline(b).events = b.events /\ Baseline(b).failure = Len(b.events)
             /\ Baseline(b).replay = Len(b.events)
  BY <1>3 DEF Baseline, Buffers
<1> QED BY <1>1, <1>2, <1>4, <1>5

LEMMA Runs ==
  ASSUME TypeOK
  PROVE  /\ Suspended(runtime) \in Runtimes /\ Suspended(runtime).depth = runtime.depth + 1
         /\ Suspended(runtime).blocked = TRUE /\ Suspended(runtime).ready = runtime.ready
         /\ Resumed(runtime) \in Runtimes /\ Resumed(runtime).ready = runtime.ready
         /\ runtime.depth = 1 => Resumed(runtime).depth = 0 /\ Resumed(runtime).blocked = FALSE
<1>1. runtime \in Runtimes
  BY Parts
<1>2. /\ Suspended(runtime) \in Runtimes /\ Suspended(runtime).depth = runtime.depth + 1
      /\ Suspended(runtime).blocked = TRUE
  <2>1. runtime.depth + 1 \in Nat
    BY <1>1 DEF Runtimes
  <2>2. Suspended(runtime) \in Runtimes
    BY <2>1, <1>1 DEF Suspended, Runtimes
  <2>3. Suspended(runtime).depth = runtime.depth + 1
    BY <1>1 DEF Suspended, Runtimes
  <2>4. Suspended(runtime).blocked = TRUE
    BY <1>1 DEF Suspended, Runtimes
  <2> QED BY <2>2, <2>3, <2>4
<1>3. Resumed(runtime) \in Runtimes
  <2>1. (IF runtime.depth = 0 THEN 0 ELSE runtime.depth - 1) \in Nat
    BY <1>1 DEF Runtimes
  <2>2. (IF runtime.depth > 1 THEN runtime.blocked ELSE FALSE) \in BOOLEAN
    BY <1>1 DEF Runtimes
  <2> QED BY <2>1, <2>2, <1>1 DEF Resumed, Runtimes
<1>5. Suspended(runtime).ready = runtime.ready
  BY <1>1 DEF Suspended, Runtimes
<1>6. Resumed(runtime).ready = runtime.ready
  BY <1>1 DEF Resumed, Runtimes
<1>4. runtime.depth = 1 => Resumed(runtime).depth = 0 /\ Resumed(runtime).blocked = FALSE
  BY <1>1 DEF Resumed, Runtimes
<1> QED BY <1>2, <1>3, <1>4, <1>5, <1>6

\* The user starts a command.
LEMMA ChangeKeeps == IInv /\ Change => IInv'
<1> SUFFICES ASSUME IInv, Change PROVE IInv'
  OBVIOUS
<1>1. /\ call.pc = "idle" /\ runtime.ready /\ ~runtime.blocked /\ call' = Asks(Idle, "begin")
      /\ UNCHANGED <<child_, pipe, reading, read, buffer, retrying, view, runtime, heard, base>>
  BY DEF Change, Open
<1>2. /\ call' \in Call /\ call'.pc = "begin" /\ call'.answer = None
      /\ call'.boot = FALSE /\ call'.pass = 1
  BY <1>1, IdleCall, AskingCall DEF Asking
<1>3. ~buffer.active
  BY <1>1 DEF IInv, PhaseInv
<1>4. \A i \in DOMAIN pipe : ~IsAnswer(pipe[i]) /\ pipe[i].session = child
  BY <1>1 DEF IInv, CallInv, Asking
<1>5. counts' \in [events : 0..MaxEvents, changes : 0..MaxChanges, failures : 0..MaxFailures]
  BY Counted DEF IInv, Change
<1>6. TypeOK' /\ PipeInv(pipe, read, written, child)' /\ CallInv'
  <2>1. TypeOK
    BY DEF IInv
  <2> QED BY <2>1, <1>1, <1>2, <1>4, <1>5, Parts, Continued
<1>7. ~retrying
  BY <1>1, <1>3 DEF IInv, PhaseInv
<1>8. PhaseInv'
  <2>1. ~call.boot
    BY <1>1 DEF IInv, CallInv
  <2> QED BY <2>1, <1>1, <1>2, <1>3, <1>7 DEF IInv, PhaseInv
<1>9. SettledInv' /\ OperateInv' /\ HydrationInv' /\ Unmixed'
  BY <1>1, <1>2, <1>3
  DEF IInv, child_, SettledInv, Shows, OperateInv, HydrationInv, Hydrating, Unmixed
<1> QED BY <1>6, <1>8, <1>9 DEF IInv

\* Beginning the replacement.
LEMMA BeginKeeps == IInv /\ Begin => IInv'
<1> SUFFICES ASSUME IInv, Begin PROVE IInv'
  OBVIOUS
<1>0. TypeOK
  BY DEF IInv
<1>1. /\ call.pc = "begin" /\ call.answer.what \in {"ok", "error"}
      /\ UNCHANGED <<child_, pipe, reading, read, counts, view, heard, base>>
      /\ UNCHANGED <<child, written>>
  BY DEF Begin, Resumes, child_
<1>2. call.answer # None
  BY <1>1 DEF None
<1>3. \A i \in DOMAIN pipe : ~IsAnswer(pipe[i]) /\ pipe[i].session = child
  BY <1>2, Arrived
<1>4. ~buffer.active /\ ~retrying /\ ~call.boot /\ call.pass = 1
  BY <1>1 DEF IInv, PhaseInv, CallInv
<1>5. runtime.ready /\ runtime.depth = 0 /\ ~runtime.blocked
  BY <1>1, <1>4 DEF IInv, PhaseInv
<1>6. Shows(read[child])
  BY <1>4 DEF IInv, SettledInv
<1>7. CASE call.answer.what = "error"
  <2>1. call' = Idle /\ UNCHANGED <<buffer, retrying, runtime>>
    BY <1>7 DEF Begin
  <2>2. TypeOK' /\ PipeInv(pipe, read, written, child)' /\ CallInv'
    BY <2>1, <1>0, <1>1, <1>3, IdleCall, Parts, Continued
  <2>3. PhaseInv'
    BY <2>1, <1>1, <1>4, <1>5, IdleCall DEF PhaseInv
  <2>4. SettledInv' /\ OperateInv' /\ HydrationInv' /\ Unmixed'
    BY <2>1, <1>1, <1>4, <1>6, IdleCall
       DEF IInv, SettledInv, Shows, OperateInv, HydrationInv, Hydrating, Unmixed
  <2> QED BY <2>2, <2>3, <2>4 DEF IInv
<1>8. CASE call.answer.what # "error"
  <2>1. call' = Asks(call, "operate") /\ buffer' = Begun /\ retrying' = FALSE
        /\ runtime' = Suspended(runtime)
    BY <1>8 DEF Begin
  <2>2. /\ call' \in Call /\ call'.pc = "operate" /\ call'.answer = None
        /\ call'.boot = call.boot /\ call'.pass = 1
    BY <2>1, <1>0, <1>4, Parts, AskingCall DEF Asking
  <2>3. TypeOK' /\ PipeInv(pipe, read, written, child)' /\ CallInv'
    BY <2>1, <2>2, <1>0, <1>1, <1>3, <1>4, Parts, Marks, Runs, Continued
  <2>4. PhaseInv'
    <3>1. /\ buffer'.active = TRUE /\ retrying' = FALSE /\ runtime'.depth = 1
          /\ runtime'.blocked = TRUE /\ runtime'.ready /\ ~call'.boot
      <4>1. buffer'.active = TRUE /\ retrying' = FALSE
        BY <2>1, Marks
      <4>2. runtime'.depth = 1 /\ runtime'.blocked = TRUE
        <5>1. runtime'.depth = runtime.depth + 1 /\ runtime'.blocked = TRUE
          BY <2>1, <1>0, Runs
        <5> QED BY <5>1, <1>5
      <4>3. runtime'.ready
        BY <2>1, <1>0, <1>5, Runs
      <4>4. ~call'.boot
        BY <2>2, <1>4
      <4> QED BY <4>1, <4>2, <4>3, <4>4
    <3> QED BY <3>1, <2>2 DEF PhaseInv
  <2>5. SettledInv' /\ HydrationInv' /\ Unmixed'
    BY <2>1, <2>2, <1>1, Marks DEF IInv, SettledInv, HydrationInv, Hydrating, Unmixed
  <2>6. OperateInv'
    <3>1. buffer'.events = <<>> /\ Len(buffer'.events) = 0
      BY <2>1, Marks, EmptySeq
    <3>2. PICK r : r = read[child]
      OBVIOUS
    <3>3. r \in Nat /\ r = read'[child'] - Len(buffer'.events)
      BY <3>1, <3>2, <1>0, <1>1, Typed
    <3>4. Shows(r)'
      BY <3>2, <1>1, <1>6 DEF Shows
    <3>5. buffer'.events = Span(child, r, r)
      BY <3>1, <3>3, <1>0, Parts, NoSpan
    <3>6. buffer'.events = Span(child', r, read'[child'])
      BY <3>2, <3>5, <1>1
    <3> QED BY <3>3, <3>4, <3>6 DEF OperateInv
  <2> QED BY <2>3, <2>4, <2>5, <2>6 DEF IInv
<1> QED BY <1>7, <1>8

\* A cancelled command: what was held back is shown, and nothing else has changed.
LEMMA CancelKeeps == IInv /\ Cancel => IInv'
<1> SUFFICES ASSUME IInv, Cancel PROVE IInv'
  OBVIOUS
<1>0. TypeOK /\ child \in Session /\ read[child] \in Nat /\ base[child] \in Nat
  BY Typed, Parts DEF IInv
<1>1. /\ call.pc = "operate" /\ call.answer.what = "cancelled"
      /\ call' = Idle /\ buffer' = Closed /\ retrying' = FALSE /\ runtime' = Resumed(runtime)
      /\ view' = Processed(view, buffer.events) /\ heard' = heard \o buffer.events
      /\ UNCHANGED <<child_, pipe, reading, read, counts, base>>
      /\ UNCHANGED <<child, written>>
  BY DEF Cancel, Resumes, Unswitched, child_
<1>2. call.answer # None
  BY <1>1 DEF None
<1>3. \A i \in DOMAIN pipe : ~IsAnswer(pipe[i]) /\ pipe[i].session = child
  BY <1>2, Arrived
<1>4. Intact
  BY <1>1 DEF Intact
<1>5. PICK r : /\ r = read[child] - Len(buffer.events)
               /\ Shows(r) /\ buffer.events = Span(child, r, read[child])
  BY <1>1, <1>4 DEF IInv, OperateInv
<1>6. r \in Nat /\ r <= read[child] /\ base[child] <= r /\ base[child] <= read[child]
  <2>1. Len(buffer.events) \in Nat /\ r = read[child] - Len(buffer.events) /\ base[child] <= r
    BY <1>0, <1>5, Typed DEF Shows
  <2>2. r \in Nat
    BY <2>1, <1>0
  <2> QED BY <2>1, <2>2, <1>0
<1>7. /\ view.owner = child /\ view.shown = Upto(child, r) /\ view.state = <<child, r>>
      /\ heard = Span(child, base[child], r)
  BY <1>5 DEF Shows
<1> DEFINE q == Span(child, r, read[child])
<1>8. /\ q \in Seq(Event) /\ Len(q) = read[child] - r
      /\ r < read[child] => Last(q) = <<child, read[child]>>
      /\ q = <<>> <=> r = read[child]
  <2>1. /\ q \in Seq(Event) /\ Len(q) = read[child] - r
        /\ r < read[child] => Last(q) = <<child, read[child]>>
    BY <1>0, <1>6, Spans
  <2> HIDE DEF q
  <2>2. q = <<>> <=> Len(q) = 0
    BY <2>1, Places
  <2> QED BY <2>1, <2>2, <1>0, <1>6
<1>9. Upto(child, r) \cup ToSet(q) = Upto(child, read[child])
  BY <1>0, <1>6, Completes, r <= r
<1>10. heard \o q = Span(child, base[child], read[child])
  <2>1. Span(child, base[child], r) \o q = Span(child, base[child], read[child])
    BY <1>0, <1>6, SpansMeet
  <2> QED BY <2>1, <1>7
<1> HIDE DEF q
<1>11. view' = Processed(view, q) /\ heard' = heard \o q
  BY <1>1, <1>5 DEF q
<1>12. view \in Views
  BY <1>0, Parts
<1>13. /\ view'.owner = child /\ view'.shown = Upto(child, read[child])
       /\ view'.state = <<child, read[child]>>
  <2>1. view'.owner = child /\ view'.shown = Upto(child, r) \cup ToSet(q)
    BY <1>7, <1>11, <1>12 DEF Processed, Views
  <2>2. view'.state = IF q = <<>> THEN view.state ELSE Last(q)
    BY <1>11, <1>12 DEF Processed, Views
  <2> QED BY <2>1, <2>2, <1>0, <1>6, <1>7, <1>8, <1>9
<1>14. Shows(read[child])'
  <2>1. PICK x : x = read[child]
    OBVIOUS
  <2>2. Shows(x)'
    BY <2>1, <1>0, <1>1, <1>6, <1>10, <1>11, <1>13 DEF Shows
  <2> QED BY <2>1, <2>2, <1>1
<1>15. view' \in Views /\ heard' \in Seq(Event)
  <2>1. Upto(child, read[child]) \subseteq Event
    BY <1>0 DEF Upto, Event
  <2>2. heard' \in Seq(Event)
    BY <1>0, <1>6, <1>10, <1>11, Spans
  <2>3. view' = [view EXCEPT !.shown = view'.shown, !.state = view'.state]
    BY <1>11, <1>12 DEF Processed, Views
  <2> QED BY <2>1, <2>2, <2>3, <1>0, <1>12, <1>13 DEF Views
<1>16. TypeOK' /\ PipeInv(pipe, read, written, child)' /\ CallInv'
  <2>1. /\ call' \in Call /\ call'.answer = None /\ ~call'.boot /\ call'.pass = 1
        /\ buffer' \in Buffers /\ retrying' \in BOOLEAN /\ runtime' \in Runtimes
        /\ base' \in [Session -> Nat]
    BY <1>0, <1>1, IdleCall, Marks, Runs, Parts
  <2>2. counts' \in [events : 0..MaxEvents, changes : 0..MaxChanges, failures : 0..MaxFailures]
    BY <1>0, <1>1, Parts
  <2> QED BY <2>1, <2>2, <1>1, <1>3, <1>15, Continued
<1>17. PhaseInv'
  <2>1. runtime.ready /\ runtime.depth = 1
    BY <1>1 DEF IInv, PhaseInv, CallInv
  <2>2. buffer'.active = FALSE /\ call'.pc = "idle" /\ ~call'.boot /\ retrying' = FALSE
    BY <1>1, IdleCall, Marks
  <2>3. runtime'.ready /\ runtime'.depth = 0 /\ runtime'.blocked = FALSE
    BY <2>1, <1>0, <1>1, Runs
  <2> QED BY <2>2, <2>3 DEF PhaseInv
<1>18. SettledInv' /\ OperateInv' /\ HydrationInv'
  BY <1>1, <1>14, IdleCall, Marks DEF SettledInv, OperateInv, HydrationInv, Hydrating
<1>19. Unmixed'
  <2>1. \A x \in Upto(child, read[child]) \cup ToSet(Span(child, base[child], read[child])) :
           x[1] = child
    BY <1>0, <1>6, OfOneSession
  <2> QED BY <2>1, <1>10, <1>11, <1>13 DEF Unmixed
<1> QED BY <1>16, <1>17, <1>18, <1>19 DEF IInv

\* The old session is detached, and what was captured of it dropped.
LEMMA RefreshKeeps == IInv /\ Refresh => IInv'
<1> SUFFICES ASSUME IInv, Refresh PROVE IInv'
  OBVIOUS
<1>0. TypeOK /\ child \in Session /\ read[child] \in Nat /\ Len(buffer.events) \in Nat
  BY Typed, Parts DEF IInv
<1>1. /\ call.pc = "operate" /\ call.answer.what \in {"ok", "error"}
      /\ buffer' = Baseline(buffer) /\ base' = read /\ heard' = <<>>
      /\ view' = [view EXCEPT !.owner = Nobody, !.shown = {}]
      /\ call' = Asks(Idle, "state")
      /\ UNCHANGED <<child_, pipe, reading, read, counts, retrying, runtime>>
      /\ UNCHANGED <<child, written>>
  BY DEF Refresh, Resumes, child_
<1>2. call.answer # None
  BY <1>1 DEF None
<1>3. \A i \in DOMAIN pipe : ~IsAnswer(pipe[i]) /\ pipe[i].session = child
  BY <1>2, Arrived
<1>4. buffer.active /\ ~retrying /\ ~call.boot
  BY <1>1 DEF IInv, PhaseInv, CallInv
<1>5. /\ call' \in Call /\ call'.pc = "state" /\ call'.answer = None
      /\ call'.boot = FALSE /\ call'.pass = 1
  BY <1>1, IdleCall, AskingCall DEF Asking
<1>6. /\ buffer' \in Buffers /\ buffer'.active = buffer.active
      /\ buffer'.failure = Len(buffer.events) /\ buffer'.replay = Len(buffer.events)
      /\ buffer'.events = buffer.events
  BY <1>0, <1>1, Parts, Marks
<1>7. view' \in Views /\ view'.shown = {}
  BY <1>0, <1>1, Parts DEF Views
<1>8. TypeOK' /\ PipeInv(pipe, read, written, child)' /\ CallInv'
  <2>1. heard' \in Seq(Event) /\ base' \in [Session -> Nat]
    BY <1>0, <1>1, EmptySeq, Parts
  <2>2. /\ retrying' \in BOOLEAN /\ runtime' \in Runtimes
        /\ counts' \in [events : 0..MaxEvents, changes : 0..MaxChanges, failures : 0..MaxFailures]
    BY <1>0, <1>1, Parts
  <2> QED BY <2>1, <2>2, <1>1, <1>3, <1>5, <1>6, <1>7, Continued
<1>9. PhaseInv'
  <2>1. runtime.ready /\ runtime.depth = 1 /\ runtime.blocked
    BY <1>1, <1>4 DEF IInv, PhaseInv
  <2> QED BY <2>1, <1>1, <1>4, <1>5, <1>6 DEF PhaseInv
<1>10. SettledInv' /\ OperateInv'
  BY <1>4, <1>5, <1>6 DEF SettledInv, OperateInv
<1>11. Unmixed'
  BY <1>1, <1>7, NothingShown DEF Unmixed
<1>12. HydrationInv'
  <2>1. base'[child'] = read'[child'] /\ read'[child'] = read[child]
    BY <1>1
  <2>2. call'.answer.what = "none"
    BY <1>5 DEF None
  <2>3. 1..(read'[child'] - base'[child']) = {}
    BY <2>1, <1>0
  <2> QED BY <2>1, <2>2, <2>3, <1>0, <1>1, <1>5, <1>6, <1>7 DEF HydrationInv
<1> QED BY <1>8, <1>9, <1>10, <1>11, <1>12 DEF IInv

\* The barrier moves up to what has been read: the rest of the hydration stays.
LEMMA BarrierMoves ==
  ASSUME IInv, Hydrating, buffer' = Barrier(buffer), call' \in Call, call'.pc = "state",
         call'.answer = None, call'.pass > 1 => view.owner = child,
         UNCHANGED <<child, read, base, view, heard>>
  PROVE  HydrationInv'
<1>1. /\ TypeOK /\ buffer'.failure = buffer.failure /\ buffer'.replay = Len(buffer.events)
      /\ buffer'.events = buffer.events /\ buffer.failure \in Nat /\ Len(buffer.events) \in Nat
  BY Parts, Marks, Typed DEF IInv
<1>2. call'.answer.what = "none"
  BY DEF None
<1>3. /\ heard = <<>> /\ view.shown = {}
      /\ buffer.failure <= buffer.replay /\ buffer.replay <= Len(buffer.events)
      /\ base[child] <= read[child]
      /\ Len(buffer.events) - buffer.failure = read[child] - base[child]
      /\ \A i \in 1..(read[child] - base[child]) :
            buffer.events[buffer.failure + i] = <<child, base[child] + i>>
  BY DEF IInv, HydrationInv
<1>4. buffer.failure <= Len(buffer.events) /\ Len(buffer.events) <= Len(buffer.events)
  BY <1>1, <1>3, Typed
<1> QED BY <1>1, <1>2, <1>3, <1>4 DEF HydrationInv

\* The timer tries again.
LEMMA RetryKeeps == IInv /\ Retry => IInv'
<1> SUFFICES ASSUME IInv, Retry PROVE IInv'
  OBVIOUS
<1>0. TypeOK
  BY DEF IInv
<1>1. /\ retrying /\ call.pc = "idle" /\ buffer' = Barrier(buffer) /\ runtime' = runtime
      /\ call' = Asks(Idle, "state")
      /\ UNCHANGED <<child_, pipe, reading, read, counts, retrying, view, heard, base>>
      /\ UNCHANGED <<child, written>>
  BY DEF Retry, Resumes, RetryRuntime, child_
<1>2. \A i \in DOMAIN pipe : ~IsAnswer(pipe[i]) /\ pipe[i].session = child
  BY <1>1 DEF IInv, CallInv, Asking
<1>3. /\ call' \in Call /\ call'.pc = "state" /\ call'.answer = None
      /\ call'.boot = FALSE /\ call'.pass = 1
  BY <1>1, IdleCall, AskingCall DEF Asking
<1>4. buffer.active /\ ~call.boot /\ Hydrating
  BY <1>1 DEF IInv, PhaseInv, CallInv, Hydrating
<1>5. buffer' \in Buffers /\ buffer'.active = buffer.active
  BY <1>0, <1>1, Parts, Marks
<1>6. TypeOK' /\ PipeInv(pipe, read, written, child)' /\ CallInv'
  BY <1>0, <1>1, <1>2, <1>3, <1>5, Parts, Continued
<1>7. PhaseInv'
  <2>1. runtime.ready /\ runtime.depth = 1 /\ runtime.blocked
    BY <1>1, <1>4 DEF IInv, PhaseInv
  <2> QED BY <2>1, <1>1, <1>3, <1>4, <1>5 DEF PhaseInv
<1>8. SettledInv' /\ OperateInv' /\ Unmixed'
  BY <1>1, <1>3, <1>4, <1>5 DEF IInv, SettledInv, OperateInv, Unmixed
<1>9. HydrationInv'
  BY <1>1, <1>3, <1>4, BarrierMoves
<1> QED BY <1>6, <1>7, <1>8, <1>9 DEF IInv

\* Another pass.
LEMMA NextPassKeeps == IInv /\ NextPass => IInv'
<1> SUFFICES ASSUME IInv, NextPass PROVE IInv'
  OBVIOUS
<1>0. TypeOK
  BY DEF IInv
<1>1. /\ call.pc = "messages" /\ call.answer.what = "ok" /\ call.pass < Passes
      /\ buffer' = Barrier(buffer)
      /\ call' = Asks([call EXCEPT !.pass = @ + 1], "state")
      /\ UNCHANGED <<child_, pipe, reading, read, counts, retrying, view, runtime, heard, base>>
      /\ UNCHANGED <<child, written>>
  BY DEF NextPass, Resumes, Repeats, child_
<1>2. call.answer # None
  BY <1>1 DEF None
<1>3. \A i \in DOMAIN pipe : ~IsAnswer(pipe[i]) /\ pipe[i].session = child
  BY <1>2, Arrived
<1>4. /\ call' \in Call /\ call'.pc = "state" /\ call'.answer = None
      /\ call'.boot = call.boot
  <2>1. call.pass + 1 \in 1..Passes
    BY <1>0, <1>1, Typed, HydrationAssumption DEF HydrationAssumption
  <2>2. [call EXCEPT !.pass = @ + 1] \in Call
    BY <2>1, <1>0, Parts DEF Call
  <2>3. [call EXCEPT !.pass = @ + 1].boot = call.boot
    BY <1>0, Parts DEF Call
  <2> QED BY <2>2, <2>3, <1>1, AskingCall DEF Asking
<1>5. buffer.active /\ Hydrating /\ view.owner = child
  BY <1>1 DEF IInv, PhaseInv, HydrationInv, Hydrating
<1>6. buffer' \in Buffers /\ buffer'.active = buffer.active
  BY <1>0, <1>1, Parts, Marks
<1>7. TypeOK' /\ PipeInv(pipe, read, written, child)' /\ CallInv'
  BY <1>0, <1>1, <1>3, <1>4, <1>6, Parts, Continued
<1>8. PhaseInv'
  BY <1>1, <1>4, <1>5, <1>6 DEF IInv, PhaseInv
<1>9. SettledInv' /\ OperateInv' /\ Unmixed'
  BY <1>1, <1>4, <1>5, <1>6 DEF IInv, SettledInv, OperateInv, Unmixed
<1>10. HydrationInv'
  BY <1>1, <1>4, <1>5, BarrierMoves
<1> QED BY <1>7, <1>8, <1>9, <1>10 DEF IInv

\* The state has arrived.
LEMMA StateReadKeeps == IInv /\ StateRead => IInv'
<1> SUFFICES ASSUME IInv, StateRead PROVE IInv'
  OBVIOUS
<1>0. TypeOK /\ child \in Session
  BY Parts DEF IInv
<1>1. /\ call.pc = "state" /\ call.answer.what = "ok"
      /\ call' = Asks(call, "messages")
      /\ view' = [view EXCEPT
                    !.owner = IF call.pass = 1 THEN call.answer.session ELSE @,
                    !.state = <<call.answer.session, call.answer.n>>]
      /\ heard' = IF call.pass = 1 THEN <<>> ELSE heard
      /\ UNCHANGED <<child_, pipe, reading, read, counts, buffer, retrying, runtime, base>>
      /\ UNCHANGED <<child, written>>
  BY DEF StateRead, Resumes, child_
<1>2. call.answer # None
  BY <1>1 DEF None
<1>3. \A i \in DOMAIN pipe : ~IsAnswer(pipe[i]) /\ pipe[i].session = child
  BY <1>2, Arrived
<1>4. /\ call' \in Call /\ call'.pc = "messages" /\ call'.answer = None
      /\ call'.boot = call.boot /\ call'.pass = call.pass
  BY <1>0, <1>1, Parts, AskingCall DEF Asking
<1>5. buffer.active /\ Hydrating
  BY <1>1 DEF IInv, PhaseInv, Hydrating
<1>6. /\ call.answer.session = child /\ call.answer.n \in Nat
      /\ Mark <= call.answer.n /\ call.answer.n <= read[child]
  BY <1>0, <1>1, <1>2, <1>5, Typed DEF IInv, CallInv, HydrationInv
<1>7. heard = <<>> /\ view.shown = {} /\ (call.pass > 1 => view.owner = child)
  BY <1>5 DEF IInv, HydrationInv
<1>8. call.pass = 1 \/ call.pass > 1
  BY <1>0, Typed
<1>9. view' \in Views /\ view'.owner = child /\ view'.shown = {}
      /\ view'.state = <<child, call.answer.n>>
  <2>1. view \in Views
    BY <1>0, Parts
  <2>2. (IF call.pass = 1 THEN call.answer.session ELSE view.owner) = child
    BY <1>6, <1>7, <1>8
  <2>3. view' = [view EXCEPT !.owner = child, !.state = <<child, call.answer.n>>]
    BY <2>2, <1>1, <1>6
  <2> QED BY <2>1, <2>3, <1>0, <1>6, <1>7 DEF Views
<1>10. heard' = <<>>
  BY <1>1, <1>7
<1>11. TypeOK' /\ PipeInv(pipe, read, written, child)' /\ CallInv'
  <2>1. heard' \in Seq(Event)
    BY <1>10, EmptySeq
  <2> QED BY <2>1, <1>0, <1>1, <1>3, <1>4, <1>9, Parts, Continued
<1>12. PhaseInv'
  BY <1>1, <1>4, <1>5 DEF IInv, PhaseInv
<1>13. SettledInv' /\ OperateInv'
  BY <1>1, <1>4, <1>5 DEF SettledInv, OperateInv
<1>14. Unmixed'
  BY <1>9, <1>10, NothingShown DEF Unmixed
<1>15. HydrationInv'
  <2>1. Mark' = Mark
    BY <1>1 DEF Mark
  <2>2. call'.answer.what = "none"
    BY <1>4 DEF None
  <2>3. \E k \in Nat : view'.state = <<child, k>> /\ Mark <= k /\ k <= read[child]
    BY <1>6, <1>9
  <2> QED BY <2>1, <2>2, <2>3, <1>1, <1>4, <1>5, <1>9, <1>10 DEF IInv, HydrationInv
<1> QED BY <1>11, <1>12, <1>13, <1>14, <1>15 DEF IInv

\* The end: the answers and the replay make up everything that was read.
LEMMA CommitKeeps == IInv /\ Commit => IInv'
<1> SUFFICES ASSUME IInv, Commit PROVE IInv'
  OBVIOUS
<1>0. TypeOK /\ child \in Session /\ read[child] \in Nat /\ base[child] \in Nat
      /\ buffer.failure \in Nat /\ buffer.replay \in Nat /\ Len(buffer.events) \in Nat
      /\ buffer.events \in Seq(Event)
  BY Typed, Parts DEF IInv
<1> DEFINE b == Covered(buffer)
           n == call.answer.n
           fetched == [view EXCEPT !.shown = Upto(call.answer.session, n)]
<1>1. /\ call.pc = "messages" /\ call.answer.what = "ok"
      /\ view' = Processed(fetched, Suffix(b))
      /\ heard' = heard \o Superseded(b) \o Suffix(b)
      /\ buffer' = Closed /\ retrying' = FALSE /\ call' = Idle
      /\ runtime' = IF call.boot THEN [runtime EXCEPT !.ready = TRUE] ELSE Resumed(runtime)
      /\ UNCHANGED <<child_, pipe, reading, read, counts, base>>
      /\ UNCHANGED <<child, written>>
  BY DEF Commit, Resumes, child_
<1>2. call.answer # None
  BY <1>1 DEF None
<1>3. \A i \in DOMAIN pipe : ~IsAnswer(pipe[i]) /\ pipe[i].session = child
  BY <1>2, Arrived
<1>4. buffer.active /\ Hydrating
  BY <1>1 DEF IInv, PhaseInv, Hydrating
<1>5. /\ call.answer.session = child /\ n \in Nat /\ Mark <= n /\ n <= read[child]
  BY <1>0, <1>1, <1>2, <1>4, Typed DEF IInv, CallInv, HydrationInv
<1>6. /\ heard = <<>> /\ view.owner = child
      /\ buffer.failure <= buffer.replay /\ buffer.replay <= Len(buffer.events)
      /\ base[child] <= read[child]
      /\ Len(buffer.events) - buffer.failure = read[child] - base[child]
      /\ \A i \in 1..(read[child] - base[child]) :
            buffer.events[buffer.failure + i] = <<child, base[child] + i>>
  BY <1>1, <1>4 DEF IInv, HydrationInv
<1>7. PICK k \in Nat : view.state = <<child, k>> /\ Mark <= k /\ k <= read[child]
  BY <1>1, <1>4 DEF IInv, HydrationInv
<1>8. Mark \in Nat /\ Mark <= read[child] /\ base[child] <= Mark
  BY <1>0, <1>6 DEF Mark
<1>9. b = buffer
  <2>1. ASSUME ~Noisy(buffer) PROVE Barrier(buffer) = buffer
    <3>1. buffer.replay = Len(buffer.events)
      BY <2>1, <1>0, <1>6 DEF Noisy
    <3> QED BY <3>1, <1>0, Parts DEF Barrier, Buffers
  <2> QED BY <2>1 DEF Covered
<1> DEFINE p == Span(child, base[child], Mark)
           q == Span(child, Mark, read[child])
<1>10. Superseded(buffer) = p /\ Suffix(buffer) = q
  <2>1. Follows(buffer.events, buffer.failure, child, base[child], read[child])
    BY <1>6 DEF Follows
  <2>2. PICK w \in Seq(Event) : w = buffer.events
    BY <1>0
  <2>3. PICK f \in Nat, m \in Nat, z \in Nat :
          f = buffer.failure /\ m = buffer.replay /\ z = Len(buffer.events)
    BY <1>0
  <2>4. PICK u \in Session, x \in Nat, v \in Nat, y \in Nat :
          u = child /\ x = base[child] /\ v = Mark /\ y = read[child]
    BY <1>0, <1>8
  <2>5. /\ f <= m /\ m <= z /\ z = Len(w) /\ z - f = y - x /\ v = x + (m - f)
        /\ Follows(w, f, u, x, y)
    BY <1>6, <2>1, <2>2, <2>3, <2>4 DEF Mark
  <2>6. IsCut(w, f, m, z, u, x, v, y)
    BY <2>5 DEF IsCut
  <2>7. /\ u \in Session /\ x \in Nat /\ v \in Nat /\ y \in Nat
        /\ w \in Seq(Event) /\ f \in Nat /\ m \in Nat /\ z \in Nat
    OBVIOUS
  <2>8. Piece(w, f, m) = Span(u, x, v)
    BY ONLY <2>6, <2>7, Halves
  <2>9. Piece(w, m, z) = Span(u, v, y)
    BY ONLY <2>6, <2>7, Halves
  <2>10. Superseded(buffer) = Piece(w, f, m) /\ Suffix(buffer) = Piece(w, m, z)
    BY <2>2, <2>3 DEF Superseded, Suffix, Piece
  <2> QED BY <2>4, <2>8, <2>9, <2>10
<1>12. p \o q = Span(child, base[child], read[child]) /\ p \in Seq(Event)
  BY <1>0, <1>8, SpansMeet, Spans
<1>13. /\ q \in Seq(Event)
       /\ Mark < read[child] => Last(q) = <<child, read[child]>>
       /\ q = <<>> <=> Mark = read[child]
  <2>1. /\ q \in Seq(Event) /\ Len(q) = read[child] - Mark
        /\ Mark < read[child] => Last(q) = <<child, read[child]>>
    BY <1>0, <1>8, Spans
  <2> HIDE DEF q
  <2>2. q = <<>> <=> Len(q) = 0
    BY <2>1, Places
  <2> QED BY <2>1, <2>2, <1>0, <1>8
<1>14. Upto(child, n) \cup ToSet(q) = Upto(child, read[child])
  BY <1>0, <1>5, <1>8, Completes
<1> HIDE DEF p, q
<1>15. heard' = Span(child, base[child], read[child])
  <2>1. heard \o p = p
    BY <1>6, <1>12, ConcatEmptySeq
  <2> QED BY <2>1, <1>1, <1>9, <1>10, <1>12
<1>16. fetched \in Views /\ fetched.owner = child /\ fetched.shown = Upto(child, n)
       /\ fetched.state = <<child, k>>
  <2>1. Upto(child, n) \subseteq Event
    BY <1>0, <1>5 DEF Upto, Event
  <2> QED BY <2>1, <1>0, <1>5, <1>6, <1>7, Parts DEF Views
<1> HIDE DEF fetched, b
<1>17. /\ view'.owner = child /\ view'.shown = Upto(child, read[child])
       /\ view'.state = <<child, read[child]>> /\ view' \in Views
  <2>1. view' = Processed(fetched, q)
    BY <1>1, <1>9, <1>10
  <2>2. view'.owner = child /\ view'.shown = Upto(child, n) \cup ToSet(q)
    BY <2>1, <1>16 DEF Processed, Views
  <2>3. view'.state = IF q = <<>> THEN <<child, k>> ELSE Last(q)
    BY <2>1, <1>16 DEF Processed, Views
  <2>4. view'.state = <<child, read[child]>>
    <3>1. CASE Mark = read[child]
      <4>1. k = read[child]
        BY <3>1, <1>0, <1>7
      <4> QED BY <4>1, <3>1, <2>3, <1>13
    <3>2. CASE Mark # read[child]
      <4>1. Mark < read[child]
        BY <3>2, <1>0, <1>8
      <4> QED BY <4>1, <3>2, <2>3, <1>13
    <3> QED BY <3>1, <3>2
  <2>5. view' = [fetched EXCEPT !.shown = view'.shown, !.state = view'.state]
    BY <2>1, <1>16 DEF Processed, Views
  <2>6. Upto(child, read[child]) \subseteq Event
    BY <1>0 DEF Upto, Event
  <2> QED BY <2>2, <2>4, <2>5, <2>6, <1>0, <1>14, <1>16 DEF Views
<1>18. Shows(read[child])'
  <2>1. PICK x : x = read[child]
    OBVIOUS
  <2>2. Shows(x)'
    BY <2>1, <1>0, <1>1, <1>6, <1>15, <1>17 DEF Shows
  <2> QED BY <2>1, <2>2, <1>1
<1>19. /\ call' \in Call /\ call'.answer = None /\ ~call'.boot /\ call'.pass = 1
       /\ call'.pc = "idle" /\ buffer' \in Buffers /\ buffer'.active = FALSE
  BY <1>1, IdleCall, Marks
<1>20. PhaseInv' /\ runtime' \in Runtimes
  <2>1. CASE call.boot
    <3>1. ~runtime.ready /\ runtime.depth = 0 /\ ~runtime.blocked
      BY <2>1 DEF IInv, PhaseInv
    <3>2. runtime' = [runtime EXCEPT !.ready = TRUE] /\ runtime \in Runtimes
      BY <2>1, <1>0, <1>1, Parts
    <3>3. runtime' \in Runtimes /\ runtime'.ready /\ runtime'.depth = 0
      BY <3>1, <3>2 DEF Runtimes
    <3>4. runtime'.blocked = runtime.blocked
      BY <3>2 DEF Runtimes
    <3> QED BY <3>1, <3>3, <3>4, <1>1, <1>19 DEF PhaseInv
  <2>2. CASE ~call.boot
    <3>1. runtime.ready /\ runtime.depth = 1
      BY <2>2, <1>1, <1>4 DEF IInv, PhaseInv
    <3>2. runtime' = Resumed(runtime)
      BY <2>2, <1>1
    <3>3. /\ runtime' \in Runtimes /\ runtime'.ready /\ runtime'.depth = 0
          /\ runtime'.blocked = FALSE
      BY <3>1, <3>2, <1>0, Runs
    <3> QED BY <3>3, <1>1, <1>19 DEF PhaseInv
  <2> QED BY <2>1, <2>2
<1>21. TypeOK' /\ PipeInv(pipe, read, written, child)' /\ CallInv'
  <2>1. heard' \in Seq(Event)
    BY <1>0, <1>6, <1>15, Spans
  <2>2. /\ retrying' \in BOOLEAN /\ base' \in [Session -> Nat]
        /\ counts' \in [events : 0..MaxEvents, changes : 0..MaxChanges, failures : 0..MaxFailures]
    BY <1>0, <1>1, Parts
  <2> QED BY <2>1, <2>2, <1>1, <1>3, <1>17, <1>19, <1>20, Continued
<1>22. SettledInv' /\ OperateInv' /\ HydrationInv'
  BY <1>18, <1>19 DEF SettledInv, OperateInv, HydrationInv, Hydrating
<1>23. Unmixed'
  <2>1. \A x \in Upto(child, read[child]) \cup ToSet(Span(child, base[child], read[child])) :
           x[1] = child
    BY <1>0, <1>6, OfOneSession
  <2> QED BY <2>1, <1>15, <1>17 DEF Unmixed
<1> QED BY <1>20, <1>21, <1>22, <1>23 DEF IInv

\* A read that failed.
LEMMA FailKeeps == IInv /\ Fail => IInv'
<1> SUFFICES ASSUME IInv, Fail PROVE IInv'
  OBVIOUS
<1>0. TypeOK
  BY DEF IInv
<1>1. /\ call.pc \in {"state", "messages"} /\ call.answer.what = "error"
      /\ call' = IF call.boot THEN [Idle EXCEPT !.pc = "over"] ELSE Idle
      /\ UNCHANGED <<child_, pipe, reading, read, counts, buffer, view, runtime, heard, base>>
      /\ UNCHANGED <<child, written>>
  BY DEF Fail, Resumes, child_
<1>2. retrying' = ~call.boot
  BY DEF Fail
<1>3. call.answer # None
  BY <1>1 DEF None
<1>4. \A i \in DOMAIN pipe : ~IsAnswer(pipe[i]) /\ pipe[i].session = child
  BY <1>3, Arrived
<1>5. /\ call' \in Call /\ call'.answer = None /\ call'.boot = FALSE /\ call'.pass = 1
      /\ call'.pc = IF call.boot THEN "over" ELSE "idle"
  <2>1. [Idle EXCEPT !.pc = "over"] \in Call /\ [Idle EXCEPT !.pc = "over"].pc = "over"
        /\ [Idle EXCEPT !.pc = "over"].boot = FALSE /\ [Idle EXCEPT !.pc = "over"].pass = 1
        /\ [Idle EXCEPT !.pc = "over"].answer = None
    BY IdleCall DEF Call
  <2> QED BY <2>1, <1>1, IdleCall
<1>6. buffer.active /\ Hydrating
  BY <1>1 DEF IInv, PhaseInv, Hydrating
<1>7. TypeOK' /\ PipeInv(pipe, read, written, child)' /\ CallInv'
  <2>1. retrying' \in BOOLEAN
    BY <1>2
  <2> QED BY <2>1, <1>0, <1>1, <1>4, <1>5, Parts, Continued
<1>8. PhaseInv'
  <2>1. CASE call.boot
    <3>1. ~runtime.ready /\ runtime.depth = 0 /\ ~runtime.blocked
      BY <2>1 DEF IInv, PhaseInv
    <3> QED BY <3>1, <2>1, <1>1, <1>2, <1>5, <1>6 DEF PhaseInv
  <2>2. CASE ~call.boot
    <3>1. runtime.ready /\ runtime.depth = 1 /\ runtime.blocked
      BY <2>2, <1>1, <1>6 DEF IInv, PhaseInv
    <3> QED BY <3>1, <2>2, <1>1, <1>2, <1>5, <1>6 DEF PhaseInv
  <2> QED BY <2>1, <2>2
<1>9. SettledInv' /\ OperateInv' /\ Unmixed'
  BY <1>1, <1>5, <1>6 DEF IInv, SettledInv, OperateInv, Unmixed
<1>10. HydrationInv'
  <2>1. Mark' = Mark /\ call'.answer.what = "none"
    BY <1>1, <1>5 DEF Mark, None
  <2> QED BY <2>1, <1>1, <1>5, <1>6 DEF IInv, HydrationInv
<1> QED BY <1>7, <1>8, <1>9, <1>10 DEF IInv

-----------------------------------------------------------------------------
LEMMA Inductive == IInv /\ [Next]_vars => IInv'
<1> SUFFICES ASSUME IInv, [Next]_vars PROVE IInv'
  OBVIOUS
<1>1. CASE Emit
  BY <1>1, EmitKeeps
<1>2. CASE Answer
  BY <1>2, AnswerStep
<1>3. CASE Refuse
  BY <1>3, RefuseStep
<1>4. CASE TimeOut
  BY <1>4, TimeOutKeeps
<1>5. CASE ReadLine
  BY <1>5, ReadLineStep
<1>6. CASE Change
  BY <1>6, ChangeKeeps
<1>7. CASE Continue
  BY <1>7, BeginKeeps, CancelKeeps, RefreshKeeps, StateReadKeeps, NextPassKeeps, CommitKeeps,
     FailKeeps DEF Continue
<1>8. CASE Retry
  BY <1>8, RetryKeeps
<1>9. CASE UNCHANGED vars
  <2>1. UNCHANGED <<child, written, pipe, reading, buffer, call, retrying, view, runtime, heard,
                    read, base, counts>>
    BY <1>9 DEF vars
  <2>2. TypeOK' /\ PipeInv(pipe, read, written, child)' /\ CallInv' /\ PhaseInv'
    BY <2>1 DEF IInv, TypeOK, CallInv, PhaseInv
  <2>3. Intact' <=> Intact
    BY <2>1 DEF Intact
  <2>4. SettledInv' /\ OperateInv' /\ HydrationInv' /\ Unmixed'
    BY <2>1, <2>3 DEF IInv, SettledInv, OperateInv, Shows, HydrationInv, Hydrating, Mark, Unmixed
  <2> QED BY <2>2, <2>4 DEF IInv
<1> QED BY <1>1, <1>2, <1>3, <1>4, <1>5, <1>6, <1>7, <1>8, <1>9 DEF Next

LEMMA Invariant == Spec => []IInv
  BY InitInv, Inductive, PTL DEF Spec

(***************************************************************************)
(* The theorems.                                                           *)
(***************************************************************************)
\* Every variable keeps its type, whatever the child writes and where the chunks of
\* the pipe end.
THEOREM TypesHold == Spec => []TypeOK
<1>1. IInv => TypeOK
  BY DEF IInv
<1> QED BY <1>1, Invariant, PTL

\* Whenever no replacement is under way, everyone has every event the host has read of
\* the session the child has open, once and in order: none falls between the answers
\* of get_state and get_messages and the replay of the buffer.
THEOREM EventsAreKept == Spec => []NoEventLost
<1>1. IInv => NoEventLost
  <2> SUFFICES ASSUME IInv, Settled PROVE NoEventLost
    BY DEF NoEventLost
  <2>1. Shows(read[child])
    BY DEF IInv, SettledInv, Settled
  <2> QED BY <2>1 DEF NoEventLost, Shows, SinceBaseline, Span
<1> QED BY <1>1, Invariant, PTL

\* What is shown and heard is of the session bound, and while input is open that is the
\* one the child has open, whether an operation was cancelled, failed or timed out.
THEOREM SessionsAreNotMixed == Spec => []NothingMixed
<1>1. IInv => NothingMixed
  <2> SUFFICES ASSUME IInv PROVE NothingMixed
    OBVIOUS
  <2>1. ASSUME Open PROVE view.owner = child
    <3>1. ~buffer.active
      BY <2>1 DEF IInv, PhaseInv, Open
    <3> QED BY <3>1 DEF IInv, SettledInv, Shows
  <2> QED BY <2>1 DEF IInv, Unmixed, NothingMixed
<1> QED BY <1>1, Invariant, PTL
=============================================================================
