-------------------------- MODULE PnPFilter_proof --------------------------
(***************************************************************************)
(* Machine-checked proofs about PnPFilter, for any devices, any scripts    *)
(* and any number of threads: the counts of a virtual PDO are exact, no    *)
(* extension is freed under its users, the deletion is reported last.      *)
(***************************************************************************)
EXTENDS PnPFilterTypes_proof

\* Who has a remove lock.
Asks(t)  == th[t].pc \notin {"next", "done"} /\ Does(t, {"query", "pass", "start"})
Walks(t) == th[t].pc \in {"walk", "tell", "read", "state"}
Holds(x) == {<<"own", t>> : t \in {u \in Threads : Adds(u) /\ th[u].x = x}}
            \cup {<<"hook", t>> : t \in {u \in Threads : Hooks(u) /\ th[u].h = x}}
            \cup {<<"filter", t>> : t \in {u \in Threads : Asks(u) /\ th[u].f = x}}
            \cup {<<"report", t>> : t \in {u \in Threads : Walks(u) /\ th[u].request = x}}
Held == \A x \in Exts : ext[x].holders = Cardinality(Holds(x))

\* What becomes of an extension: it leaves the list before it is freed.
Lasting(x) ==
  /\ Listed(x) => ext[x].life = "live" /\ ~ext[x].marked
  /\ ext[x].life = "freed" => ext[x].holders = 0

Removes(t) == /\ th[t].pc # "next"
              /\ Does(t, {"remove", "detach"})
              /\ \/ th[t].pc \in {"closing", "free", "release", "releasing", "spin", "crash", "hook",
                                  "hookstate", "hooked", "cleared"}
                 \/ th[t].pc = "deref" /\ th[t].ret = "cleared"
Removal(t) ==
  Removes(t) => LET f == ext[th[t].f] IN
    /\ f.life = "live" /\ f.dev = Op(t).dev /\ f.closing
    /\ th[t].pc # "closing" => ~Listed(th[t].f) /\ f.holders = 0
    /\ th[t].pc \notin {"closing", "free"} => f.shadow = Null
Addition(t) ==
  th[t].pc \in {"report", "insert", "added"} => LET n == ext[th[t].n] IN
    /\ n.life = "live" /\ n.dev = Op(t).dev /\ n.vpdo = th[t].x
    /\ th[t].pc # "added" => ~Listed(th[t].n)

Drops(t) == th[t].pc = "drop"
Dropping(t) ==
  Drops(t) => /\ ext[th[t].x].marked
              /\ \A u \in Threads : Drops(u) /\ th[u].x = th[t].x => u = t
Deleting(t) == th[t].del # 0 /\ th[t].phase # "render" => ~Listed(th[t].del)

Living == /\ Order /\ \A x \in Exts : Lasting(x)
          /\ \A t \in Threads : Removal(t) /\ Addition(t) /\ Dropping(t) /\ Deleting(t)

\* The counts, as long as no defect has upset them.
Sound == "shadow" \notin broken
Exact(x) ==
  /\ IsFiniteSet(ByRelations(x))
  /\ ext[x].refs = Initial(x) + Cardinality(Filters(x)) + Cardinality(ByRelations(x))
                    + Cardinality(Users(x))
  /\ ext[x].rel = (IF ext[x].kind = "pdo" THEN 1 ELSE 0)
                   + Cardinality(Filters(x)) + Cardinality(ByRelations(x))
Zero == /\ \A x \in Exts : Physical(x) /\ ext[x].life = "freed" => ext[x].refs = 0
        /\ \A t \in Threads : th[t].del # 0 => ext[th[t].del].refs = 0

\* The relations are found once more as they were found first.
Replays(seq, devs) == Visit(ext, seq, devs).found = seq
Replayed(shadow, rels) == \A seq \in shadow : rels # Null /\ Replays(seq, Only(rels))
Relational == /\ \A f \in Exts : Replayed(ext[f].shadow, ext[f].rels)
              /\ \A t \in Threads : /\ Replayed(Exchanged(t), th[t].old)
                                    /\ Replayed(th[t].new, Op(t).rels)

Counts   == Relational /\ Zero /\ \A x \in Exts : Physical(x) => Exact(x)
Counting == Sound => Counts

\* What the core driver is told last.
Gone == {"none", "Deleted"}
LastWords == \A f \in Exts : Filter(f) /\ ext[f].life = "freed" => known[f] \in Gone
Departed(d) == /\ \E x \in Exts : Physical(x) /\ ext[x].life = "freed" /\ ext[x].dev = d
               /\ ~\E y \in Exts : Virtual(y) /\ ext[y].life = "live" /\ ext[y].dev = d
Departures == Sound => \A d \in Devices : Departed(d) => known[d] \in Gone

-----------------------------------------------------------------------------
(* The loop once more *)

\* A list that begins with what the loop has found so far, and has no more when
\* the loop has come to its end.
Extends(seq, s) == /\ Len(s.found) <= Len(seq)
                   /\ \A j \in 1..Len(s.found) : seq[j] = s.found[j]
                   /\ s.at = 0 => Len(seq) = Len(s.found)
Follows(r, seq, s) == /\ r.found = s.found
                      /\ r.devs = s.devs
                      /\ r.at = IF Len(seq) = Len(s.found) THEN 0 ELSE Len(s.found) + 1

\* The loop over that list keeps up.
LEMMA OneFollows ==
  ASSUME NEW e, NEW l \in Seq(Exts), NEW s, NEW r, NEW seq \in Seq(Exts),
         s.at \in 1..Len(l), s.found \in Seq(Exts),
         Extends(seq, Onward(e, l, s)), Follows(r, seq, s)
  PROVE  IF Matches(e, l[s.at], s.devs) = {} THEN Follows(r, seq, Onward(e, l, s))
         ELSE Follows(Visited(e, seq, r), seq, Onward(e, l, s))
  <1> DEFINE x == l[s.at]
             k == Len(s.found)
             w == Onward(e, l, s)
             v == Onward(e, seq, r)
  <1>1. CASE Matches(e, x, s.devs) = {}
    <2>1. w.found = s.found /\ w.devs = s.devs
      BY <1>1 DEF Onward, Rest
    <2> QED
      BY <1>1, <2>1 DEF Follows
  <1>2. CASE Matches(e, x, s.devs) # {}
    <2>1. w.found = Append(s.found, x) /\ w.devs = Rest(e, x, s.devs)
      BY <1>2 DEF Onward
    <2>2. x \in Exts /\ k \in Nat /\ e[x].kind = "pdo"
      BY <1>2 DEF Matches
    <2>3. Len(w.found) = k + 1 /\ w.found[k + 1] = x
      BY <2>1, <2>2
    <2>4. k + 1 <= Len(seq) /\ seq[k + 1] = x
      BY <2>2, <2>3 DEF Extends
    <2>5. r.at = k + 1 /\ r.at # 0
      BY <2>2, <2>4 DEF Follows
    <2>6. Visited(e, seq, r) = v
      BY <2>5, VisitedOnward
    <2>7. r.devs = s.devs /\ r.found = s.found
      BY DEF Follows
    <2>8. v.found = w.found /\ v.devs = w.devs
      BY <1>2, <2>1, <2>4, <2>5, <2>7 DEF Onward
    <2>9. v.at = IF w.devs = <<>> THEN 0 ELSE After(seq, k + 1)
      BY <2>1, <2>2, <2>4, <2>5, <2>7 DEF Onward
    <2>10. w.devs = <<>> => w.at = 0
      BY <2>1, <2>2 DEF Onward
    <2>11. w.at = 0 => Len(seq) = k + 1
      BY <2>3 DEF Extends
    <2>12. After(seq, k + 1) = IF Len(seq) = k + 1 THEN 0 ELSE (k + 1) + 1
      BY <2>2 DEF After
    <2>13. v.at = IF Len(seq) = k + 1 THEN 0 ELSE (k + 1) + 1
      BY <2>9, <2>10, <2>11, <2>12
    <2>14. Follows(v, seq, w)
      BY <2>3, <2>8, <2>13 DEF Follows
    <2> QED
      BY <1>2, <2>6, <2>14
  <1> QED
    BY <1>1, <1>2

LEMMA ExtendsBefore ==
  ASSUME NEW e, NEW l \in Seq(Exts), NEW s, NEW seq \in Seq(Exts),
         s.at \in 1..Len(l), s.found \in Seq(Exts), Extends(seq, Onward(e, l, s))
  PROVE  Extends(seq, s)
  <1> DEFINE x == l[s.at]
             w == Onward(e, l, s)
  <1>1. w.found = s.found \/ w.found = Append(s.found, x)
    BY DEF Onward
  <1>2. x \in Exts /\ s.at # 0 /\ Len(s.found) \in Nat /\ Len(seq) \in Nat
    OBVIOUS
  <1>3. CASE w.found = s.found
    BY <1>2, <1>3 DEF Extends
  <1>4. CASE w.found = Append(s.found, x)
    <2>1. /\ Len(w.found) = Len(s.found) + 1
          /\ \A j \in 1..Len(s.found) : w.found[j] = s.found[j]
      BY <1>2, <1>4
    <2> QED
      BY <1>2, <2>1 DEF Extends
  <1> QED
    BY <1>1, <1>3, <1>4

\* What the loop found for some devices it finds again when it goes over nothing
\* else: the release of relations meets every extension that was counted.
LEMMA VisitReplays ==
  ASSUME NEW e, NEW l \in Seq(Exts), NEW devs, Len(devs) \in Nat
  PROVE  Visit(e, Visit(e, l, devs).found, devs).found = Visit(e, l, devs).found
  <1>1. PICK n \in Nat : \E g : /\ Runs(g, n, e, l, devs)
                                /\ Visit(e, l, devs).found = g[n].found
    BY VisitRuns
  <1>2. PICK g : Runs(g, n, e, l, devs) /\ Visit(e, l, devs).found = g[n].found
    BY <1>1
  <1>3. PICK seq \in Seq(Exts) : seq = g[n].found
    BY <1>2, VisitFinds DEF FoundIn
  <1>4. Len(seq) \in Nat
    OBVIOUS
  <1>5. PICK m \in Nat : \E h : /\ Len(seq) <= m
                                /\ Runs(h, m, e, seq, devs)
                                /\ Visit(e, seq, devs).found = h[m].found
                                /\ Visit(e, seq, devs).ends = (h[m].at = 0)
    BY <1>4, VisitRuns
  <1>6. PICK h : /\ Len(seq) <= m
                 /\ Runs(h, m, e, seq, devs)
                 /\ Visit(e, seq, devs).found = h[m].found
    BY <1>5
  <1> DEFINE Good(s) == s.at \in 0..Len(l) /\ s.found \in Seq(Exts)
             Kept2(s) == Extends(seq, s) => Follows(h[Len(s.found)], seq, s)
             N == {i \in Nat : i <= n => Good(g[i]) /\ Kept2(g[i])}
  <1>7. 0 \in N
    <2>1. g[0] = Begun(l, devs) /\ h[0] = Begun(seq, devs)
      BY <1>2, <1>6, RunSteps
    <2>2. g[0].found = <<>> /\ g[0].at \in {0, 1} /\ (l = <<>> => g[0].at = 0) /\ g[0].devs = devs
      BY <2>1 DEF Begun
    <2>3. g[0].at \in 0..Len(l)
      <3>1. l # <<>> => 1 \in 0..Len(l)
        OBVIOUS
      <3> QED
        BY <2>2, <3>1
    <2>4. h[0].found = <<>> /\ h[0].devs = devs /\ h[0].at = IF seq = <<>> THEN 0 ELSE 1
      BY <2>1 DEF Begun
    <2>5. Len(g[0].found) = 0 /\ g[0].found \in Seq(Exts)
      BY <2>2
    <2>6. seq = <<>> <=> Len(seq) = 0
      OBVIOUS
    <2>7. Follows(h[0], seq, g[0])
      BY <2>2, <2>4, <2>5, <2>6 DEF Follows
    <2> QED
      BY <2>3, <2>5, <2>7
  <1>8. ASSUME NEW i \in N
        PROVE  i + 1 \in N
    <2> SUFFICES ASSUME i + 1 <= n
                 PROVE  Good(g[i + 1]) /\ Kept2(g[i + 1])
      OBVIOUS
    <2>1. i \in 0..n /\ i # n /\ Good(g[i]) /\ Kept2(g[i])
      OBVIOUS
    <2>2. g[i + 1] = Visited(e, l, g[i])
      BY <1>2, <2>1, RunSteps
    <2> HIDE DEF N
    <2>3. CASE g[i].at = 0
      <3>1. g[i + 1] = g[i]
        BY <2>2, <2>3, VisitedOnward
      <3> QED
        BY <2>1, <3>1
    <2>4. CASE g[i].at # 0
      <3>1. g[i + 1] = Onward(e, l, g[i]) /\ g[i].at \in 1..Len(l)
        BY <2>1, <2>2, <2>4, VisitedOnward
      <3>2. Good(g[i + 1])
        <4>1. g[i + 1].at \in {0, 1, After(l, g[i].at), After(l, After(l, g[i].at))}
          BY <3>1 DEF Onward
        <4>2. e[l[g[i].at]].kind # "pdo" /\ After(l, g[i].at) = 0 => g[i + 1].at = 1
          BY <3>1 DEF Onward
        <4>3. \A k \in 1..Len(l) : After(l, k) \in 0..Len(l)
          BY DEF After
        <4>4. g[i + 1].at # After(l, After(l, g[i].at)) \/ After(l, g[i].at) # 0 \/ g[i + 1].at \in {0, 1}
          <5>1. After(l, g[i].at) = 0 => g[i + 1].at \in {0, 1}
            BY <3>1 DEF Onward
          <5> QED
            BY <5>1
        <4>5. After(l, g[i].at) # 0 => After(l, After(l, g[i].at)) \in 0..Len(l)
          BY <3>1, <4>3
        <4>6. g[i + 1].at \in 0..Len(l)
          BY <3>1, <4>1, <4>3, <4>4, <4>5
        <4>7. g[i + 1].found = g[i].found \/ g[i + 1].found = Append(g[i].found, l[g[i].at])
          BY <3>1 DEF Onward
        <4>8. l[g[i].at] \in Exts
          BY <3>1
        <4>9. g[i + 1].found \in Seq(Exts)
          <5>1. PICK f \in Seq(Exts), x \in Exts : f = g[i].found /\ x = l[g[i].at]
            BY <2>1, <4>8
          <5>2. f \in Seq(Exts) /\ Append(f, x) \in Seq(Exts)
            OBVIOUS
          <5> QED
            BY <4>7, <5>1, <5>2
        <4> QED
          BY <4>6, <4>9
      <3>3. Kept2(g[i + 1])
        <4> SUFFICES ASSUME Extends(seq, g[i + 1])
                     PROVE  Follows(h[Len(g[i + 1].found)], seq, g[i + 1])
          OBVIOUS
        <4>1. Extends(seq, g[i])
          BY <2>1, <3>1, ExtendsBefore
        <4>2. Follows(h[Len(g[i].found)], seq, g[i])
          BY <2>1, <4>1
        <4>3. IF Matches(e, l[g[i].at], g[i].devs) = {}
              THEN Follows(h[Len(g[i].found)], seq, g[i + 1])
              ELSE Follows(Visited(e, seq, h[Len(g[i].found)]), seq, g[i + 1])
          BY <2>1, <3>1, <4>2, OneFollows
        <4>4. CASE Matches(e, l[g[i].at], g[i].devs) = {}
          <5>1. g[i + 1].found = g[i].found
            BY <3>1, <4>4 DEF Onward
          <5> QED
            BY <4>3, <4>4, <5>1
        <4>5. CASE Matches(e, l[g[i].at], g[i].devs) # {}
          <5>1. g[i + 1].found = Append(g[i].found, l[g[i].at]) /\ l[g[i].at] \in Exts
            BY <3>1, <4>5 DEF Onward
          <5>2. Len(g[i + 1].found) = Len(g[i].found) + 1 /\ Len(g[i].found) \in Nat
            BY <2>1, <5>1
          <5>3. Len(g[i + 1].found) <= Len(seq)
            BY DEF Extends
          <5>4. Len(g[i].found) \in 0..m /\ Len(g[i].found) # m
            BY <1>4, <1>6, <5>2, <5>3
          <5>5. h[Len(g[i].found) + 1] = Visited(e, seq, h[Len(g[i].found)])
            BY <1>6, <5>4, RunSteps
          <5> QED
            BY <4>3, <4>5, <5>2, <5>5
        <4> QED
          BY <4>4, <4>5
      <3> QED
        BY <3>2, <3>3
    <2> QED
      BY <2>3, <2>4
  <1>9. N = Nat
    <2> HIDE DEF N
    <2> QED
      BY <1>7, <1>8, Numbers DEF N
  <1>10. Follows(h[Len(seq)], seq, g[n])
    <2>1. Good(g[n]) /\ Kept2(g[n])
      BY <1>9
    <2>2. Extends(seq, g[n])
      BY <1>3, <1>4 DEF Extends
    <2> QED
      BY <1>3, <2>1, <2>2
  <1>11. h[Len(seq)].at = 0 /\ h[Len(seq)].found = seq
    BY <1>3, <1>10 DEF Follows
  <1>20. \A j \in 0..m : j # m => h[j + 1] = Visited(e, seq, h[j])
    BY <1>6, RunSteps
  <1> DEFINE M == {i \in Nat : Len(seq) <= i /\ i <= m => h[i] = h[Len(seq)]}
  <1>12. 0 \in M
    BY <1>4
  <1>13. ASSUME NEW i \in M
         PROVE  i + 1 \in M
    <2> SUFFICES ASSUME Len(seq) <= i + 1, i + 1 <= m
                 PROVE  h[i + 1] = h[Len(seq)]
      OBVIOUS
    <2>1. CASE i + 1 = Len(seq)
      BY <2>1
    <2>2. CASE i + 1 # Len(seq)
      <3>1. i \in Nat /\ Len(seq) <= i /\ i <= m /\ i # m /\ i \in 0..m
        BY <1>4, <2>2
      <3>2. h[i] = h[Len(seq)]
        BY <3>1
      <3>4. h[i + 1] = Visited(e, seq, h[i])
        BY <1>20, <3>1
      <3> QED
        BY <1>11, <3>2, <3>4, VisitedOnward
    <2> QED
      BY <2>1, <2>2
  <1>14. M = Nat
    <2> HIDE DEF M
    <2> QED
      BY <1>12, <1>13, Numbers DEF M
  <1>15. h[m].found = seq
    BY <1>6, <1>11, <1>14
  <1> QED
    BY <1>2, <1>3, <1>6, <1>15

\* What the loop finds depends on the kinds and the devices of the list only.
LEMMA VisitStays ==
  ASSUME NEW e, NEW d, NEW seq \in Seq(Exts), NEW devs, Len(devs) \in Nat,
         \A i \in DOMAIN seq : d[seq[i]].kind = e[seq[i]].kind /\ d[seq[i]].dev = e[seq[i]].dev
  PROVE  Visit(d, seq, devs).found = Visit(e, seq, devs).found
  <1>0. Len(seq) \in Nat
    OBVIOUS
  <1>1. PICK n \in Nat : n = Turns(seq, devs)
    <2>1. Turns(seq, devs) \in Nat
      BY <1>0, VisitTurns
    <2> QED
      BY <2>1
  <1>2. PICK g : Runs(g, n, e, seq, devs) /\ Visit(e, seq, devs).found = g[n].found
    BY <1>0, <1>1, VisitTurns
  <1>3. PICK h : Runs(h, n, d, seq, devs) /\ Visit(d, seq, devs).found = h[n].found
    BY <1>0, <1>1, VisitTurns
  <1> DEFINE N == {i \in Nat : i <= n => g[i].at \in 0..Len(seq) /\ h[i] = g[i]}
  <1>4. 0 \in N
    <2>1. g[0] = Begun(seq, devs) /\ h[0] = Begun(seq, devs)
      BY <1>2, <1>3, RunSteps
    <2>2. seq # <<>> => 1 \in 0..Len(seq)
      OBVIOUS
    <2>3. g[0].at \in 0..Len(seq)
      BY <2>1, <2>2 DEF Begun
    <2> QED
      BY <2>1, <2>3
  <1>5. ASSUME NEW i \in N
        PROVE  i + 1 \in N
    <2> SUFFICES ASSUME i + 1 <= n
                 PROVE  g[i + 1].at \in 0..Len(seq) /\ h[i + 1] = g[i + 1]
      OBVIOUS
    <2>1. i \in 0..n /\ i # n /\ g[i].at \in 0..Len(seq) /\ h[i] = g[i]
      OBVIOUS
    <2>2. g[i + 1] = Visited(e, seq, g[i])
      BY <1>2, <2>1, RunSteps
    <2>3. h[i + 1] = Visited(d, seq, g[i])
      BY <1>3, <2>1, RunSteps
    <2> HIDE DEF N
    <2>4. CASE g[i].at = 0
      BY <2>1, <2>2, <2>3, <2>4, VisitedOnward
    <2>5. CASE g[i].at # 0
      <3> DEFINE x == seq[g[i].at]
      <3>1. g[i].at \in 1..Len(seq) /\ g[i].at \in DOMAIN seq
        BY <2>1, <2>5
      <3>2. d[x].kind = e[x].kind /\ d[x].dev = e[x].dev
        BY <3>1
      <3>3. g[i + 1] = Onward(e, seq, g[i]) /\ h[i + 1] = Onward(d, seq, g[i])
        BY <2>2, <2>3, <2>5, VisitedOnward
      <3>4. \A v : Matches(d, x, v) = Matches(e, x, v)
        BY <3>2 DEF Matches
      <3>5. \A v : Rest(d, x, v) = Rest(e, x, v)
        BY <3>4 DEF Rest
      <3>6. h[i + 1] = g[i + 1]
        BY <3>2, <3>3, <3>4, <3>5 DEF Onward
      <3>7. g[i + 1].at \in {0, 1, After(seq, g[i].at), After(seq, After(seq, g[i].at))}
        BY <3>3 DEF Onward
      <3>8. After(seq, g[i].at) = 0 => g[i + 1].at \in {0, 1}
        BY <3>3 DEF Onward
      <3>9. \A k \in 1..Len(seq) : After(seq, k) \in 0..Len(seq)
        BY DEF After
      <3>10. After(seq, g[i].at) # 0 => After(seq, After(seq, g[i].at)) \in 0..Len(seq)
        BY <3>1, <3>9
      <3>11. g[i + 1].at \in 0..Len(seq)
        BY <3>1, <3>7, <3>8, <3>9, <3>10
      <3> QED
        BY <3>6, <3>11
    <2> QED
      BY <2>4, <2>5
  <1>6. N = Nat
    <2> HIDE DEF N
    <2> QED
      BY <1>4, <1>5, Numbers DEF N
  <1> QED
    BY <1>2, <1>3, <1>6

-----------------------------------------------------------------------------
(* Counting *)

\* One place less when the first element goes.
LEMMA TimesTail ==
  ASSUME NEW S, NEW seq \in Seq(S), seq # <<>>, NEW x
  PROVE  Times(Tail(seq), x) = Times(seq, x) - (IF Head(seq) = x THEN 1 ELSE 0)
  <1>1. Tail(seq) \in Seq(S) /\ Len(Tail(seq)) = Len(seq) - 1 /\ Len(seq) \in Nat \ {0}
    OBVIOUS
  <1>2. \A i \in 1..Len(Tail(seq)) : Tail(seq)[i] = seq[i + 1]
    OBVIOUS
  <1> DEFINE P == Places(Tail(seq), x)
             Q == {i \in 2..Len(seq) : seq[i] = x}
             f == [i \in P |-> i + 1]
  <1>3. IsFiniteSet(P)
    BY <1>1, PlacesFinite
  <1>4. P = {i \in 1..(Len(seq) - 1) : seq[i + 1] = x}
    BY <1>1, <1>2 DEF Places
  <1>5. f \in Bijection(P, Q)
    <2>1. f \in [P -> Q]
      BY <1>1, <1>4
    <2>2. \A i, j \in P : f[i] = f[j] => i = j
      BY <1>1, <1>4
    <2>3. \A j \in Q : \E i \in P : f[i] = j
      <3> TAKE j \in Q
      <3>1. j - 1 \in P /\ f[j - 1] = j
        BY <1>1, <1>4
      <3> QED
        BY <3>1
    <2> QED
      BY <2>1, <2>2, <2>3, Fun_IsBij
  <1>6. IsFiniteSet(Q) /\ Cardinality(Q) = Cardinality(P)
    <2>1. ExistsBijection(P, Q)
      BY <1>5 DEF ExistsBijection
    <2> QED
      BY <1>3, <2>1, FS_Bijection
  <1>7. Head(seq) = seq[1] /\ DOMAIN seq = 1..Len(seq)
    OBVIOUS
  <1>8. CASE Head(seq) = x
    <2>1. Places(seq, x) = Q \cup {1}
      BY <1>1, <1>7, <1>8 DEF Places
    <2>2. Cardinality(Places(seq, x)) = Cardinality(Q) + 1
      <3>1. 1 \notin Q
        OBVIOUS
      <3> HIDE DEF Q
      <3> QED
        BY <1>6, <2>1, <3>1, OneMore
    <2>3. Cardinality(P) \in Nat
      BY <1>3, FS_CardinalityType
    <2> QED
      BY <1>6, <1>8, <2>2, <2>3 DEF Times
  <1>9. CASE Head(seq) # x
    <2>1. Places(seq, x) = Q
      BY <1>1, <1>7, <1>9 DEF Places
    <2>3. Cardinality(P) \in Nat
      BY <1>3, FS_CardinalityType
    <2> QED
      BY <1>6, <1>9, <2>1, <2>3 DEF Times
  <1> QED
    BY <1>8, <1>9

LEMMA PlacesInIs ==
  ASSUME NEW x
  PROVE  /\ PlacesIn(Null, x) = {}
         /\ \A seq : PlacesIn({seq}, x) = Places(seq, x)
         /\ Places(<<>>, x) = {}
  BY DEF PlacesIn, Null, Places

LEMMA PlacesInFinite ==
  ASSUME NEW ptr \in SUBSET Seq(Exts), Single(ptr), NEW x
  PROVE  /\ IsFiniteSet(PlacesIn(ptr, x)) /\ Cardinality(PlacesIn(ptr, x)) \in Nat
         /\ PlacesIn(ptr, x) = {} <=> \A seq \in ptr : \A i \in DOMAIN seq : seq[i] # x
  <1>1. CASE ptr = {}
    BY <1>1, PlacesInIs, FS_EmptySet DEF Null
  <1>2. ASSUME NEW seq \in ptr
        PROVE  /\ IsFiniteSet(PlacesIn(ptr, x)) /\ Cardinality(PlacesIn(ptr, x)) \in Nat
               /\ PlacesIn(ptr, x) = {} <=> \A s \in ptr : \A i \in DOMAIN s : s[i] # x
    <2>1. ptr = {seq} /\ seq \in Seq(Exts)
      BY SinglePointer
    <2>2. PlacesIn(ptr, x) = Places(seq, x)
      BY <2>1, PlacesInIs
    <2>3. IsFiniteSet(Places(seq, x)) /\ Cardinality(Places(seq, x)) \in Nat
      BY <2>1, PlacesFinite, FS_CardinalityType
    <2> QED
      BY <2>1, <2>2, <2>3 DEF Places
  <1> QED
    BY <1>1, <1>2

\* The places of an extension in the relations that somebody has.
KeyOf(g, h) == (g = "kept" /\ h \in Exts) \/ (g \in {"old", "new", "todo"} /\ h \in Threads)
KeyPlaces(g, h, x) == IF g = "kept" THEN PlacesIn(Kept(h), x)
                      ELSE IF g = "old" THEN PlacesIn(Exchanged(h), x)
                      ELSE IF g = "new" THEN PlacesIn(th[h].new, x)
                      ELSE Places(th[h].todo, x)
Tokens(g, h, P) == {<<g, h, i>> : i \in P}

LEMMA TokensCount ==
  ASSUME NEW g, NEW h, NEW P, IsFiniteSet(P)
  PROVE  IsFiniteSet(Tokens(g, h, P)) /\ Cardinality(Tokens(g, h, P)) = Cardinality(P)
  <1> DEFINE f == [i \in P |-> <<g, h, i>>]
  <1>1. f \in Bijection(P, Tokens(g, h, P))
    <2>1. f \in [P -> Tokens(g, h, P)]
      BY DEF Tokens
    <2>2. \A i, j \in P : f[i] = f[j] => i = j
      OBVIOUS
    <2>3. \A e \in Tokens(g, h, P) : \E i \in P : f[i] = e
      BY DEF Tokens
    <2> QED
      BY <2>1, <2>2, <2>3, Fun_IsBij
  <1>2. ExistsBijection(P, Tokens(g, h, P))
    BY <1>1 DEF ExistsBijection
  <1> QED
    BY <1>2, FS_Bijection

LEMMA RelationMembers ==
  \A x, e : e \in ByRelations(x)
            <=> \E g, h : KeyOf(g, h) /\ e \in Tokens(g, h, KeyPlaces(g, h, x))
  <1> TAKE x
  <1>1. \A e : e \in ByRelations(x)
           <=> \/ \E f \in Exts : e \in Tokens("kept", f, PlacesIn(Kept(f), x))
               \/ \E t \in Threads : e \in Tokens("old", t, PlacesIn(Exchanged(t), x))
               \/ \E t \in Threads : e \in Tokens("new", t, PlacesIn(th[t].new, x))
               \/ \E t \in Threads : e \in Tokens("todo", t, Places(th[t].todo, x))
    <2>1. \A e : e \in ByRelations(x)
             <=> \/ e \in UNION {{<<"kept", f, i>> : i \in PlacesIn(Kept(f), x)} : f \in Exts}
                 \/ e \in UNION {{<<"old", t, i>> : i \in PlacesIn(Exchanged(t), x)} : t \in Threads}
                 \/ e \in UNION {{<<"new", t, i>> : i \in PlacesIn(th[t].new, x)} : t \in Threads}
                 \/ e \in UNION {{<<"todo", t, i>> : i \in Places(th[t].todo, x)} : t \in Threads}
      BY Zenon DEF ByRelations
    <2>2. \A e : /\ e \in UNION {{<<"kept", f, i>> : i \in PlacesIn(Kept(f), x)} : f \in Exts}
                     <=> \E f \in Exts : e \in Tokens("kept", f, PlacesIn(Kept(f), x))
                 /\ e \in UNION {{<<"old", t, i>> : i \in PlacesIn(Exchanged(t), x)} : t \in Threads}
                     <=> \E t \in Threads : e \in Tokens("old", t, PlacesIn(Exchanged(t), x))
                 /\ e \in UNION {{<<"new", t, i>> : i \in PlacesIn(th[t].new, x)} : t \in Threads}
                     <=> \E t \in Threads : e \in Tokens("new", t, PlacesIn(th[t].new, x))
                 /\ e \in UNION {{<<"todo", t, i>> : i \in Places(th[t].todo, x)} : t \in Threads}
                     <=> \E t \in Threads : e \in Tokens("todo", t, Places(th[t].todo, x))
      BY Zenon DEF Tokens
    <2> QED
      BY <2>1, <2>2, Zenon
  <1>2. ASSUME NEW e, NEW g, NEW h, KeyOf(g, h), e \in Tokens(g, h, KeyPlaces(g, h, x))
        PROVE  e \in ByRelations(x)
    BY <1>1, <1>2 DEF KeyOf, KeyPlaces
  <1>3. /\ \A f \in Exts : KeyOf("kept", f) /\ KeyPlaces("kept", f, x) = PlacesIn(Kept(f), x)
        /\ \A t \in Threads : /\ KeyOf("old", t) /\ KeyOf("new", t) /\ KeyOf("todo", t)
                              /\ KeyPlaces("old", t, x) = PlacesIn(Exchanged(t), x)
                              /\ KeyPlaces("new", t, x) = PlacesIn(th[t].new, x)
                              /\ KeyPlaces("todo", t, x) = Places(th[t].todo, x)
    BY DEF KeyOf, KeyPlaces
  <1>4. ASSUME NEW e \in ByRelations(x)
        PROVE  \E g, h : KeyOf(g, h) /\ e \in Tokens(g, h, KeyPlaces(g, h, x))
    BY <1>1, <1>3
  <1> QED
    BY <1>2, <1>4

LEMMA NextRelationMembers ==
  (\A x, e : e \in ByRelations(x)
             <=> \E g, h : KeyOf(g, h) /\ e \in Tokens(g, h, KeyPlaces(g, h, x)))'
  BY RelationMembers, PTL

LEMMA RelationsSame ==
  ASSUME NEW x, \A g, h : KeyOf(g, h) => KeyPlaces(g, h, x)' = KeyPlaces(g, h, x)
  PROVE  ByRelations(x)' = ByRelations(x)
  <1>1. \A e : e \in ByRelations(x)
                <=> \E g, h : KeyOf(g, h) /\ e \in Tokens(g, h, KeyPlaces(g, h, x))
    BY RelationMembers
  <1>2. \A e : e \in ByRelations(x)'
                <=> \E g, h : KeyOf(g, h) /\ e \in Tokens(g, h, KeyPlaces(g, h, x)')
    BY NextRelationMembers
  <1> QED
    BY <1>1, <1>2

LEMMA TokensApart ==
  ASSUME NEW g, NEW h, NEW P, NEW a, NEW b, NEW Q, <<g, h>> # <<a, b>>
  PROVE  Tokens(g, h, P) \cap Tokens(a, b, Q) = {}
  BY DEF Tokens

\* What two of those who have relations exchange.
LEMMA RelationsMove ==
  ASSUME NEW x, IsFiniteSet(ByRelations(x)), NEW g, NEW h, NEW a, NEW b,
         KeyOf(g, h), KeyOf(a, b), <<g, h>> # <<a, b>>,
         NEW A, NEW B, NEW C, NEW D,
         A = KeyPlaces(g, h, x), B = KeyPlaces(a, b, x),
         C = KeyPlaces(g, h, x)', D = KeyPlaces(a, b, x)',
         IsFiniteSet(A), IsFiniteSet(B), IsFiniteSet(C), IsFiniteSet(D),
         \A p, q : KeyOf(p, q) /\ <<p, q>> # <<g, h>> /\ <<p, q>> # <<a, b>>
                      => KeyPlaces(p, q, x)' = KeyPlaces(p, q, x)
  PROVE  /\ IsFiniteSet(ByRelations(x)')
         /\ Cardinality(ByRelations(x)') =
              Cardinality(ByRelations(x)) + (Cardinality(C) - Cardinality(A)) + (Cardinality(D) - Cardinality(B))
  <1> DEFINE R == ByRelations(x) \ (Tokens(g, h, A) \cup Tokens(a, b, B))
  <1>1. \A e : e \in ByRelations(x)
                <=> \E p, q : KeyOf(p, q) /\ e \in Tokens(p, q, KeyPlaces(p, q, x))
    BY RelationMembers
  <1>2. \A e : e \in ByRelations(x)'
                <=> \E p, q : KeyOf(p, q) /\ e \in Tokens(p, q, KeyPlaces(p, q, x)')
    BY NextRelationMembers
  <1>3. \A e : e \in R <=> \E p, q : /\ KeyOf(p, q) /\ <<p, q>> # <<g, h>> /\ <<p, q>> # <<a, b>>
                                     /\ e \in Tokens(p, q, KeyPlaces(p, q, x))
    <2>1. ASSUME NEW e \in R
          PROVE  \E p, q : /\ KeyOf(p, q) /\ <<p, q>> # <<g, h>> /\ <<p, q>> # <<a, b>>
                           /\ e \in Tokens(p, q, KeyPlaces(p, q, x))
      <3>1. PICK p, q : KeyOf(p, q) /\ e \in Tokens(p, q, KeyPlaces(p, q, x))
        BY <1>1
      <3>2. e \notin Tokens(g, h, A) /\ e \notin Tokens(a, b, B)
        OBVIOUS
      <3>3. <<p, q>> # <<g, h>> /\ <<p, q>> # <<a, b>>
        <4>1. CASE <<p, q>> = <<g, h>>
          BY <3>1, <3>2, <4>1
        <4>2. CASE <<p, q>> = <<a, b>>
          BY <3>1, <3>2, <4>2
        <4> QED
          BY <4>1, <4>2
      <3> QED
        BY <3>1, <3>3
    <2>2. ASSUME NEW e, NEW p, NEW q, KeyOf(p, q), <<p, q>> # <<g, h>>, <<p, q>> # <<a, b>>,
                 e \in Tokens(p, q, KeyPlaces(p, q, x))
          PROVE  e \in R
      <3>1. e \in ByRelations(x)
        BY <1>1, <2>2
      <3>2. e \notin Tokens(g, h, A) /\ e \notin Tokens(a, b, B)
        BY <2>2, TokensApart
      <3> QED
        BY <3>1, <3>2
    <2> HIDE DEF R
    <2> QED
      BY <2>1, <2>2
  <1>4. ByRelations(x) = R \cup (Tokens(g, h, A) \cup Tokens(a, b, B))
    <2>1. \A e \in Tokens(g, h, A) \cup Tokens(a, b, B) : e \in ByRelations(x)
      BY <1>1
    <2> QED
      BY <2>1
  <1>5. ByRelations(x)' = R \cup (Tokens(g, h, C) \cup Tokens(a, b, D))
    <2> HIDE DEF R
    <2>1. ASSUME NEW e \in R
          PROVE  e \in ByRelations(x)'
      BY <1>2, <1>3
    <2>2. \A e \in Tokens(g, h, C) \cup Tokens(a, b, D) : e \in ByRelations(x)'
      BY <1>2
    <2>3. ASSUME NEW e \in ByRelations(x)'
          PROVE  e \in R \cup (Tokens(g, h, C) \cup Tokens(a, b, D))
      <3>1. PICK p, q : KeyOf(p, q) /\ e \in Tokens(p, q, KeyPlaces(p, q, x)')
        BY <1>2
      <3>2. CASE <<p, q>> = <<g, h>>
        BY <3>1, <3>2
      <3>3. CASE <<p, q>> = <<a, b>>
        BY <3>1, <3>3
      <3>4. CASE <<p, q>> # <<g, h>> /\ <<p, q>> # <<a, b>>
        <4>1. e \in R
          BY <1>3, <3>1, <3>4
        <4> QED
          BY <4>1
      <3> QED
        BY <3>2, <3>3, <3>4
    <2> QED
      BY <2>1, <2>2, <2>3
  <1>6. IsFiniteSet(R)
    BY FS_Subset
  <1>7. \A P, Q : R \cap Tokens(g, h, P) = {} /\ R \cap Tokens(a, b, Q) = {}
    BY <1>3, TokensApart
  <1> HIDE DEF R
  <1>8. ASSUME NEW P, NEW Q, IsFiniteSet(P), IsFiniteSet(Q), NEW S,
               S = R \cup (Tokens(g, h, P) \cup Tokens(a, b, Q))
        PROVE  IsFiniteSet(S) /\ Cardinality(S) = Cardinality(R) + (Cardinality(P) + Cardinality(Q))
    <2> DEFINE U == Tokens(g, h, P) \cup Tokens(a, b, Q)
    <2>1. /\ IsFiniteSet(Tokens(g, h, P)) /\ Cardinality(Tokens(g, h, P)) = Cardinality(P)
          /\ IsFiniteSet(Tokens(a, b, Q)) /\ Cardinality(Tokens(a, b, Q)) = Cardinality(Q)
      BY <1>8, TokensCount
    <2>2. Tokens(g, h, P) \cap Tokens(a, b, Q) = {}
      BY TokensApart
    <2>3. IsFiniteSet(U) /\ Cardinality(U) = Cardinality(P) + Cardinality(Q)
      BY <2>1, <2>2, Disjoint
    <2>4. R \cap U = {}
      BY <1>7
    <2> HIDE DEF U
    <2> QED
      BY <1>6, <1>8, <2>3, <2>4, Disjoint DEF U
  <1>9. Cardinality(ByRelations(x)) = Cardinality(R) + (Cardinality(A) + Cardinality(B))
    BY <1>4, <1>8
  <1>10. /\ IsFiniteSet(ByRelations(x)')
         /\ Cardinality(ByRelations(x)') = Cardinality(R) + (Cardinality(C) + Cardinality(D))
    BY <1>5, <1>8
  <1>11. /\ Cardinality(A) \in Nat /\ Cardinality(B) \in Nat /\ Cardinality(C) \in Nat
         /\ Cardinality(D) \in Nat /\ Cardinality(R) \in Nat
    BY <1>6, FS_CardinalityType
  <1> QED
    BY <1>9, <1>10, <1>11

-----------------------------------------------------------------------------
(* Locks and users *)

HoldKinds == {"own", "hook", "filter", "report"}
HoldsBy(g, t, x) == IF g = "own" THEN Adds(t) /\ th[t].x = x
                    ELSE IF g = "hook" THEN Hooks(t) /\ th[t].h = x
                    ELSE IF g = "filter" THEN Asks(t) /\ th[t].f = x
                    ELSE Walks(t) /\ th[t].request = x
UseKinds == {"own", "hook"}
UsesBy(g, t, x) == IF g = "own" THEN Owns(t) /\ th[t].x = x ELSE Hooks(t) /\ th[t].h = x

LEMMA HoldMembers ==
  \A x : /\ Holds(x) = {e \in HoldKinds \X Threads : HoldsBy(e[1], e[2], x)}
         /\ Users(x) = {e \in UseKinds \X Threads : UsesBy(e[1], e[2], x)}
  <1> TAKE x
  <1>1. Holds(x) = {e \in HoldKinds \X Threads : HoldsBy(e[1], e[2], x)}
    <2>1. ASSUME NEW e \in Holds(x)
          PROVE  e \in HoldKinds \X Threads /\ HoldsBy(e[1], e[2], x)
      BY DEF Holds, HoldKinds, HoldsBy
    <2>2. ASSUME NEW g \in HoldKinds, NEW t \in Threads, HoldsBy(g, t, x)
          PROVE  <<g, t>> \in Holds(x)
      BY <2>2 DEF Holds, HoldKinds, HoldsBy
    <2> QED
      BY <2>1, <2>2
  <1>2. Users(x) = {e \in UseKinds \X Threads : UsesBy(e[1], e[2], x)}
    <2>1. ASSUME NEW e \in Users(x)
          PROVE  e \in UseKinds \X Threads /\ UsesBy(e[1], e[2], x)
      BY DEF Users, UseKinds, UsesBy
    <2>2. ASSUME NEW g \in UseKinds, NEW t \in Threads, UsesBy(g, t, x)
          PROVE  <<g, t>> \in Users(x)
      BY <2>2 DEF Users, UseKinds, UsesBy
    <2> QED
      BY <2>1, <2>2
  <1> QED
    BY <1>1, <1>2

LEMMA NextHoldMembers ==
  (\A x : /\ Holds(x) = {e \in HoldKinds \X Threads : HoldsBy(e[1], e[2], x)}
          /\ Users(x) = {e \in UseKinds \X Threads : UsesBy(e[1], e[2], x)})'
  BY HoldMembers, PTL

LEMMA HoldsFinite ==
  ASSUME NEW x
  PROVE  /\ IsFiniteSet(Holds(x)) /\ Cardinality(Holds(x)) \in Nat
         /\ IsFiniteSet(Users(x)) /\ Cardinality(Users(x)) \in Nat
         /\ IsFiniteSet(Filters(x)) /\ Cardinality(Filters(x)) \in Nat
  <1>1. IsFiniteSet(HoldKinds \X Threads) /\ IsFiniteSet(UseKinds \X Threads)
    <2>1. IsFiniteSet({"own"}) /\ IsFiniteSet({"own"} \cup {"hook"})
      BY FS_Singleton, FS_AddElement
    <2>2. IsFiniteSet(({"own"} \cup {"hook"}) \cup {"filter"})
      BY <2>1, FS_AddElement
    <2>3. IsFiniteSet((({"own"} \cup {"hook"}) \cup {"filter"}) \cup {"report"})
      BY <2>2, FS_AddElement
    <2>4. HoldKinds = (({"own"} \cup {"hook"}) \cup {"filter"}) \cup {"report"} /\ UseKinds = {"own"} \cup {"hook"}
      BY DEF HoldKinds, UseKinds
    <2>5. IsFiniteSet(HoldKinds) /\ IsFiniteSet(UseKinds)
      BY <2>1, <2>3, <2>4
    <2> QED
      BY <2>5, Numerals, FS_Product
  <1>2. Holds(x) \subseteq HoldKinds \X Threads /\ Users(x) \subseteq UseKinds \X Threads
    BY HoldMembers
  <1>3. Filters(x) \subseteq Exts /\ IsFiniteSet(Exts)
    BY Numerals DEF Filters
  <1> QED
    BY <1>1, <1>2, <1>3, FS_Subset, FS_CardinalityType

\* One member joins or leaves.
LEMMA OneMoves ==
  ASSUME NEW S, IsFiniteSet(S), NEW e, NEW T, NEW in \in BOOLEAN, NEW was \in BOOLEAN, was <=> e \in S,
         T = IF in THEN S \cup {e} ELSE S \ {e}
  PROVE  /\ IsFiniteSet(T)
         /\ Cardinality(T) = Cardinality(S) + (IF in THEN 1 ELSE 0) - (IF was THEN 1 ELSE 0)
  <1>1. Cardinality(S) \in Nat
    BY FS_CardinalityType
  <1>2. CASE in
    <2>1. T = S \cup {e}
      BY <1>2
    <2>2. CASE was
      <3>1. T = S
        BY <2>1, <2>2
      <3> QED
        BY <1>1, <1>2, <2>2, <3>1
    <2>3. CASE ~was
      <3>1. IsFiniteSet(T) /\ Cardinality(T) = Cardinality(S) + 1
        BY <2>1, <2>3, OneMore
      <3> QED
        BY <1>1, <1>2, <2>3, <3>1
    <2> QED
      BY <2>2, <2>3
  <1>3. CASE ~in
    <2>1. T = S \ {e}
      BY <1>3
    <2>2. CASE was
      <3>1. IsFiniteSet(T) /\ Cardinality(T) = Cardinality(S) - 1
        BY <2>1, <2>2, OneLess
      <3> QED
        BY <1>1, <1>3, <2>2, <3>1
    <2>3. CASE ~was
      <3>1. T = S
        BY <2>1, <2>3
      <3> QED
        BY <1>1, <1>3, <2>3, <3>1
    <2> QED
      BY <2>2, <2>3
  <1> QED
    BY <1>2, <1>3

\* One lock or one reference more or less, for one thread that moves.
LEMMA HoldsMove ==
  ASSUME NEW t \in Threads, OthersRest(t), NEW x, NEW g \in HoldKinds,
         \A h \in HoldKinds \ {g} : HoldsBy(h, t, x)' = HoldsBy(h, t, x)
  PROVE  Cardinality(Holds(x)') = Cardinality(Holds(x)) + (IF HoldsBy(g, t, x)' THEN 1 ELSE 0)
                                                        - (IF HoldsBy(g, t, x) THEN 1 ELSE 0)
  <1>1. \A u \in Threads \ {t} : \A h \in HoldKinds : HoldsBy(h, u, x)' = HoldsBy(h, u, x)
    BY Zenon DEF OthersRest, HoldsBy, Adds, Hooks, Asks, Walks, Does, Op
  <1>2. \A h \in HoldKinds, u \in Threads :
           <<h, u>> # <<g, t>> => (<<h, u>> \in Holds(x)' <=> <<h, u>> \in Holds(x))
    BY <1>1, HoldMembers, NextHoldMembers
  <1>3. /\ <<g, t>> \in Holds(x) <=> HoldsBy(g, t, x)
        /\ <<g, t>> \in Holds(x)' <=> HoldsBy(g, t, x)'
    BY HoldMembers, NextHoldMembers
  <1>4. Holds(x) \subseteq HoldKinds \X Threads /\ Holds(x)' \subseteq HoldKinds \X Threads
    BY HoldMembers, NextHoldMembers
  <1>5. PICK S, T, e, in, was : /\ S = Holds(x) /\ T = Holds(x)' /\ e = <<g, t>>
                                /\ in = HoldsBy(g, t, x)' /\ was = HoldsBy(g, t, x)
    OBVIOUS
  <1>6. in \in BOOLEAN /\ was \in BOOLEAN
    BY <1>5 DEF HoldsBy, Adds, Hooks, Asks, Walks, Does
  <1>7. T = IF in THEN S \cup {e} ELSE S \ {e}
    BY <1>2, <1>3, <1>4, <1>5
  <1>8. IsFiniteSet(S)
    BY <1>5, HoldsFinite
  <1>9. was <=> e \in S
    BY <1>3, <1>5
  <1>10. Cardinality(T) = Cardinality(S) + (IF in THEN 1 ELSE 0) - (IF was THEN 1 ELSE 0)
    BY <1>6, <1>7, <1>8, <1>9, OneMoves
  <1> QED
    BY <1>5, <1>10

LEMMA UsersMove ==
  ASSUME NEW t \in Threads, OthersRest(t), NEW x, NEW g \in UseKinds,
         \A h \in UseKinds \ {g} : UsesBy(h, t, x)' = UsesBy(h, t, x)
  PROVE  Cardinality(Users(x)') = Cardinality(Users(x)) + (IF UsesBy(g, t, x)' THEN 1 ELSE 0)
                                                        - (IF UsesBy(g, t, x) THEN 1 ELSE 0)
  <1>1. \A u \in Threads \ {t} : \A h \in UseKinds : UsesBy(h, u, x)' = UsesBy(h, u, x)
    BY Zenon DEF OthersRest, UsesBy, Owns, Adds, Hooks
  <1>2. \A h \in UseKinds, u \in Threads :
           <<h, u>> # <<g, t>> => (<<h, u>> \in Users(x)' <=> <<h, u>> \in Users(x))
    BY <1>1, HoldMembers, NextHoldMembers
  <1>3. /\ <<g, t>> \in Users(x) <=> UsesBy(g, t, x)
        /\ <<g, t>> \in Users(x)' <=> UsesBy(g, t, x)'
    BY HoldMembers, NextHoldMembers
  <1>4. Users(x) \subseteq UseKinds \X Threads /\ Users(x)' \subseteq UseKinds \X Threads
    BY HoldMembers, NextHoldMembers
  <1>5. PICK S, T, e, in, was : /\ S = Users(x) /\ T = Users(x)' /\ e = <<g, t>>
                                /\ in = UsesBy(g, t, x)' /\ was = UsesBy(g, t, x)
    OBVIOUS
  <1>6. in \in BOOLEAN /\ was \in BOOLEAN
    BY <1>5 DEF UsesBy, Owns, Adds, Hooks
  <1>7. T = IF in THEN S \cup {e} ELSE S \ {e}
    BY <1>2, <1>3, <1>4, <1>5
  <1>8. IsFiniteSet(S)
    BY <1>5, HoldsFinite
  <1>9. was <=> e \in S
    BY <1>3, <1>5
  <1>10. Cardinality(T) = Cardinality(S) + (IF in THEN 1 ELSE 0) - (IF was THEN 1 ELSE 0)
    BY <1>6, <1>7, <1>8, <1>9, OneMoves
  <1> QED
    BY <1>5, <1>10

-----------------------------------------------------------------------------
(* The remove locks: the count of an extension is that of its holders *)

HeldBy(g, t, x) ==
  /\ \A h \in HoldKinds \ {g} : HoldsBy(h, t, x)' = HoldsBy(h, t, x)
  /\ ext'[x].holders = ext[x].holders + (IF HoldsBy(g, t, x)' THEN 1 ELSE 0)
                                      - (IF HoldsBy(g, t, x) THEN 1 ELSE 0)

LEMMA HeldMoves ==
  ASSUME Held, NEW t \in Threads, OthersRest(t), NEW g \in HoldKinds, \A x \in Exts : HeldBy(g, t, x)
  PROVE  Held'
  <1> SUFFICES ASSUME NEW x \in Exts
               PROVE  ext'[x].holders = Cardinality(Holds(x)')
    BY DEF Held
  <1>1. \A h \in HoldKinds \ {g} : HoldsBy(h, t, x)' = HoldsBy(h, t, x)
    BY DEF HeldBy
  <1>2. Cardinality(Holds(x)') = Cardinality(Holds(x)) + (IF HoldsBy(g, t, x)' THEN 1 ELSE 0)
                                                      - (IF HoldsBy(g, t, x) THEN 1 ELSE 0)
    BY <1>1, HoldsMove
  <1> QED
    BY <1>2 DEF Held, HeldBy

LEMMA Holding ==
  ASSUME Typed, NEW t \in Threads
  PROVE  /\ th[t].ret \in Rets /\ \A x \in Exts : ext[x].holders \in Int /\ x # 0
         /\ th[t].pc = "next" => th[t].ret = "done" /\ th[t].request = 0
         /\ th[t].pc = "done" => th[t].ret # "hookstate"
         /\ th[t].pc \in {"process", "record", "unlock", "started", "sent", "hook", "hookstate", "hooked",
                          "walk", "tell", "read", "state", "closing", "free", "cleared", "release", "releasing"} =>
              Op(t).do \in {"query", "pass", "start", "remove", "report", "detach"}
         /\ th[t].pc = "sent" => Op(t).do \in {"query", "pass"} /\ th[t].ret = "done"
         /\ th[t].pc \in {"process", "record", "unlock"} => Op(t).do = "query" /\ th[t].ret = "unlock"
         /\ th[t].pc = "started" => Op(t).do = "start" /\ th[t].ret = "started"
         /\ th[t].pc = "hook" => /\ Op(t).do \in {"start", "remove"} /\ th[t].ret \in {"started", "hook"}
         /\ th[t].pc \in {"hookstate", "hooked"} => Op(t).do \in {"start", "remove"} /\ th[t].ret = "hookstate"
         /\ th[t].pc \in {"walk", "tell", "read", "state"} => Op(t).do = "report" /\ th[t].ret = "done"
         /\ th[t].pc \in {"release", "releasing"} =>
              \/ Op(t).do = "query" /\ th[t].ret = "unlock"
              \/ Op(t).do = "remove" /\ th[t].ret = "hook"
              \/ Op(t).do = "detach" /\ th[t].ret = "cleared"
         /\ th[t].pc \in {"closing", "free"} =>
              \/ Op(t).do = "remove" /\ th[t].ret = "hook"
              \/ Op(t).do = "detach" /\ th[t].ret = "cleared"
         /\ th[t].pc = "cleared" => /\ Op(t).do \in {"remove", "detach"} /\ th[t].ret \in {"hook", "cleared"}
         /\ th[t].pc \in {"find", "virtual", "create", "report", "insert", "added"} =>
              \/ Op(t).do \in {"add", "attach", "fti"} /\ th[t].ret = "done"
              \/ Op(t).do = "start" /\ th[t].ret = "hookstate"
         /\ th[t].pc \in {"delete", "drop"} =>
              \/ Op(t).do \in {"add", "attach", "fti", "remove", "detach"} /\ th[t].ret = "done"
              \/ Op(t).do = "start" /\ th[t].ret = "hookstate"
         /\ th[t].pc = "deref" =>
              \/ Op(t).do \in {"add", "attach", "fti", "remove", "detach"} /\ th[t].ret = "done"
              \/ Op(t).do = "start" /\ th[t].ret \in {"hookstate", "started"}
              \/ Op(t).do = "remove" /\ th[t].ret = "cleared"
  <1>1. th[t].ret \in Rets /\ \A x \in Exts : ext[x].holders \in Int /\ x # 0
    <2>1. PICK q \in ThreadTypes : q = th[t]
      BY DEF Typed, Types
    <2>2. q.ret \in Rets
      BY DEF ThreadTypes
    <2>3. \A x \in Exts : ext[x] \in ExtTypes
      BY DEF Typed, Types
    <2> QED
      BY <2>1, <2>2, <2>3, ExtNumbers, Numerals
  <1>2. Standing(t, th[t])
    BY DEF Typed, Control
  <1> QED
    BY <1>1, <1>2 DEF Standing, Calling, FindsIn, ExchangesIn, GoesIn, Op

\* Nobody has the lock of what is not made.
LEMMA Unheld ==
  ASSUME Typed, Formed, Held, NEW x \in Exts, ~Made(x)
  PROVE  ext[x].holders = 0 /\ \A t \in Threads : \A g \in HoldKinds : ~HoldsBy(g, t, x)
  <1>1. ASSUME NEW t \in Threads, NEW g \in HoldKinds
        PROVE  ~HoldsBy(g, t, x)
    <2>1. Pointers(t) /\ x # 0
      BY Numerals DEF Formed
    <2>2. Adds(t) => Owns(t)
      BY DEF Owns
    <2> QED
      BY <2>1, <2>2 DEF Pointers, HoldKinds, HoldsBy, Physical, Filter
  <1>2. Holds(x) = {}
    BY <1>1, HoldMembers
  <1> QED
    BY <1>1, <1>2, FS_EmptySet DEF Held

LEMMA HeldRender ==
  ASSUME Typed, Formed, Held, NEW t \in Threads, OthersRest(t), Render(t)
  PROVE  Held'
  <1>1. /\ th'[t].pc = th[t].pc /\ th'[t].ret = th[t].ret /\ KeepsUse(t) /\ KeepsOp(t)
        /\ \A x \in Exts : KeepsHolders(x)
    BY EffectRender
  <1>2. ASSUME NEW x \in Exts
        PROVE  HeldBy("own", t, x)
    <2>1. \A h \in HoldKinds : HoldsBy(h, t, x)' = HoldsBy(h, t, x)
      BY <1>1, Zenon DEF HoldsBy, Adds, Hooks, Asks, Walks, Does, Op, KeepsUse, KeepsOp
    <2>2. ext[x].holders \in Int /\ ext'[x].holders = ext[x].holders
      BY <1>1, Holding DEF KeepsHolders
    <2> QED
      BY <2>1, <2>2 DEF HeldBy, HoldKinds
  <1> QED
    BY <1>2, HeldMoves DEF HoldKinds

LEMMA HeldCloseVirtualPdo ==
  ASSUME Typed, Formed, Held, NEW t \in Threads, OthersRest(t), CloseVirtualPdo(t)
  PROVE  Held'
  <1>1. /\ th'[t].pc = th[t].pc /\ th'[t].ret = th[t].ret /\ KeepsUse(t) /\ KeepsOp(t)
        /\ \A x \in Exts : KeepsHolders(x)
    BY EffectCloseVirtualPdo
  <1>2. ASSUME NEW x \in Exts
        PROVE  HeldBy("own", t, x)
    <2>1. \A h \in HoldKinds : HoldsBy(h, t, x)' = HoldsBy(h, t, x)
      BY <1>1, Zenon DEF HoldsBy, Adds, Hooks, Asks, Walks, Does, Op, KeepsUse, KeepsOp
    <2>2. ext[x].holders \in Int /\ ext'[x].holders = ext[x].holders
      BY <1>1, Holding DEF KeepsHolders
    <2> QED
      BY <2>1, <2>2 DEF HeldBy, HoldKinds
  <1> QED
    BY <1>2, HeldMoves DEF HoldKinds

LEMMA HeldDeleteVirtualPdoByExtensionInternal ==
  ASSUME Typed, Formed, Held, NEW t \in Threads, OthersRest(t), DeleteVirtualPdoByExtensionInternal(t)
  PROVE  Held'
  <1>1. /\ th'[t].pc = th[t].pc /\ th'[t].ret = th[t].ret /\ KeepsUse(t) /\ KeepsOp(t)
        /\ \A x \in Exts : KeepsHolders(x)
    BY EffectDeleteVirtualPdoByExtensionInternal
  <1>2. ASSUME NEW x \in Exts
        PROVE  HeldBy("own", t, x)
    <2>1. \A h \in HoldKinds : HoldsBy(h, t, x)' = HoldsBy(h, t, x)
      BY <1>1, Zenon DEF HoldsBy, Adds, Hooks, Asks, Walks, Does, Op, KeepsUse, KeepsOp
    <2>2. ext[x].holders \in Int /\ ext'[x].holders = ext[x].holders
      BY <1>1, Holding DEF KeepsHolders
    <2> QED
      BY <2>1, <2>2 DEF HeldBy, HoldKinds
  <1> QED
    BY <1>2, HeldMoves DEF HoldKinds

LEMMA HeldDeleteVirtualPdoByExtension ==
  ASSUME Typed, Formed, Held, NEW t \in Threads, OthersRest(t), DeleteVirtualPdoByExtension(t)
  PROVE  Held'
  <1>1. /\ th[t].pc = "delete" /\ th'[t].pc \in {"deref", "drop"} /\ th'[t].ret = th[t].ret /\ KeepsUse(t) /\ KeepsOp(t)
        /\ \A x \in Exts : KeepsHolders(x)
    BY EffectDeleteVirtualPdoByExtension
  <1>2. ASSUME NEW x \in Exts
        PROVE  HeldBy("own", t, x)
    <2>1. \A h \in HoldKinds : HoldsBy(h, t, x)' = HoldsBy(h, t, x)
      BY <1>1 DEF HoldsBy, Adds, Hooks, Asks, Walks, Does, Op, KeepsUse, KeepsOp
    <2>2. ext[x].holders \in Int /\ ext'[x].holders = ext[x].holders
      BY <1>1, Holding DEF KeepsHolders
    <2> QED
      BY <2>1, <2>2 DEF HeldBy, HoldKinds
  <1> QED
    BY <1>2, HeldMoves DEF HoldKinds

LEMMA HeldDropInitialReference ==
  ASSUME Typed, Formed, Held, NEW t \in Threads, OthersRest(t), DropInitialReference(t)
  PROVE  Held'
  <1>2. \A x \in Exts : HeldBy("own", t, x)
    BY Holding, EffectDropInitialReference DEF HeldBy, HoldKinds, HoldsBy, Adds, Hooks, Asks, Walks, Does, Op, KeepsUse, KeepsOp, KeepsHolders, Rets
  <1> QED
    BY <1>2, HeldMoves DEF HoldKinds

LEMMA HeldDereferenceVirtualPdo ==
  ASSUME Typed, Formed, Held, NEW t \in Threads, OthersRest(t), DereferenceVirtualPdo(t)
  PROVE  Held'
  <1>2. \A x \in Exts : HeldBy("own", t, x)
    BY Holding, EffectDereferenceVirtualPdo DEF HeldBy, HoldKinds, HoldsBy, Adds, Hooks, Asks, Walks, Does, Op, KeepsUse, KeepsOp, KeepsHolders, Rets
  <1> QED
    BY <1>2, HeldMoves DEF HoldKinds

LEMMA HeldDone ==
  ASSUME Typed, Formed, Held, NEW t \in Threads, OthersRest(t), Done(t)
  PROVE  Held'
  <1>1. /\ th[t].pc = "done" /\ th[t].ret # "hookstate"
        /\ th'[t].pc \in {"next"} /\ th'[t].ret # "hookstate"
    BY EffectDone, Holding DEF Op, KeepsOp
  <1>2. \A x \in Exts : KeepsHolders(x)
    BY EffectDone DEF KeepsHolders
  <1>3. ASSUME NEW x \in Exts
        PROVE  HeldBy("own", t, x)
    <2>1. \A h \in HoldKinds : ~HoldsBy(h, t, x) /\ ~HoldsBy(h, t, x)'
      BY <1>1 DEF HoldKinds, HoldsBy, Adds, Hooks, Asks, Walks, Does
    <2>2. ext[x].holders \in Int /\ ext'[x].holders = ext[x].holders
      BY <1>2, Holding DEF KeepsHolders
    <2>3. \A h \in HoldKinds : HoldsBy(h, t, x) \in BOOLEAN /\ HoldsBy(h, t, x)' \in BOOLEAN
      BY DEF HoldKinds, HoldsBy, Adds, Hooks, Asks, Walks, Does
    <2> QED
      BY <2>1, <2>2, <2>3 DEF HeldBy, HoldKinds
  <1> QED
    BY <1>3, HeldMoves DEF HoldKinds

LEMMA HeldProcessNewRelations ==
  ASSUME Typed, Formed, Held, NEW t \in Threads, OthersRest(t), ProcessNewRelations(t)
  PROVE  Held'
  <1>2. \A x \in Exts : HeldBy("own", t, x)
    BY Holding, EffectProcessNewRelations DEF HeldBy, HoldKinds, HoldsBy, Adds, Hooks, Asks, Walks, Does, Op, KeepsUse, KeepsOp, KeepsHolders, Rets
  <1> QED
    BY <1>2, HeldMoves DEF HoldKinds

LEMMA HeldRecordShadow ==
  ASSUME Typed, Formed, Held, NEW t \in Threads, OthersRest(t), RecordShadow(t)
  PROVE  Held'
  <1>2. \A x \in Exts : HeldBy("own", t, x)
    BY Holding, EffectRecordShadow DEF HeldBy, HoldKinds, HoldsBy, Adds, Hooks, Asks, Walks, Does, Op, KeepsUse, KeepsOp, KeepsHolders, Rets
  <1> QED
    BY <1>2, HeldMoves DEF HoldKinds

LEMMA HeldReleaseOldRelations ==
  ASSUME Typed, Formed, Held, NEW t \in Threads, OthersRest(t), ReleaseOldRelations(t)
  PROVE  Held'
  <1>2. \A x \in Exts : HeldBy("own", t, x)
    BY Holding, EffectReleaseOldRelations DEF HeldBy, HoldKinds, HoldsBy, Adds, Hooks, Asks, Walks, Does, Op, KeepsUse, KeepsOp, KeepsHolders, Rets
  <1> QED
    BY <1>2, HeldMoves DEF HoldKinds

LEMMA HeldReleaseOne ==
  ASSUME Typed, Formed, Held, NEW t \in Threads, OthersRest(t), ReleaseOne(t)
  PROVE  Held'
  <1>2. \A x \in Exts : HeldBy("own", t, x)
    BY Holding, EffectReleaseOne DEF HeldBy, HoldKinds, HoldsBy, Adds, Hooks, Asks, Walks, Does, Op, KeepsUse, KeepsOp, KeepsHolders, Rets
  <1> QED
    BY <1>2, HeldMoves DEF HoldKinds

LEMMA HeldReleasedAll ==
  ASSUME Typed, Formed, Held, NEW t \in Threads, OthersRest(t), ReleasedAll(t)
  PROVE  Held'
  <1>2. \A x \in Exts : HeldBy("own", t, x)
    BY Holding, EffectReleasedAll DEF HeldBy, HoldKinds, HoldsBy, Adds, Hooks, Asks, Walks, Does, Op, KeepsUse, KeepsOp, KeepsHolders, Rets
  <1> QED
    BY <1>2, HeldMoves DEF HoldKinds

LEMMA HeldDispatchRequest ==
  ASSUME Typed, Formed, Held, NEW t \in Threads, OthersRest(t), DispatchRequest(t)
  PROVE  Held'
  <1>2. \A x \in Exts : HeldBy("filter", t, x)
    BY Holding, EffectDispatchRequest DEF HeldBy, HoldKinds, HoldsBy, Adds, Hooks, Asks, Walks, Does, Op, KeepsUse, KeepsOp, KeepsHolders, Rets
  <1> QED
    BY <1>2, HeldMoves DEF HoldKinds

LEMMA HeldFilterPass ==
  ASSUME Typed, Formed, Held, NEW t \in Threads, OthersRest(t), FilterPass(t)
  PROVE  Held'
  <1>2. \A x \in Exts : HeldBy("filter", t, x)
    BY Holding, EffectFilterPass DEF HeldBy, HoldKinds, HoldsBy, Adds, Hooks, Asks, Walks, Does, Op, KeepsUse, KeepsOp, KeepsHolders, Rets
  <1> QED
    BY <1>2, HeldMoves DEF HoldKinds

LEMMA HeldQueryDeviceRelations ==
  ASSUME Typed, Formed, Held, NEW t \in Threads, OthersRest(t), QueryDeviceRelations(t)
  PROVE  Held'
  <1>2. \A x \in Exts : HeldBy("own", t, x)
    BY Holding, EffectQueryDeviceRelations DEF HeldBy, HoldKinds, HoldsBy, Adds, Hooks, Asks, Walks, Does, Op, KeepsUse, KeepsOp, KeepsHolders, Rets
  <1> QED
    BY <1>2, HeldMoves DEF HoldKinds

LEMMA HeldQueryCompleted ==
  ASSUME Typed, Formed, Held, NEW t \in Threads, OthersRest(t), QueryCompleted(t)
  PROVE  Held'
  <1>2. \A x \in Exts : HeldBy("filter", t, x)
    BY Holding, EffectQueryCompleted DEF HeldBy, HoldKinds, HoldsBy, Adds, Hooks, Asks, Walks, Does, Op, KeepsUse, KeepsOp, KeepsHolders, Rets
  <1> QED
    BY <1>2, HeldMoves DEF HoldKinds

LEMMA HeldStartDevice ==
  ASSUME Typed, Formed, Held, NEW t \in Threads, OthersRest(t), StartDevice(t)
  PROVE  Held'
  <1>2. \A x \in Exts : HeldBy("filter", t, x)
    BY Holding, EffectStartDevice DEF HeldBy, HoldKinds, HoldsBy, Adds, Hooks, Asks, Walks, Does, Op, KeepsUse, KeepsOp, KeepsHolders, Rets
  <1> QED
    BY <1>2, HeldMoves DEF HoldKinds

LEMMA HeldStarted ==
  ASSUME Typed, Formed, Held, NEW t \in Threads, OthersRest(t), Started(t)
  PROVE  Held'
  <1>2. \A x \in Exts : HeldBy("filter", t, x)
    BY Holding, EffectStarted DEF HeldBy, HoldKinds, HoldsBy, Adds, Hooks, Asks, Walks, Does, Op, KeepsUse, KeepsOp, KeepsHolders, Rets
  <1> QED
    BY <1>2, HeldMoves DEF HoldKinds

LEMMA HeldRemoveDevice ==
  ASSUME Typed, Formed, Held, NEW t \in Threads, OthersRest(t), RemoveDevice(t)
  PROVE  Held'
  <1>1. /\ th[t].pc = "next" /\ th[t].ret # "hookstate"
        /\ th'[t].pc \in {"done", "closing"} /\ th'[t].ret # "hookstate" /\ ~(Op(t)'.do \in {"query", "pass", "start"})
    BY EffectRemoveDevice, Holding DEF Op, KeepsOp
  <1>2. \A x \in Exts : KeepsHolders(x)
    BY EffectRemoveDevice DEF KeepsHolders
  <1>3. ASSUME NEW x \in Exts
        PROVE  HeldBy("own", t, x)
    <2>1. \A h \in HoldKinds : ~HoldsBy(h, t, x) /\ ~HoldsBy(h, t, x)'
      BY <1>1 DEF HoldKinds, HoldsBy, Adds, Hooks, Asks, Walks, Does
    <2>2. ext[x].holders \in Int /\ ext'[x].holders = ext[x].holders
      BY <1>2, Holding DEF KeepsHolders
    <2>3. \A h \in HoldKinds : HoldsBy(h, t, x) \in BOOLEAN /\ HoldsBy(h, t, x)' \in BOOLEAN
      BY DEF HoldKinds, HoldsBy, Adds, Hooks, Asks, Walks, Does
    <2> QED
      BY <2>1, <2>2, <2>3 DEF HeldBy, HoldKinds
  <1> QED
    BY <1>3, HeldMoves DEF HoldKinds

LEMMA HeldFastIoDetachDevice ==
  ASSUME Typed, Formed, Held, NEW t \in Threads, OthersRest(t), FastIoDetachDevice(t)
  PROVE  Held'
  <1>1. /\ th[t].pc = "next" /\ th[t].ret # "hookstate"
        /\ th'[t].pc \in {"done", "closing"} /\ th'[t].ret # "hookstate" /\ ~(Op(t)'.do \in {"query", "pass", "start"})
    BY EffectFastIoDetachDevice, Holding DEF Op, KeepsOp
  <1>2. \A x \in Exts : KeepsHolders(x)
    BY EffectFastIoDetachDevice DEF KeepsHolders
  <1>3. ASSUME NEW x \in Exts
        PROVE  HeldBy("own", t, x)
    <2>1. \A h \in HoldKinds : ~HoldsBy(h, t, x) /\ ~HoldsBy(h, t, x)'
      BY <1>1 DEF HoldKinds, HoldsBy, Adds, Hooks, Asks, Walks, Does
    <2>2. ext[x].holders \in Int /\ ext'[x].holders = ext[x].holders
      BY <1>2, Holding DEF KeepsHolders
    <2>3. \A h \in HoldKinds : HoldsBy(h, t, x) \in BOOLEAN /\ HoldsBy(h, t, x)' \in BOOLEAN
      BY DEF HoldKinds, HoldsBy, Adds, Hooks, Asks, Walks, Does
    <2> QED
      BY <2>1, <2>2, <2>3 DEF HeldBy, HoldKinds
  <1> QED
    BY <1>3, HeldMoves DEF HoldKinds

LEMMA HeldRemoveDeviceFromTheList ==
  ASSUME Typed, Formed, Held, NEW t \in Threads, OthersRest(t), RemoveDeviceFromTheList(t)
  PROVE  Held'
  <1>2. \A x \in Exts : HeldBy("own", t, x)
    BY Holding, EffectRemoveDeviceFromTheList DEF HeldBy, HoldKinds, HoldsBy, Adds, Hooks, Asks, Walks, Does, Op, KeepsUse, KeepsOp, KeepsHolders, Rets
  <1> QED
    BY <1>2, HeldMoves DEF HoldKinds

LEMMA HeldFreeAllDeviceRelations ==
  ASSUME Typed, Formed, Held, NEW t \in Threads, OthersRest(t), FreeAllDeviceRelations(t)
  PROVE  Held'
  <1>2. \A x \in Exts : HeldBy("own", t, x)
    BY Holding, EffectFreeAllDeviceRelations DEF HeldBy, HoldKinds, HoldsBy, Adds, Hooks, Asks, Walks, Does, Op, KeepsUse, KeepsOp, KeepsHolders, Rets
  <1> QED
    BY <1>2, HeldMoves DEF HoldKinds

LEMMA HeldClearFilterDeviceExtension ==
  ASSUME Typed, Formed, Held, NEW t \in Threads, OthersRest(t), ClearFilterDeviceExtension(t)
  PROVE  Held'
  <1>2. \A x \in Exts : HeldBy("own", t, x)
    BY Holding, EffectClearFilterDeviceExtension DEF HeldBy, HoldKinds, HoldsBy, Adds, Hooks, Asks, Walks, Does, Op, KeepsUse, KeepsOp, KeepsHolders, Rets
  <1> QED
    BY <1>2, HeldMoves DEF HoldKinds

LEMMA HeldPnPMajorHookDispatch ==
  ASSUME Typed, Formed, Held, NEW t \in Threads, OthersRest(t), PnPMajorHookDispatch(t)
  PROVE  Held'
  <1>2. \A x \in Exts : HeldBy("hook", t, x)
    BY Holding, EffectPnPMajorHookDispatch DEF HeldBy, HoldKinds, HoldsBy, Adds, Hooks, Asks, Walks, Does, Op, KeepsUse, KeepsOp, KeepsHolders, Rets
  <1> QED
    BY <1>2, HeldMoves DEF HoldKinds

LEMMA HeldSetPdoState ==
  ASSUME Typed, Formed, Held, NEW t \in Threads, OthersRest(t), SetPdoState(t)
  PROVE  Held'
  <1>2. \A x \in Exts : HeldBy("own", t, x)
    BY Holding, EffectSetPdoState DEF HeldBy, HoldKinds, HoldsBy, Adds, Hooks, Asks, Walks, Does, Op, KeepsUse, KeepsOp, KeepsHolders, Rets
  <1> QED
    BY <1>2, HeldMoves DEF HoldKinds

LEMMA HeldCallOriginal ==
  ASSUME Typed, Formed, Held, NEW t \in Threads, OthersRest(t), CallOriginal(t)
  PROVE  Held'
  <1>2. \A x \in Exts : HeldBy("hook", t, x)
    BY Holding, EffectCallOriginal DEF HeldBy, HoldKinds, HoldsBy, Adds, Hooks, Asks, Walks, Does, Op, KeepsUse, KeepsOp, KeepsHolders, Rets
  <1> QED
    BY <1>2, HeldMoves DEF HoldKinds

LEMMA HeldDriverUnloadHook ==
  ASSUME Typed, Formed, Held, NEW t \in Threads, OthersRest(t), DriverUnloadHook(t)
  PROVE  Held'
  <1>2. \A x \in Exts : HeldBy("own", t, x)
    BY Holding, EffectDriverUnloadHook DEF HeldBy, HoldKinds, HoldsBy, Adds, Hooks, Asks, Walks, Does, Op, KeepsUse, KeepsOp, KeepsHolders, Rets
  <1> QED
    BY <1>2, HeldMoves DEF HoldKinds

LEMMA HeldAddDevice ==
  ASSUME Typed, Formed, Held, NEW t \in Threads, OthersRest(t), AddDevice(t)
  PROVE  Held'
  <1>2. \A x \in Exts : HeldBy("own", t, x)
    BY Holding, EffectAddDevice DEF HeldBy, HoldKinds, HoldsBy, Adds, Hooks, Asks, Walks, Does, Op, KeepsUse, KeepsOp, KeepsHolders, Rets
  <1> QED
    BY <1>2, HeldMoves DEF HoldKinds

LEMMA HeldAddDeviceFTI ==
  ASSUME Typed, Formed, Held, NEW t \in Threads, OthersRest(t), AddDeviceFTI(t)
  PROVE  Held'
  <1>1. ASSUME NEW x \in Exts
        PROVE  ext'[x].holders = ext[x].holders
    <2>1. CASE ext' = ext
      BY <2>1
    <2>2. CASE ext' # ext
      <3>1. Fresh \in Exts /\ ext[Fresh].life = "none" /\ ext'[Fresh].holders = 0
        BY <2>2, EffectAddDeviceFTI, NewVirtualIs
      <3>2. ext[Fresh].holders = 0
        BY <3>1, Unheld DEF Made
      <3> QED
        BY <2>2, <3>1, <3>2, EffectAddDeviceFTI DEF KeepsHolders
    <2> QED
      BY <2>1, <2>2
  <1>2. \A x \in Exts : HeldBy("own", t, x)
    BY <1>1, Holding, EffectAddDeviceFTI DEF HeldBy, HoldKinds, HoldsBy, Adds, Hooks, Asks, Walks, Does, Op, KeepsUse, KeepsOp, KeepsHolders, Rets
  <1> QED
    BY <1>2, HeldMoves DEF HoldKinds

LEMMA HeldFindVirtualPdo ==
  ASSUME Typed, Formed, Held, NEW t \in Threads, OthersRest(t), FindVirtualPdo(t)
  PROVE  Held'
  <1>2. \A x \in Exts : HeldBy("own", t, x)
    BY Holding, EffectFindVirtualPdo DEF HeldBy, HoldKinds, HoldsBy, Adds, Hooks, Asks, Walks, Does, Op, KeepsUse, KeepsOp, KeepsHolders, Rets
  <1> QED
    BY <1>2, HeldMoves DEF HoldKinds

LEMMA HeldAddVirtualDeviceForPdo ==
  ASSUME Typed, Formed, Held, NEW t \in Threads, OthersRest(t), AddVirtualDeviceForPdo(t)
  PROVE  Held'
  <1>1. ASSUME NEW x \in Exts
        PROVE  ext'[x].holders = ext[x].holders
    <2>1. CASE ext' = ext
      BY <2>1
    <2>2. CASE ext' # ext
      <3>1. Fresh \in Exts /\ ext[Fresh].life = "none" /\ ext'[Fresh].holders = 0
        BY <2>2, EffectAddVirtualDeviceForPdo, NewVirtualIs
      <3>2. ext[Fresh].holders = 0
        BY <3>1, Unheld DEF Made
      <3> QED
        BY <2>2, <3>1, <3>2, EffectAddVirtualDeviceForPdo DEF KeepsHolders
    <2> QED
      BY <2>1, <2>2
  <1>2. \A x \in Exts : HeldBy("own", t, x)
    BY <1>1, Holding, EffectAddVirtualDeviceForPdo DEF HeldBy, HoldKinds, HoldsBy, Adds, Hooks, Asks, Walks, Does, Op, KeepsUse, KeepsOp, KeepsHolders, Rets
  <1> QED
    BY <1>2, HeldMoves DEF HoldKinds

LEMMA HeldAddFails ==
  ASSUME Typed, Formed, Held, NEW t \in Threads, OthersRest(t), AddFails(t)
  PROVE  Held'
  <1>2. \A x \in Exts : HeldBy("own", t, x)
    BY Holding, EffectAddFails DEF HeldBy, HoldKinds, HoldsBy, Adds, Hooks, Asks, Walks, Does, Op, KeepsUse, KeepsOp, KeepsHolders, Rets
  <1> QED
    BY <1>2, HeldMoves DEF HoldKinds

LEMMA HeldAttachFilterDevice ==
  ASSUME Typed, Formed, Held, NEW t \in Threads, OthersRest(t), AttachFilterDevice(t)
  PROVE  Held'
  <1>1. PICK n \in Exts : n = Fresh
    BY EffectAttachFilterDevice
  <1>2. /\ ext[n].life = "none" /\ th[t].pc = "create" /\ th'[t].pc = "report" /\ th'[t].ret = th[t].ret
        /\ th'[t].x = th[t].x /\ th'[t].h = th[t].h /\ th'[t].f = th[t].f /\ th'[t].request = th[t].request /\ KeepsOp(t)
        /\ \A x \in Exts : x # n => KeepsHolders(x)
        /\ ext'[n] = [Added(Op(t).dev, "filter") EXCEPT !.vpdo = th[t].x]
    BY <1>1, EffectAttachFilterDevice
  <1>3. ext[n].holders = 0 /\ ext'[n].holders = 0
    BY <1>2, Unheld, NewFilterIs DEF Made
  <1>4. ASSUME NEW x \in Exts
        PROVE  HeldBy("own", t, x)
    <2>1. \A h \in HoldKinds : HoldsBy(h, t, x)' = HoldsBy(h, t, x)
      BY <1>2 DEF HoldsBy, Adds, Hooks, Asks, Walks, Does, Op, KeepsOp
    <2>2. ext[x].holders \in Int /\ ext'[x].holders = ext[x].holders
      BY <1>2, <1>3, Holding DEF KeepsHolders
    <2> QED
      BY <2>1, <2>2 DEF HeldBy, HoldKinds
  <1> QED
    BY <1>4, HeldMoves DEF HoldKinds

LEMMA HeldReportAddedDevice ==
  ASSUME Typed, Formed, Held, NEW t \in Threads, OthersRest(t), ReportAddedDevice(t)
  PROVE  Held'
  <1>2. \A x \in Exts : HeldBy("own", t, x)
    BY Holding, EffectReportAddedDevice DEF HeldBy, HoldKinds, HoldsBy, Adds, Hooks, Asks, Walks, Does, Op, KeepsUse, KeepsOp, KeepsHolders, Rets
  <1> QED
    BY <1>2, HeldMoves DEF HoldKinds

LEMMA HeldInsertInList ==
  ASSUME Typed, Formed, Held, NEW t \in Threads, OthersRest(t), InsertInList(t)
  PROVE  Held'
  <1>2. \A x \in Exts : HeldBy("own", t, x)
    BY Holding, EffectInsertInList DEF HeldBy, HoldKinds, HoldsBy, Adds, Hooks, Asks, Walks, Does, Op, KeepsUse, KeepsOp, KeepsHolders, Rets
  <1> QED
    BY <1>2, HeldMoves DEF HoldKinds

LEMMA HeldAddedDevice ==
  ASSUME Typed, Formed, Held, NEW t \in Threads, OthersRest(t), AddedDevice(t)
  PROVE  Held'
  <1>2. \A x \in Exts : HeldBy("own", t, x)
    BY Holding, EffectAddedDevice DEF HeldBy, HoldKinds, HoldsBy, Adds, Hooks, Asks, Walks, Does, Op, KeepsUse, KeepsOp, KeepsHolders, Rets
  <1> QED
    BY <1>2, HeldMoves DEF HoldKinds

LEMMA HeldReportExisitingDevices ==
  ASSUME Typed, Formed, Held, NEW t \in Threads, OthersRest(t), ReportExisitingDevices(t)
  PROVE  Held'
  <1>2. \A x \in Exts : HeldBy("own", t, x)
    BY Holding, EffectReportExisitingDevices DEF HeldBy, HoldKinds, HoldsBy, Adds, Hooks, Asks, Walks, Does, Op, KeepsUse, KeepsOp, KeepsHolders, Rets
  <1> QED
    BY <1>2, HeldMoves DEF HoldKinds

LEMMA HeldNextReportedDevice ==
  ASSUME Typed, Formed, Held, NEW t \in Threads, OthersRest(t), NextReportedDevice(t)
  PROVE  Held'
  <1>2. \A x \in Exts : HeldBy("report", t, x)
    BY Holding, EffectNextReportedDevice DEF HeldBy, HoldKinds, HoldsBy, Adds, Hooks, Asks, Walks, Does, Op, KeepsUse, KeepsOp, KeepsHolders, Rets
  <1> QED
    BY <1>2, HeldMoves DEF HoldKinds

LEMMA HeldReportExistingDevice ==
  ASSUME Typed, Formed, Held, NEW t \in Threads, OthersRest(t), ReportExistingDevice(t)
  PROVE  Held'
  <1>2. \A x \in Exts : HeldBy("own", t, x)
    BY Holding, EffectReportExistingDevice DEF HeldBy, HoldKinds, HoldsBy, Adds, Hooks, Asks, Walks, Does, Op, KeepsUse, KeepsOp, KeepsHolders, Rets
  <1> QED
    BY <1>2, HeldMoves DEF HoldKinds

LEMMA HeldReadState ==
  ASSUME Typed, Formed, Held, NEW t \in Threads, OthersRest(t), ReadState(t)
  PROVE  Held'
  <1>2. \A x \in Exts : HeldBy("own", t, x)
    BY Holding, EffectReadState DEF HeldBy, HoldKinds, HoldsBy, Adds, Hooks, Asks, Walks, Does, Op, KeepsUse, KeepsOp, KeepsHolders, Rets
  <1> QED
    BY <1>2, HeldMoves DEF HoldKinds

LEMMA HeldReportExistingState ==
  ASSUME Typed, Formed, Held, NEW t \in Threads, OthersRest(t), ReportExistingState(t)
  PROVE  Held'
  <1>2. \A x \in Exts : HeldBy("own", t, x)
    BY Holding, EffectReportExistingState DEF HeldBy, HoldKinds, HoldsBy, Adds, Hooks, Asks, Walks, Does, Op, KeepsUse, KeepsOp, KeepsHolders, Rets
  <1> QED
    BY <1>2, HeldMoves DEF HoldKinds

LEMMA HeldStep ==
  ASSUME Typed, Formed, Held, NEW t \in Threads, OthersRest(t), Step(t)
  PROVE  Held'
  <1>1. CASE Deletion(t)
    BY <1>1, HeldRender, HeldCloseVirtualPdo, HeldDeleteVirtualPdoByExtensionInternal, HeldDeleteVirtualPdoByExtension, HeldDropInitialReference, HeldDereferenceVirtualPdo, Zenon DEF Deletion
  <1>2. CASE Relations(t)
    BY <1>2, HeldProcessNewRelations, HeldRecordShadow, HeldReleaseOldRelations, HeldReleaseOne, HeldReleasedAll, Zenon DEF Relations
  <1>3. CASE Requests(t)
    BY <1>3, HeldDispatchRequest, HeldFilterPass, HeldQueryDeviceRelations, HeldQueryCompleted, HeldStartDevice, HeldStarted, HeldRemoveDevice, HeldFastIoDetachDevice, HeldRemoveDeviceFromTheList, HeldFreeAllDeviceRelations, HeldClearFilterDeviceExtension, Zenon DEF Requests
  <1>4. CASE Hook(t)
    BY <1>4, HeldPnPMajorHookDispatch, HeldSetPdoState, HeldCallOriginal, HeldDriverUnloadHook, Zenon DEF Hook
  <1>5. CASE Adding(t)
    BY <1>5, HeldAddDevice, HeldAddDeviceFTI, HeldFindVirtualPdo, HeldAddVirtualDeviceForPdo, HeldAddFails, HeldAttachFilterDevice, HeldReportAddedDevice, HeldInsertInList, HeldAddedDevice, Zenon DEF Adding
  <1>6. CASE Reporting(t)
    BY <1>6, HeldReportExisitingDevices, HeldNextReportedDevice, HeldReportExistingDevice, HeldReadState, HeldReportExistingState, Zenon DEF Reporting
  <1>7. CASE Done(t)
    BY <1>7, HeldDone, Zenon
  <1> QED
    BY <1>1, <1>2, <1>3, <1>4, <1>5, <1>6, <1>7 DEF Step

LEMMA HeldSteps ==
  Typed /\ Formed /\ Held /\ [Next]_vars => Held'
  <1> SUFFICES ASSUME Typed, Formed, Held, [Next]_vars
               PROVE  Held'
    OBVIOUS
  <1>1. CASE UNCHANGED vars
    BY <1>1 DEF vars, Held, Holds, Adds, Hooks, Asks, Walks, Does, Op
  <1>2. CASE Next
    <2>1. PICK t \in Threads : Step(t)
      BY <1>2 DEF Next, Step
    <2>2. OthersRest(t)
      BY <2>1, TypedStep
    <2> QED
      BY <2>1, <2>2, HeldStep
  <1> QED
    BY <1>1, <1>2

LEMMA BeginsHeld ==
  Init => Held
  <1> SUFFICES ASSUME Init, NEW x \in Exts
               PROVE  ext[x].holders = Cardinality(Holds(x))
    BY DEF Held
  <1>1. ext[x].holders = 0
    <2>1. Len(Boot) \in Nat /\ x \in Nat
      BY PnPFilterAssumption, Numerals
    <2>2. CASE x <= 2 * Len(Boot)
      BY <2>2, BootIs, BootFields
    <2>3. CASE x > 2 * Len(Boot)
      BY <2>3, BootIs, NoFields
    <2> QED
      BY <2>1, <2>2, <2>3
  <1>2. \A t \in Threads : ~Adds(t) /\ ~Hooks(t) /\ ~Asks(t) /\ ~Walks(t)
    BY InitThread DEF Adds, Hooks, Asks, Walks
  <1>3. Holds(x) = {}
    BY <1>2 DEF Holds
  <1> QED
    BY <1>1, <1>3, FS_EmptySet

\* The remove lock of an extension is held as often as there are threads that
\* have it: every IoAcquireRemoveLock has its IoReleaseRemoveLock, on every path.
THEOREM AlwaysHeld == Spec => []Held
  BY BeginsHeld, HeldSteps, AlwaysTyped, AlwaysFormed, PTL DEF Spec

-----------------------------------------------------------------------------
(* Lives: what a step may do to an extension that others work with *)

Serially(t, x) == th[t].ops # <<>> /\ Op(t).do \in Serial /\ Op(t).dev = ext[x].dev

\* What the system does with a device one call at a time, it does in one thread.
LEMMA Alone ==
  ASSUME Typed, NEW t \in Threads, NEW u \in Threads, NEW x, Serially(t, x), Serially(u, x)
  PROVE  t = u
  <1>1. ASSUME NEW v \in Threads, th[v].ops # <<>>
        PROVE  Op(v) \in Calls(v)
    <2>1. PICK q \in ThreadTypes : q = th[v]
      BY DEF Typed, Types
    <2>2. q.ops \in Seq(Call) /\ q.ops # <<>>
      BY <1>1, <2>1 DEF ThreadTypes
    <2>3. 1 \in DOMAIN q.ops /\ Head(q.ops) = q.ops[1]
      BY <2>2
    <2>4. Standing(v, q)
      BY <2>1 DEF Typed, Control
    <2>5. q.ops[1] \in Calls(v)
      BY <2>3, <2>4 DEF Standing
    <2> QED
      BY <2>1, <2>3, <2>5 DEF Op
  <1>2. Op(t) \in Calls(t) /\ Op(u) \in Calls(u) /\ Op(t).dev = Op(u).dev
    BY <1>1 DEF Serially
  <1> QED
    BY <1>2, SerialAssumption DEF Serially

Gentle(t, x) ==
  /\ Made(x) => /\ KeepsMake(x)
                /\ ext[x].closing => ext'[x].closing
                /\ ext[x].marked => ext'[x].marked
                /\ ~ext[x].marked /\ ext'[x].marked => ~Listed(x)'
  /\ ext[x].life = "live" => ext'[x].life \in {"live", "freed"}
  /\ ext[x].life = "freed" => ext'[x].life = "freed"
  /\ ext[x].life # "freed" /\ ext'[x].life = "freed" =>
       /\ ext[x].life = "live" /\ ext[x].holders = 0 /\ ~Listed(x)'
       /\ Filter(x) => Serially(t, x)
  /\ ext[x].life # "live" => ext'[x].holders <= ext[x].holders
  /\ Filter(x) /\ ext[x].holders = 0 =>
       /\ ext[x].closing /\ ~Listed(x) => ext'[x].holders <= 0 \/ Serially(t, x)
       /\ ext[x].shadow = Null => ext'[x].shadow = Null
  /\ Listed(x)' /\ ~Listed(x) => /\ ext'[x].life = "live" /\ ~ext'[x].marked /\ ~Physical(x)
                                 /\ Filter(x) => Serially(t, x)

\* The common case: nothing is made, freed, marked or put into the list.
LEMMA GentleIf ==
  ASSUME NEW t, NEW x, KeepsMake(x), KeepsLife(x), KeepsMark(x), ext[x].closing => ext'[x].closing,
         Listed(x)' => Listed(x),
         \/ ext'[x].holders <= ext[x].holders
         \/ /\ ext[x].life = "live"
            /\ Filter(x) => ~ext[x].closing \/ Listed(x) \/ Serially(t, x),
         ext'[x].shadow = ext[x].shadow \/ ext'[x].shadow = Null \/ ext[x].holders # 0
  PROVE  Gentle(t, x)
  <1>1. Made(x) => /\ KeepsMake(x)
                   /\ ext[x].closing => ext'[x].closing
                   /\ ext[x].marked => ext'[x].marked
                   /\ ~ext[x].marked /\ ext'[x].marked => ~Listed(x)'
    BY DEF KeepsMark
  <1>2. ext'[x].life = ext[x].life
    BY DEF KeepsLife
  <1>3. ext[x].life # "live" => ext'[x].holders <= ext[x].holders
    OBVIOUS
  <1>4. Filter(x) /\ ext[x].holders = 0 =>
          /\ ext[x].closing /\ ~Listed(x) => ext'[x].holders <= 0 \/ Serially(t, x)
          /\ ext[x].shadow = Null => ext'[x].shadow = Null
    OBVIOUS
  <1> QED
    BY <1>1, <1>2, <1>3, <1>4 DEF Gentle

LEMMA OrderMoves ==
  ASSUME Typed, Order,
         \/ list' = list
         \/ \E y : list' = Without(y)
         \/ \E y \in Exts : ~Listed(y) /\ list' = Append(list, y)
  PROVE  Order'
  <1>1. list \in Seq(Exts)
    BY DEF Typed, Types
  <1>2. CASE list' = list
    BY <1>2 DEF Order
  <1>3. ASSUME NEW y, list' = Without(y)
        PROVE  Order'
    BY <1>1, <1>3, WithoutIs DEF Order
  <1>4. ASSUME NEW y \in Exts, ~Listed(y), list' = Append(list, y)
        PROVE  Order'
    <2>1. /\ Len(list) \in Nat /\ DOMAIN list = 1..Len(list) /\ DOMAIN list' = 1..Len(list) + 1
          /\ list'[Len(list) + 1] = y /\ \A i \in 1..Len(list) : list'[i] = list[i]
      BY <1>1, <1>4
    <2>2. \A i \in 1..Len(list) + 1 : i = Len(list) + 1 \/ i \in 1..Len(list)
      BY <2>1
    <2>3. \A i \in 1..Len(list) : list[i] # y
      BY <1>4, <2>1 DEF Listed
    <2> QED
      BY <2>1, <2>2, <2>3 DEF Order
  <1> QED
    BY <1>2, <1>3, <1>4

LEMMA HoldersCount ==
  Held => \A x \in Exts : ext[x].holders \in Nat
  BY HoldsFinite DEF Held

LEMMA NextHoldersCount ==
  (Held => \A x \in Exts : ext[x].holders \in Nat)'
  BY HoldersCount, PTL

LEMMA LastingMoves ==
  ASSUME Typed, Typed', Held', NEW t, NEW x \in Exts, Extension(x), Lasting(x), Gentle(t, x),
         ext'[x].life = "freed" /\ ext[x].life # "freed" => KeepsHolders(x)
  PROVE  Lasting(x)'
  <1>1. ext[x].holders \in Int /\ ext'[x].holders \in Nat
    <2>1. ext[x] \in ExtTypes
      BY DEF Typed, Types
    <2> QED
      BY <2>1, ExtNumbers, NextHoldersCount
  <1>2. Listed(x)' => ext'[x].life = "live" /\ ~ext'[x].marked
    <2>1. CASE Listed(x)
      <3>1. ext[x].life = "live" /\ ~ext[x].marked /\ Made(x)
        BY <2>1 DEF Lasting, Extension
      <3> QED
        BY <3>1 DEF Gentle
    <2> QED
      BY <2>1 DEF Gentle
  <1>3. ext'[x].life = "freed" => ext'[x].holders = 0
    <2>1. CASE ext[x].life = "freed"
      <3>1. ext[x].holders = 0 /\ ext'[x].holders <= ext[x].holders
        BY <2>1 DEF Lasting, Gentle
      <3> QED
        BY <1>1, <3>1
    <2>2. CASE ext[x].life # "freed"
      BY <2>2 DEF Gentle, KeepsHolders
    <2> QED
      BY <2>1, <2>2
  <1> QED
    BY <1>2, <1>3 DEF Lasting

\* Whom a thread works for.
LEMMA Working ==
  ASSUME Typed, Formed, NEW t \in Threads
  PROVE  /\ Removes(t) => /\ th[t].ops # <<>> /\ Op(t).do \in Serial
                          /\ th[t].f \in Exts /\ Filter(th[t].f)
         /\ th[t].pc \in {"report", "insert", "added"} =>
              /\ th[t].ops # <<>> /\ Op(t).do \in Serial
              /\ th[t].n \in Exts /\ Filter(th[t].n) /\ th[t].x \in Exts /\ Physical(th[t].x)
         /\ Owns(t) => th[t].x \in Exts /\ Physical(th[t].x)
         /\ th[t].del # 0 => th[t].del \in Exts /\ Physical(th[t].del)
         /\ Asks(t) => (th[t].f \in Exts /\ Filter(th[t].f)) \/ th[t].f = 0
  <1>1. PICK q \in ThreadTypes : q = th[t]
    BY DEF Typed, Types
  <1>2. /\ q.x # 0 => q.x \in Exts
        /\ q.f # 0 => q.f \in Exts
        /\ q.n # 0 => q.n \in Exts
        /\ q.del # 0 => q.del \in Exts
    BY PointersTyped DEF Numbers6
  <1>3. Standing(t, q) /\ Pointers(t)
    BY <1>1 DEF Typed, Control, Formed
  <1>4. /\ q.pc # "next" => q.ops # <<>>
        /\ q.pc \in {"report", "insert", "added"} => FindsIn(q) /\ q.n # 0
        /\ q.pc \notin {"next", "done"} /\ Calling(q, {"query", "pass", "remove", "detach"}) => q.f # 0
    BY <1>3 DEF Standing
  <1>5. /\ q.x # 0 => Physical(q.x)
        /\ q.f # 0 => Filter(q.f)
        /\ q.n # 0 => Filter(q.n)
        /\ q.del # 0 => Physical(q.del)
        /\ Owns(t) => q.x # 0
    BY <1>1, <1>3 DEF Pointers
  <1>6. Removes(t) => /\ q.ops # <<>> /\ Op(t).do \in Serial /\ q.f # 0
    BY <1>1, <1>4 DEF Removes, Does, Op, Calling, Serial
  <1>7. q.pc \in {"report", "insert", "added"} => q.ops # <<>> /\ Op(t).do \in Serial /\ q.n # 0 /\ q.x # 0
    <2>1. FindsIn(q) => Op(t).do \in Serial
      BY <1>1 DEF FindsIn, Calling, Op, Serial
    <2>2. q.pc \in {"report", "insert", "added"} => Owns(t)
      BY <1>1 DEF Owns, Adds
    <2> QED
      BY <1>4, <1>5, <2>1, <2>2
  <1> QED
    BY <1>1, <1>2, <1>5, <1>6, <1>7

LEMMA RemovalRests ==
  ASSUME Typed, Typed', Formed, Held', NEW t \in Threads, NEW u \in Threads, u # t, OthersRest(t),
         Removal(u), \A x \in Exts : Gentle(t, x)
  PROVE  Removal(u)'
  <1> SUFFICES ASSUME Removes(u)'
               PROVE  LET f == ext'[th'[u].f] IN
                      /\ f.life = "live" /\ f.dev = Op(u)'.dev /\ f.closing
                      /\ th'[u].pc # "closing" => ~Listed(th[u].f)' /\ f.holders = 0
                      /\ th'[u].pc \notin {"closing", "free"} => f.shadow = Null
    BY DEF Removal
  <1>1. th'[u] = th[u] /\ Removes(u) /\ Op(u)' = Op(u)
    BY DEF OthersRest, Removes, Does, Op
  <1>2. PICK f \in Exts : f = th[u].f /\ Filter(f) /\ th[u].ops # <<>> /\ Op(u).do \in Serial
    BY <1>1, Working
  <1>3. /\ ext[f].life = "live" /\ ext[f].dev = Op(u).dev /\ ext[f].closing
        /\ th[u].pc # "closing" => ~Listed(f) /\ ext[f].holders = 0
        /\ th[u].pc \notin {"closing", "free"} => ext[f].shadow = Null
    BY <1>1, <1>2 DEF Removal
  <1>4. ~Serially(t, f)
    <2>1. Serially(u, f)
      BY <1>2, <1>3 DEF Serially
    <2> QED
      BY <2>1, Alone
  <1>5. Gentle(t, f) /\ Made(f)
    BY <1>3 DEF Made
  <1>6. ext'[f].dev = ext[f].dev /\ ext'[f].closing
    BY <1>3, <1>5 DEF Gentle, KeepsMake
  <1>7. ext'[f].life = "live"
    BY <1>2, <1>3, <1>4, <1>5 DEF Gentle
  <1>8. ext'[f].holders \in Nat
    BY NextHoldersCount
  <1>9. th[u].pc # "closing" => ~Listed(f)' /\ ext'[f].holders = 0
    BY <1>2, <1>3, <1>4, <1>5, <1>8 DEF Gentle
  <1>10. th[u].pc \notin {"closing", "free"} => ext'[f].shadow = Null
    BY <1>2, <1>3, <1>5 DEF Gentle
  <1> QED
    BY <1>1, <1>2, <1>3, <1>6, <1>7, <1>9, <1>10

LEMMA AdditionRests ==
  ASSUME Typed, Formed, NEW t \in Threads, NEW u \in Threads, u # t, OthersRest(t),
         Addition(u), \A x \in Exts : Gentle(t, x)
  PROVE  Addition(u)'
  <1> SUFFICES ASSUME th'[u].pc \in {"report", "insert", "added"}
               PROVE  LET n == ext'[th'[u].n] IN
                      /\ n.life = "live" /\ n.dev = Op(u)'.dev /\ n.vpdo = th'[u].x
                      /\ th'[u].pc # "added" => ~Listed(th[u].n)'
    BY DEF Addition
  <1>1. th'[u] = th[u] /\ Op(u)' = Op(u)
    BY DEF OthersRest, Op
  <1>2. PICK n \in Exts : n = th[u].n /\ Filter(n) /\ th[u].ops # <<>> /\ Op(u).do \in Serial
    BY <1>1, Working
  <1>3. /\ ext[n].life = "live" /\ ext[n].dev = Op(u).dev /\ ext[n].vpdo = th[u].x
        /\ th[u].pc # "added" => ~Listed(n)
    BY <1>1, <1>2 DEF Addition
  <1>4. ~Serially(t, n)
    <2>1. Serially(u, n)
      BY <1>2, <1>3 DEF Serially
    <2> QED
      BY <2>1, Alone
  <1>5. Gentle(t, n) /\ Made(n)
    BY <1>3 DEF Made
  <1>6. ext'[n].dev = ext[n].dev /\ ext'[n].vpdo = ext[n].vpdo
    BY <1>3, <1>5 DEF Gentle, KeepsMake
  <1>7. ext'[n].life = "live"
    BY <1>2, <1>3, <1>4, <1>5 DEF Gentle
  <1>8. ~Listed(n) => ~Listed(n)'
    BY <1>2, <1>4, <1>5 DEF Gentle
  <1> QED
    BY <1>1, <1>2, <1>3, <1>6, <1>7, <1>8

LEMMA DeletingRests ==
  ASSUME Typed, Formed, NEW t \in Threads, NEW u \in Threads, Deleting(u), \A x \in Exts : Gentle(t, x),
         \/ th'[u].del = 0
         \/ th'[u].phase = "render"
         \/ th'[u].del = th[u].del /\ th[u].phase # "render"
  PROVE  Deleting(u)'
  <1> SUFFICES ASSUME th'[u].del # 0, th'[u].phase # "render"
               PROVE  ~Listed(th[u].del)'
    BY DEF Deleting
  <1>1. th'[u].del = th[u].del /\ th[u].phase # "render"
    OBVIOUS
  <1>2. PICK x \in Exts : x = th[u].del /\ Physical(x)
    BY <1>1, Working
  <1>3. ~Listed(x) /\ Gentle(t, x)
    BY <1>1, <1>2 DEF Deleting
  <1>4. ~Listed(x)'
    BY <1>2, <1>3 DEF Gentle
  <1> QED
    BY <1>1, <1>2, <1>4

\* Only one thread gives the initial reference back.
LEMMA DroppingMoves ==
  ASSUME Typed, Formed, NEW t \in Threads, OthersRest(t), \A u \in Threads : Dropping(u),
         \A x \in Exts : Gentle(t, x),
         Drops(t)' => \/ Drops(t) /\ th'[t].x = th[t].x
                      \/ /\ Owns(t) /\ th'[t].x = th[t].x
                         /\ ~ext[th[t].x].marked /\ ext'[th[t].x].marked
  PROVE  \A u \in Threads : Dropping(u)'
  <1>1. ASSUME NEW u \in Threads, Drops(u)
        PROVE  th[u].x \in Exts /\ ext[th[u].x].marked /\ ext'[th[u].x].marked
    <2>1. PICK x \in Exts : x = th[u].x /\ Physical(x)
      BY <1>1, Working DEF Owns, Drops
    <2>2. ext[x].marked /\ Gentle(t, x)
      BY <1>1, <2>1 DEF Dropping
    <2> QED
      BY <2>1, <2>2 DEF Gentle, Physical
  <1>2. \A u \in Threads \ {t} : th'[u].x = th[u].x /\ (Drops(u)' <=> Drops(u))
    BY DEF OthersRest, Drops
  <1>3. ASSUME NEW u \in Threads, Drops(u)'
        PROVE  ext'[th'[u].x].marked
    BY <1>1, <1>2, <1>3
  <1>4. ASSUME NEW u \in Threads, NEW v \in Threads, Drops(u)', Drops(v)', th'[u].x = th'[v].x
        PROVE  u = v
    <2>1. \A a, b \in Threads : Drops(a) /\ Drops(b) /\ th[a].x = th[b].x => a = b
      BY DEF Dropping
    <2> QED
      BY <1>1, <1>2, <1>4, <2>1
  <1> QED
    BY <1>3, <1>4 DEF Dropping

LEMMA LivingMoves ==
  ASSUME Typed, Typed', Formed, Held', Living, NEW t \in Threads, OthersRest(t),
         \A x \in Exts : Gentle(t, x) /\ (ext'[x].life = "freed" /\ ext[x].life # "freed" => KeepsHolders(x)),
         Order', Removal(t)', Addition(t)', Deleting(t)',
         Drops(t)' => \/ Drops(t) /\ th'[t].x = th[t].x
                      \/ /\ Owns(t) /\ th'[t].x = th[t].x
                         /\ ~ext[th[t].x].marked /\ ext'[th[t].x].marked
  PROVE  Living'
  <1>1. \A x \in Exts : Lasting(x)'
    BY LastingMoves DEF Living, Formed
  <1>2. \A u \in Threads : Removal(u)'
    BY RemovalRests DEF Living
  <1>3. \A u \in Threads : Addition(u)'
    BY AdditionRests DEF Living
  <1>4. \A u \in Threads : Deleting(u)'
    <2>1. ASSUME NEW u \in Threads, u # t
          PROVE  Deleting(u)'
      <3>1. Deleting(u) /\ th'[u] = th[u]
        BY <2>1 DEF Living, OthersRest
      <3>2. \/ th'[u].del = 0 \/ th'[u].phase = "render"
            \/ th'[u].del = th[u].del /\ th[u].phase # "render"
        BY <3>1
      <3> QED
        BY <3>1, <3>2, DeletingRests
    <2> QED
      BY <2>1
  <1>5. \A u \in Threads : Dropping(u)'
    BY DroppingMoves DEF Living
  <1> QED
    BY <1>1, <1>2, <1>3, <1>4, <1>5 DEF Living

\* A thread that removes goes on.
LEMMA RemovalGoes ==
  ASSUME Typed, Formed, Held', NEW t \in Threads, Removal(t),
         Removes(t)' =>
           /\ Removes(t) /\ th'[t].f = th[t].f /\ Op(t)' = Op(t)
           /\ th[t].pc = "closing" => th'[t].pc = "closing"
           /\ th[t].pc = "free" => th'[t].pc = "free",
         \A x \in Exts : Filter(x) =>
           /\ KeepsMake(x) /\ KeepsLife(x) /\ KeepsClosing(x) /\ ext'[x].shadow = ext[x].shadow
           /\ ext'[x].holders <= ext[x].holders
           /\ Listed(x)' => Listed(x)
  PROVE  Removal(t)'
  <1> SUFFICES ASSUME Removes(t)'
               PROVE  LET f == ext'[th'[t].f] IN
                      /\ f.life = "live" /\ f.dev = Op(t)'.dev /\ f.closing
                      /\ th'[t].pc # "closing" => ~Listed(th[t].f)' /\ f.holders = 0
                      /\ th'[t].pc \notin {"closing", "free"} => f.shadow = Null
    BY DEF Removal
  <1>1. PICK f \in Exts : f = th[t].f /\ Filter(f)
    BY Working
  <1>2. /\ ext[f].life = "live" /\ ext[f].dev = Op(t).dev /\ ext[f].closing
        /\ th[t].pc # "closing" => ~Listed(f) /\ ext[f].holders = 0
        /\ th[t].pc \notin {"closing", "free"} => ext[f].shadow = Null
    BY <1>1 DEF Removal
  <1>3. /\ ext'[f].life = "live" /\ ext'[f].dev = Op(t).dev /\ ext'[f].closing
        /\ ext'[f].shadow = ext[f].shadow
        /\ ext'[f].holders <= ext[f].holders /\ (Listed(f)' => Listed(f))
    BY <1>1, <1>2 DEF KeepsMake, KeepsLife, KeepsClosing
  <1>4. ext'[f].holders \in Nat
    BY NextHoldersCount
  <1>5. th'[t].pc # "closing" => ~Listed(f)' /\ ext'[f].holders = 0
    BY <1>2, <1>3, <1>4
  <1> QED
    BY <1>1, <1>2, <1>3, <1>5

LEMMA AdditionGoes ==
  ASSUME Typed, Formed, NEW t \in Threads, Addition(t),
         th'[t].pc \in {"report", "insert", "added"} =>
           /\ th[t].pc \in {"report", "insert", "added"} /\ th'[t].n = th[t].n /\ th'[t].x = th[t].x
           /\ Op(t)' = Op(t)
           /\ th[t].pc = "added" => th'[t].pc = "added",
         \A x \in Exts : Filter(x) =>
           /\ KeepsMake(x) /\ KeepsLife(x)
           /\ Listed(x)' => Listed(x) \/ th'[t].pc = "added"
  PROVE  Addition(t)'
  <1> SUFFICES ASSUME th'[t].pc \in {"report", "insert", "added"}
               PROVE  LET n == ext'[th'[t].n] IN
                      /\ n.life = "live" /\ n.dev = Op(t)'.dev /\ n.vpdo = th'[t].x
                      /\ th'[t].pc # "added" => ~Listed(th[t].n)'
    BY DEF Addition
  <1>1. PICK n \in Exts : n = th[t].n /\ Filter(n)
    BY Working
  <1>2. /\ ext[n].life = "live" /\ ext[n].dev = Op(t).dev /\ ext[n].vpdo = th[t].x
        /\ th[t].pc # "added" => ~Listed(n)
    BY <1>1 DEF Addition
  <1>3. /\ ext'[n].life = "live" /\ ext'[n].dev = Op(t).dev /\ ext'[n].vpdo = th[t].x
        /\ (Listed(n)' => Listed(n) \/ th'[t].pc = "added")
    BY <1>1, <1>2 DEF KeepsMake, KeepsLife
  <1> QED
    BY <1>1, <1>2, <1>3

LEMMA Holder ==
  ASSUME Held, NEW x \in Exts, NEW e \in Holds(x)
  PROVE  ext[x].holders # 0
  <1>1. IsFiniteSet(Holds(x)) /\ Holds(x) # {}
    BY HoldsFinite
  <1> QED
    BY <1>1, FS_EmptySet DEF Held

LEMMA AskedFor ==
  ASSUME Typed, NEW t \in Threads, th[t].pc \notin {"next", "done"}, Does(t, {"query", "pass", "remove", "detach"})
  PROVE  th[t].f \in Exts
  <1>1. PICK q \in ThreadTypes : q = th[t]
    BY DEF Typed, Types
  <1>2. Standing(t, q)
    BY <1>1 DEF Typed, Control
  <1>3. q.f # 0
    BY <1>1, <1>2 DEF Standing, Calling, Does, Op
  <1> QED
    BY <1>1, <1>3, PointersTyped DEF Numbers6

-----------------------------------------------------------------------------
(* Lives: the actions *)

\* Nothing happens to an extension but for its counts.
Calm(x) == /\ KeepsMake(x) /\ KeepsLife(x) /\ KeepsMark(x) /\ KeepsClosing(x)
           /\ ext'[x].shadow = ext[x].shadow /\ ext'[x].holders <= ext[x].holders
           /\ Listed(x)' => Listed(x)

\* A thread goes on with what it does.
Proceeds(t) ==
  /\ Removes(t)' => /\ Removes(t) /\ th'[t].f = th[t].f /\ Op(t)' = Op(t)
                    /\ th[t].pc = "closing" => th'[t].pc = "closing"
                    /\ th[t].pc = "free" => th'[t].pc = "free"
  /\ th'[t].pc \in {"report", "insert", "added"} =>
       /\ th[t].pc \in {"report", "insert", "added"} /\ th'[t].n = th[t].n /\ th'[t].x = th[t].x
       /\ Op(t)' = Op(t)
       /\ th[t].pc = "added" => th'[t].pc = "added"
  /\ Drops(t)' => Drops(t) /\ th'[t].x = th[t].x
  /\ \/ th'[t].del = 0 \/ th'[t].phase = "render"
     \/ th'[t].del = th[t].del /\ th[t].phase # "render"

LEMMA LivingCalm ==
  ASSUME Typed, Typed', Formed, Held', Living, NEW t \in Threads, OthersRest(t),
         \A x \in Exts : Calm(x), list' = list, Proceeds(t)
  PROVE  Living'
  <1>1. ASSUME NEW x \in Exts
        PROVE  Gentle(t, x) /\ (ext'[x].life = "freed" /\ ext[x].life # "freed" => KeepsHolders(x))
    <2>1. KeepsMake(x) /\ KeepsLife(x) /\ KeepsMark(x) /\ (ext[x].closing => ext'[x].closing)
      BY DEF Calm, KeepsClosing
    <2>2. (Listed(x)' => Listed(x)) /\ ext'[x].holders <= ext[x].holders /\ ext'[x].shadow = ext[x].shadow
      BY DEF Calm
    <2>3. Gentle(t, x)
      BY <2>1, <2>2, GentleIf
    <2> QED
      BY <2>1, <2>3 DEF KeepsLife
  <1>2. Order'
    BY OrderMoves DEF Living
  <1>3. Removal(t)'
    BY RemovalGoes DEF Living, Calm, Proceeds
  <1>4. Addition(t)'
    BY AdditionGoes DEF Living, Calm, Proceeds
  <1>5. Deleting(t)'
    BY <1>1, DeletingRests DEF Living, Proceeds
  <1> QED
    BY <1>1, <1>2, <1>3, <1>4, <1>5, LivingMoves DEF Proceeds

LEMMA LivingDropInitialReference ==
  ASSUME Typed, Typed', Formed, Held, Held', Living, NEW t \in Threads, OthersRest(t), DropInitialReference(t)
  PROVE  Living'
  <1>1. list' = list
    BY EffectDropInitialReference
  <1>2. ASSUME NEW x \in Exts
        PROVE  Calm(x)
    <2>1. ext[x].holders \in Int /\ (Listed(x)' <=> Listed(x))
      BY <1>1, Holding DEF Listed
    <2> QED
      BY <2>1, EffectDropInitialReference DEF Calm, KeepsMake, KeepsLife, KeepsMark, KeepsRelations, KeepsCounts, KeepsHolders, KeepsClosing
  <1>3. Proceeds(t)
    BY EffectDropInitialReference, Holding DEF Proceeds, Removes, Drops, Does, Op, KeepsUse, KeepsDel, KeepsOp, Rets
  <1> QED
    BY <1>1, <1>2, <1>3, LivingCalm

LEMMA LivingDereferenceVirtualPdo ==
  ASSUME Typed, Typed', Formed, Held, Held', Living, NEW t \in Threads, OthersRest(t), DereferenceVirtualPdo(t)
  PROVE  Living'
  <1>1. list' = list
    BY EffectDereferenceVirtualPdo
  <1>2. ASSUME NEW x \in Exts
        PROVE  Calm(x)
    <2>1. ext[x].holders \in Int /\ (Listed(x)' <=> Listed(x))
      BY <1>1, Holding DEF Listed
    <2> QED
      BY <2>1, EffectDereferenceVirtualPdo DEF Calm, KeepsMake, KeepsLife, KeepsMark, KeepsRelations, KeepsCounts, KeepsHolders, KeepsClosing
  <1>3. Proceeds(t)
    BY EffectDereferenceVirtualPdo, Holding DEF Proceeds, Removes, Drops, Does, Op, KeepsUse, KeepsDel, KeepsOp, Rets
  <1> QED
    BY <1>1, <1>2, <1>3, LivingCalm

LEMMA LivingDone ==
  ASSUME Typed, Typed', Formed, Held, Held', Living, NEW t \in Threads, OthersRest(t), Done(t)
  PROVE  Living'
  <1>1. list' = list
    BY EffectDone
  <1>2. ASSUME NEW x \in Exts
        PROVE  Calm(x)
    <2>1. ext[x].holders \in Int /\ (Listed(x)' <=> Listed(x))
      BY <1>1, Holding DEF Listed
    <2>2. ext' = ext
      BY EffectDone
    <2> QED
      BY <2>1, <2>2, Still DEF Calm, KeepsRelations, KeepsHolders
  <1>3. Proceeds(t)
    BY EffectDone, Holding DEF Proceeds, Removes, Drops, Does, Op, KeepsUse, KeepsDel, KeepsOp, Rets
  <1> QED
    BY <1>1, <1>2, <1>3, LivingCalm

LEMMA LivingProcessNewRelations ==
  ASSUME Typed, Typed', Formed, Held, Held', Living, NEW t \in Threads, OthersRest(t), ProcessNewRelations(t)
  PROVE  Living'
  <1>1. list' = list
    BY EffectProcessNewRelations
  <1>2. ASSUME NEW x \in Exts
        PROVE  Calm(x)
    <2>1. ext[x].holders \in Int /\ (Listed(x)' <=> Listed(x))
      BY <1>1, Holding DEF Listed
    <2> QED
      BY <2>1, EffectProcessNewRelations DEF Calm, KeepsMake, KeepsLife, KeepsMark, KeepsRelations, KeepsCounts, KeepsHolders, KeepsClosing
  <1>3. Proceeds(t)
    BY EffectProcessNewRelations, Holding DEF Proceeds, Removes, Drops, Does, Op, KeepsUse, KeepsDel, KeepsOp, Rets
  <1> QED
    BY <1>1, <1>2, <1>3, LivingCalm

LEMMA LivingReleaseOldRelations ==
  ASSUME Typed, Typed', Formed, Held, Held', Living, NEW t \in Threads, OthersRest(t), ReleaseOldRelations(t)
  PROVE  Living'
  <1>1. list' = list
    BY EffectReleaseOldRelations
  <1>2. ASSUME NEW x \in Exts
        PROVE  Calm(x)
    <2>1. ext[x].holders \in Int /\ (Listed(x)' <=> Listed(x))
      BY <1>1, Holding DEF Listed
    <2> QED
      BY <2>1, EffectReleaseOldRelations DEF Calm, KeepsMake, KeepsLife, KeepsMark, KeepsRelations, KeepsCounts, KeepsHolders, KeepsClosing
  <1>3. Proceeds(t)
    BY EffectReleaseOldRelations, Holding DEF Proceeds, Removes, Drops, Does, Op, KeepsUse, KeepsDel, KeepsOp, Rets
  <1> QED
    BY <1>1, <1>2, <1>3, LivingCalm

LEMMA LivingReleaseOne ==
  ASSUME Typed, Typed', Formed, Held, Held', Living, NEW t \in Threads, OthersRest(t), ReleaseOne(t)
  PROVE  Living'
  <1>1. list' = list
    BY EffectReleaseOne
  <1>2. ASSUME NEW x \in Exts
        PROVE  Calm(x)
    <2>1. ext[x].holders \in Int /\ (Listed(x)' <=> Listed(x))
      BY <1>1, Holding DEF Listed
    <2> QED
      BY <2>1, EffectReleaseOne DEF Calm, KeepsMake, KeepsLife, KeepsMark, KeepsRelations, KeepsCounts, KeepsHolders, KeepsClosing
  <1>3. Proceeds(t)
    BY EffectReleaseOne, Holding DEF Proceeds, Removes, Drops, Does, Op, KeepsUse, KeepsDel, KeepsOp, Rets
  <1> QED
    BY <1>1, <1>2, <1>3, LivingCalm

LEMMA LivingReleasedAll ==
  ASSUME Typed, Typed', Formed, Held, Held', Living, NEW t \in Threads, OthersRest(t), ReleasedAll(t)
  PROVE  Living'
  <1>1. list' = list
    BY EffectReleasedAll
  <1>2. ASSUME NEW x \in Exts
        PROVE  Calm(x)
    <2>1. ext[x].holders \in Int /\ (Listed(x)' <=> Listed(x))
      BY <1>1, Holding DEF Listed
    <2>2. ext' = ext
      BY EffectReleasedAll
    <2> QED
      BY <2>1, <2>2, Still DEF Calm, KeepsRelations, KeepsHolders
  <1>3. Proceeds(t)
    BY EffectReleasedAll, Holding DEF Proceeds, Removes, Drops, Does, Op, KeepsUse, KeepsDel, KeepsOp, Rets
  <1> QED
    BY <1>1, <1>2, <1>3, LivingCalm

LEMMA LivingFilterPass ==
  ASSUME Typed, Typed', Formed, Held, Held', Living, NEW t \in Threads, OthersRest(t), FilterPass(t)
  PROVE  Living'
  <1>1. list' = list
    BY EffectFilterPass
  <1>2. ASSUME NEW x \in Exts
        PROVE  Calm(x)
    <2>1. ext[x].holders \in Int /\ (Listed(x)' <=> Listed(x))
      BY <1>1, Holding DEF Listed
    <2> QED
      BY <2>1, EffectFilterPass DEF Calm, KeepsMake, KeepsLife, KeepsMark, KeepsRelations, KeepsCounts, KeepsHolders, KeepsClosing
  <1>3. Proceeds(t)
    BY EffectFilterPass, Holding DEF Proceeds, Removes, Drops, Does, Op, KeepsUse, KeepsDel, KeepsOp, Rets
  <1> QED
    BY <1>1, <1>2, <1>3, LivingCalm

LEMMA LivingQueryCompleted ==
  ASSUME Typed, Typed', Formed, Held, Held', Living, NEW t \in Threads, OthersRest(t), QueryCompleted(t)
  PROVE  Living'
  <1>1. list' = list
    BY EffectQueryCompleted
  <1>2. ASSUME NEW x \in Exts
        PROVE  Calm(x)
    <2>1. ext[x].holders \in Int /\ (Listed(x)' <=> Listed(x))
      BY <1>1, Holding DEF Listed
    <2> QED
      BY <2>1, EffectQueryCompleted DEF Calm, KeepsMake, KeepsLife, KeepsMark, KeepsRelations, KeepsCounts, KeepsHolders, KeepsClosing
  <1>3. Proceeds(t)
    BY EffectQueryCompleted, Holding DEF Proceeds, Removes, Drops, Does, Op, KeepsUse, KeepsDel, KeepsOp, Rets
  <1> QED
    BY <1>1, <1>2, <1>3, LivingCalm

LEMMA LivingStarted ==
  ASSUME Typed, Typed', Formed, Held, Held', Living, NEW t \in Threads, OthersRest(t), Started(t)
  PROVE  Living'
  <1>1. list' = list
    BY EffectStarted
  <1>2. ASSUME NEW x \in Exts
        PROVE  Calm(x)
    <2>1. ext[x].holders \in Int /\ (Listed(x)' <=> Listed(x))
      BY <1>1, Holding DEF Listed
    <2> QED
      BY <2>1, EffectStarted DEF Calm, KeepsMake, KeepsLife, KeepsMark, KeepsRelations, KeepsCounts, KeepsHolders, KeepsClosing
  <1>3. Proceeds(t)
    BY EffectStarted, Holding DEF Proceeds, Removes, Drops, Does, Op, KeepsUse, KeepsDel, KeepsOp, Rets
  <1> QED
    BY <1>1, <1>2, <1>3, LivingCalm

LEMMA LivingSetPdoState ==
  ASSUME Typed, Typed', Formed, Held, Held', Living, NEW t \in Threads, OthersRest(t), SetPdoState(t)
  PROVE  Living'
  <1>1. list' = list
    BY EffectSetPdoState
  <1>2. ASSUME NEW x \in Exts
        PROVE  Calm(x)
    <2>1. ext[x].holders \in Int /\ (Listed(x)' <=> Listed(x))
      BY <1>1, Holding DEF Listed
    <2> QED
      BY <2>1, EffectSetPdoState DEF Calm, KeepsMake, KeepsLife, KeepsMark, KeepsRelations, KeepsCounts, KeepsHolders, KeepsClosing
  <1>3. Proceeds(t)
    BY EffectSetPdoState, Holding DEF Proceeds, Removes, Drops, Does, Op, KeepsUse, KeepsDel, KeepsOp, Rets
  <1> QED
    BY <1>1, <1>2, <1>3, LivingCalm

LEMMA LivingCallOriginal ==
  ASSUME Typed, Typed', Formed, Held, Held', Living, NEW t \in Threads, OthersRest(t), CallOriginal(t)
  PROVE  Living'
  <1>1. list' = list
    BY EffectCallOriginal
  <1>2. ASSUME NEW x \in Exts
        PROVE  Calm(x)
    <2>1. ext[x].holders \in Int /\ (Listed(x)' <=> Listed(x))
      BY <1>1, Holding DEF Listed
    <2> QED
      BY <2>1, EffectCallOriginal DEF Calm, KeepsMake, KeepsLife, KeepsMark, KeepsRelations, KeepsCounts, KeepsHolders, KeepsClosing
  <1>3. Proceeds(t)
    BY EffectCallOriginal, Holding DEF Proceeds, Removes, Drops, Does, Op, KeepsUse, KeepsDel, KeepsOp, Rets
  <1> QED
    BY <1>1, <1>2, <1>3, LivingCalm

LEMMA LivingDriverUnloadHook ==
  ASSUME Typed, Typed', Formed, Held, Held', Living, NEW t \in Threads, OthersRest(t), DriverUnloadHook(t)
  PROVE  Living'
  <1>1. list' = list
    BY EffectDriverUnloadHook
  <1>2. ASSUME NEW x \in Exts
        PROVE  Calm(x)
    <2>1. ext[x].holders \in Int /\ (Listed(x)' <=> Listed(x))
      BY <1>1, Holding DEF Listed
    <2>2. ext' = ext
      BY EffectDriverUnloadHook
    <2> QED
      BY <2>1, <2>2, Still DEF Calm, KeepsRelations, KeepsHolders
  <1>3. Proceeds(t)
    BY EffectDriverUnloadHook, Holding DEF Proceeds, Removes, Drops, Does, Op, KeepsUse, KeepsDel, KeepsOp, Rets
  <1> QED
    BY <1>1, <1>2, <1>3, LivingCalm

LEMMA LivingAddDevice ==
  ASSUME Typed, Typed', Formed, Held, Held', Living, NEW t \in Threads, OthersRest(t), AddDevice(t)
  PROVE  Living'
  <1>1. list' = list
    BY EffectAddDevice
  <1>2. ASSUME NEW x \in Exts
        PROVE  Calm(x)
    <2>1. ext[x].holders \in Int /\ (Listed(x)' <=> Listed(x))
      BY <1>1, Holding DEF Listed
    <2>2. ext' = ext
      BY EffectAddDevice
    <2> QED
      BY <2>1, <2>2, Still DEF Calm, KeepsRelations, KeepsHolders
  <1>3. Proceeds(t)
    BY EffectAddDevice, Holding DEF Proceeds, Removes, Drops, Does, Op, KeepsUse, KeepsDel, KeepsOp, Rets
  <1> QED
    BY <1>1, <1>2, <1>3, LivingCalm

LEMMA LivingAddFails ==
  ASSUME Typed, Typed', Formed, Held, Held', Living, NEW t \in Threads, OthersRest(t), AddFails(t)
  PROVE  Living'
  <1>1. list' = list
    BY EffectAddFails
  <1>2. ASSUME NEW x \in Exts
        PROVE  Calm(x)
    <2>1. ext[x].holders \in Int /\ (Listed(x)' <=> Listed(x))
      BY <1>1, Holding DEF Listed
    <2> QED
      BY <2>1, EffectAddFails DEF Calm, KeepsMake, KeepsLife, KeepsMark, KeepsRelations, KeepsCounts, KeepsHolders, KeepsClosing
  <1>3. Proceeds(t)
    BY EffectAddFails, Holding DEF Proceeds, Removes, Drops, Does, Op, KeepsUse, KeepsDel, KeepsOp, Rets
  <1> QED
    BY <1>1, <1>2, <1>3, LivingCalm

LEMMA LivingReportAddedDevice ==
  ASSUME Typed, Typed', Formed, Held, Held', Living, NEW t \in Threads, OthersRest(t), ReportAddedDevice(t)
  PROVE  Living'
  <1>1. list' = list
    BY EffectReportAddedDevice
  <1>2. ASSUME NEW x \in Exts
        PROVE  Calm(x)
    <2>1. ext[x].holders \in Int /\ (Listed(x)' <=> Listed(x))
      BY <1>1, Holding DEF Listed
    <2>2. ext' = ext
      BY EffectReportAddedDevice
    <2> QED
      BY <2>1, <2>2, Still DEF Calm, KeepsRelations, KeepsHolders
  <1>3. Proceeds(t)
    BY EffectReportAddedDevice, Holding DEF Proceeds, Removes, Drops, Does, Op, KeepsUse, KeepsDel, KeepsOp, Rets
  <1> QED
    BY <1>1, <1>2, <1>3, LivingCalm

LEMMA LivingAddedDevice ==
  ASSUME Typed, Typed', Formed, Held, Held', Living, NEW t \in Threads, OthersRest(t), AddedDevice(t)
  PROVE  Living'
  <1>1. list' = list
    BY EffectAddedDevice
  <1>2. ASSUME NEW x \in Exts
        PROVE  Calm(x)
    <2>1. ext[x].holders \in Int /\ (Listed(x)' <=> Listed(x))
      BY <1>1, Holding DEF Listed
    <2> QED
      BY <2>1, EffectAddedDevice DEF Calm, KeepsMake, KeepsLife, KeepsMark, KeepsRelations, KeepsCounts, KeepsHolders, KeepsClosing
  <1>3. Proceeds(t)
    BY EffectAddedDevice, Holding DEF Proceeds, Removes, Drops, Does, Op, KeepsUse, KeepsDel, KeepsOp, Rets
  <1> QED
    BY <1>1, <1>2, <1>3, LivingCalm

LEMMA LivingReportExisitingDevices ==
  ASSUME Typed, Typed', Formed, Held, Held', Living, NEW t \in Threads, OthersRest(t), ReportExisitingDevices(t)
  PROVE  Living'
  <1>1. list' = list
    BY EffectReportExisitingDevices
  <1>2. ASSUME NEW x \in Exts
        PROVE  Calm(x)
    <2>1. ext[x].holders \in Int /\ (Listed(x)' <=> Listed(x))
      BY <1>1, Holding DEF Listed
    <2>2. ext' = ext
      BY EffectReportExisitingDevices
    <2> QED
      BY <2>1, <2>2, Still DEF Calm, KeepsRelations, KeepsHolders
  <1>3. Proceeds(t)
    BY EffectReportExisitingDevices, Holding DEF Proceeds, Removes, Drops, Does, Op, KeepsUse, KeepsDel, KeepsOp, Rets
  <1> QED
    BY <1>1, <1>2, <1>3, LivingCalm

LEMMA LivingReportExistingDevice ==
  ASSUME Typed, Typed', Formed, Held, Held', Living, NEW t \in Threads, OthersRest(t), ReportExistingDevice(t)
  PROVE  Living'
  <1>1. list' = list
    BY EffectReportExistingDevice
  <1>2. ASSUME NEW x \in Exts
        PROVE  Calm(x)
    <2>1. ext[x].holders \in Int /\ (Listed(x)' <=> Listed(x))
      BY <1>1, Holding DEF Listed
    <2>2. ext' = ext
      BY EffectReportExistingDevice
    <2> QED
      BY <2>1, <2>2, Still DEF Calm, KeepsRelations, KeepsHolders
  <1>3. Proceeds(t)
    BY EffectReportExistingDevice, Holding DEF Proceeds, Removes, Drops, Does, Op, KeepsUse, KeepsDel, KeepsOp, Rets
  <1> QED
    BY <1>1, <1>2, <1>3, LivingCalm

LEMMA LivingReadState ==
  ASSUME Typed, Typed', Formed, Held, Held', Living, NEW t \in Threads, OthersRest(t), ReadState(t)
  PROVE  Living'
  <1>1. list' = list
    BY EffectReadState
  <1>2. ASSUME NEW x \in Exts
        PROVE  Calm(x)
    <2>1. ext[x].holders \in Int /\ (Listed(x)' <=> Listed(x))
      BY <1>1, Holding DEF Listed
    <2>2. ext' = ext
      BY EffectReadState
    <2> QED
      BY <2>1, <2>2, Still DEF Calm, KeepsRelations, KeepsHolders
  <1>3. Proceeds(t)
    BY EffectReadState, Holding DEF Proceeds, Removes, Drops, Does, Op, KeepsUse, KeepsDel, KeepsOp, Rets
  <1> QED
    BY <1>1, <1>2, <1>3, LivingCalm

LEMMA LivingReportExistingState ==
  ASSUME Typed, Typed', Formed, Held, Held', Living, NEW t \in Threads, OthersRest(t), ReportExistingState(t)
  PROVE  Living'
  <1>1. list' = list
    BY EffectReportExistingState
  <1>2. ASSUME NEW x \in Exts
        PROVE  Calm(x)
    <2>1. ext[x].holders \in Int /\ (Listed(x)' <=> Listed(x))
      BY <1>1, Holding DEF Listed
    <2>2. ext' = ext
      BY EffectReportExistingState
    <2> QED
      BY <2>1, <2>2, Still DEF Calm, KeepsRelations, KeepsHolders
  <1>3. Proceeds(t)
    BY EffectReportExistingState, Holding DEF Proceeds, Removes, Drops, Does, Op, KeepsUse, KeepsDel, KeepsOp, Rets
  <1> QED
    BY <1>1, <1>2, <1>3, LivingCalm

-----------------------------------------------------------------------------
(* Lives: what marks, locks, frees or lists an extension *)

LEMMA LivingRender ==
  ASSUME Typed, Typed', Formed, Held, Held', Living, NEW t \in Threads, OthersRest(t), Render(t)
  PROVE  Living'
  <1>0. PICK y \in Exts : y = th[t].del /\ Physical(y)
    BY EffectRender, Working
  <1>1. /\ th'[t].pc = th[t].pc /\ th'[t].ret = th[t].ret /\ KeepsUse(t) /\ KeepsOp(t)
        /\ th'[t].del = th[t].del
        /\ \A x \in Exts : /\ KeepsMake(x) /\ KeepsLife(x) /\ KeepsRelations(x) /\ KeepsHolders(x) /\ KeepsClosing(x)
                           /\ ext'[x].marked = (IF x = y THEN TRUE ELSE ext[x].marked)
                           /\ ext[x].holders \in Int
                           /\ (Listed(x)' => Listed(x)) /\ (x = y => ~Listed(x)')
        /\ list' = Without(y)
    <2>1. list' = Without(y)
      BY <1>0, EffectRender
    <2>2. \A x \in Exts : (Listed(x)' => Listed(x)) /\ (x = y => ~Listed(x)')
      BY <2>1, ListedMoves DEF Living
    <2> QED
      BY <1>0, <2>1, <2>2, EffectRender, Holding
  <1>2. ASSUME NEW x \in Exts
        PROVE  Gentle(t, x) /\ (ext'[x].life = "freed" /\ ext[x].life # "freed" => KeepsHolders(x))
    <2>1. /\ KeepsMake(x) /\ KeepsLife(x) /\ KeepsRelations(x) /\ KeepsHolders(x) /\ KeepsClosing(x)
          /\ ext[x].holders \in Int /\ (Listed(x)' => Listed(x)) /\ (x = y => ~Listed(x)')
      BY <1>1
    <2>2. CASE x # y
      <3>1. KeepsMark(x)
        BY <1>1, <2>2 DEF KeepsMark
      <3> QED
        BY <2>1, <3>1, GentleIf DEF KeepsLife, KeepsRelations, KeepsHolders, KeepsClosing
    <2>3. CASE x = y
      <3>1. ext'[x].marked /\ ~Listed(x)'
        BY <1>1, <2>3
      <3> QED
        BY <2>1, <3>1 DEF Gentle, KeepsLife, KeepsRelations, KeepsHolders, KeepsClosing
    <2> QED
      BY <2>2, <2>3
  <1>3. Order'
    BY <1>1, OrderMoves DEF Living
  <1>4. Removal(t)'
    <2>1. Removes(t)' =>
            /\ Removes(t) /\ th'[t].f = th[t].f /\ Op(t)' = Op(t)
            /\ th[t].pc = "closing" => th'[t].pc = "closing"
            /\ th[t].pc = "free" => th'[t].pc = "free"
      BY <1>1 DEF Removes, Does, KeepsUse, KeepsDel, KeepsOp, Op
    <2>2. ASSUME NEW x \in Exts, Filter(x)
          PROVE  /\ KeepsMake(x) /\ KeepsLife(x) /\ KeepsClosing(x) /\ ext'[x].shadow = ext[x].shadow
                 /\ ext'[x].holders <= ext[x].holders
                 /\ Listed(x)' => Listed(x)
      <3>1. ext[x].holders \in Int /\ ext'[x].holders = ext[x].holders
        BY <1>1 DEF KeepsHolders
      <3>2. ext'[x].holders <= ext[x].holders
        BY <3>1
      <3>3. KeepsMake(x) /\ KeepsLife(x) /\ KeepsClosing(x) /\ KeepsRelations(x) /\ (Listed(x)' => Listed(x))
        BY <1>1, <2>2, Zenon
      <3> QED
        BY <3>2, <3>3 DEF KeepsRelations
    <2> QED
      BY <2>1, <2>2, RemovalGoes DEF Living
  <1>5. Addition(t)'
    <2>1. th'[t].pc \in {"report", "insert", "added"} =>
            /\ th[t].pc \in {"report", "insert", "added"} /\ th'[t].n = th[t].n /\ th'[t].x = th[t].x
            /\ Op(t)' = Op(t)
            /\ th[t].pc = "added" => th'[t].pc = "added"
      BY <1>1 DEF KeepsUse, KeepsDel, KeepsOp, Op
    <2>2. \A x \in Exts : Filter(x) => KeepsMake(x) /\ KeepsLife(x) /\ (Listed(x)' => Listed(x) \/ th'[t].pc = "added")
      BY <1>1
    <2> QED
      BY <2>1, <2>2, AdditionGoes DEF Living
  <1>6. Deleting(t)'
    BY <1>0, <1>1 DEF Deleting
  <1>7. Drops(t)' => \/ Drops(t) /\ th'[t].x = th[t].x
                     \/ /\ Owns(t) /\ th'[t].x = th[t].x
                        /\ ~ext[th[t].x].marked /\ ext'[th[t].x].marked
    BY <1>1 DEF Drops, KeepsUse
  <1> QED
    BY <1>2, <1>3, <1>4, <1>5, <1>6, <1>7, LivingMoves

LEMMA LivingCloseVirtualPdo ==
  ASSUME Typed, Typed', Formed, Held, Held', Living, NEW t \in Threads, OthersRest(t), CloseVirtualPdo(t)
  PROVE  Living'
  <1>0. PICK y \in Exts : y = th[t].del /\ Physical(y)
    BY EffectCloseVirtualPdo, Working
  <1>1. /\ th'[t].pc = th[t].pc /\ th'[t].ret = th[t].ret /\ KeepsUse(t) /\ KeepsOp(t)
        /\ th'[t].del = th[t].del /\ th[t].phase = "close"
        /\ \A x \in Exts : /\ KeepsMake(x) /\ KeepsLife(x) /\ KeepsRelations(x) /\ KeepsHolders(x) /\ KeepsMark(x)
                           /\ ext'[x].closing = (IF x = y THEN TRUE ELSE ext[x].closing)
                           /\ ext[x].holders \in Int
                           /\ (Listed(x)' <=> Listed(x)) /\ (Filter(x) => KeepsClosing(x))
        /\ list' = list
    <2>1. list' = list /\ \A x \in Exts : ext'[x].closing = (IF x = y THEN TRUE ELSE ext[x].closing)
      BY <1>0, EffectCloseVirtualPdo
    <2>2. \A x \in Exts : (Listed(x)' <=> Listed(x)) /\ (Filter(x) => KeepsClosing(x))
      BY <1>0, <2>1 DEF Listed, Filter, Physical, KeepsClosing
    <2> QED
      BY <1>0, <2>1, <2>2, EffectCloseVirtualPdo, Holding
  <1>2. ASSUME NEW x \in Exts
        PROVE  Gentle(t, x) /\ (ext'[x].life = "freed" /\ ext[x].life # "freed" => KeepsHolders(x))
    <2>1. /\ KeepsMake(x) /\ KeepsLife(x) /\ KeepsMark(x) /\ KeepsHolders(x)
          /\ ext[x].holders \in Int /\ (Listed(x)' <=> Listed(x)) /\ (ext[x].closing => ext'[x].closing)
          /\ ext'[x].shadow = ext[x].shadow \/ ext'[x].shadow = Null \/ ext[x].holders # 0
      BY <1>1 DEF Listed, KeepsRelations, KeepsClosing
    <2> QED
      BY <2>1, GentleIf DEF KeepsLife, KeepsHolders
  <1>3. Order'
    BY <1>1, OrderMoves DEF Living
  <1>4. Removal(t)'
    <2>1. Removes(t)' =>
            /\ Removes(t) /\ th'[t].f = th[t].f /\ Op(t)' = Op(t)
            /\ th[t].pc = "closing" => th'[t].pc = "closing"
            /\ th[t].pc = "free" => th'[t].pc = "free"
      BY <1>1 DEF Removes, Does, KeepsUse, KeepsDel, KeepsOp, Op
    <2>2. ASSUME NEW x \in Exts, Filter(x)
          PROVE  /\ KeepsMake(x) /\ KeepsLife(x) /\ KeepsClosing(x) /\ ext'[x].shadow = ext[x].shadow
                 /\ ext'[x].holders <= ext[x].holders
                 /\ Listed(x)' => Listed(x)
      <3>1. ext[x].holders \in Int /\ ext'[x].holders = ext[x].holders
        BY <1>1 DEF KeepsHolders
      <3>2. ext'[x].holders <= ext[x].holders
        BY <3>1
      <3>3. KeepsMake(x) /\ KeepsLife(x) /\ KeepsClosing(x) /\ KeepsRelations(x) /\ (Listed(x)' => Listed(x))
        BY <1>1, <2>2, Zenon
      <3> QED
        BY <3>2, <3>3 DEF KeepsRelations
    <2> QED
      BY <2>1, <2>2, RemovalGoes DEF Living
  <1>5. Addition(t)'
    <2>1. th'[t].pc \in {"report", "insert", "added"} =>
            /\ th[t].pc \in {"report", "insert", "added"} /\ th'[t].n = th[t].n /\ th'[t].x = th[t].x
            /\ Op(t)' = Op(t)
            /\ th[t].pc = "added" => th'[t].pc = "added"
      BY <1>1 DEF KeepsUse, KeepsDel, KeepsOp, Op
    <2>2. \A x \in Exts : Filter(x) => KeepsMake(x) /\ KeepsLife(x) /\ (Listed(x)' => Listed(x) \/ th'[t].pc = "added")
      BY <1>1
    <2> QED
      BY <2>1, <2>2, AdditionGoes DEF Living
  <1>6. Deleting(t)'
    BY <1>1, <1>2, DeletingRests DEF Living, KeepsDel
  <1>7. Drops(t)' => \/ Drops(t) /\ th'[t].x = th[t].x
                     \/ /\ Owns(t) /\ th'[t].x = th[t].x
                        /\ ~ext[th[t].x].marked /\ ext'[th[t].x].marked
    BY <1>1 DEF Drops, KeepsUse
  <1> QED
    BY <1>2, <1>3, <1>4, <1>5, <1>6, <1>7, LivingMoves

LEMMA LivingDeleteVirtualPdoByExtensionInternal ==
  ASSUME Typed, Typed', Formed, Held, Held', Living, NEW t \in Threads, OthersRest(t), DeleteVirtualPdoByExtensionInternal(t)
  PROVE  Living'
  <1>0. PICK y \in Exts : y = th[t].del /\ Physical(y) /\ ~Listed(y)
    BY EffectDeleteVirtualPdoByExtensionInternal, Working DEF Living, Deleting
  <1>1. /\ th'[t].pc = th[t].pc /\ th'[t].ret = th[t].ret /\ KeepsUse(t) /\ KeepsOp(t)
        /\ th'[t].del = 0 /\ ext[y].holders = 0
        /\ \A x \in Exts : /\ KeepsMake(x) /\ KeepsClosing(x) /\ KeepsRelations(x) /\ KeepsHolders(x) /\ KeepsMark(x)
                           /\ ext'[x].life = (IF x = y THEN "freed" ELSE ext[x].life)
                           /\ ext[x].holders \in Int
                           /\ (Listed(x)' <=> Listed(x)) /\ (Filter(x) => KeepsLife(x))
        /\ list' = list
    <2>1. list' = list /\ \A x \in Exts : ext'[x].life = (IF x = y THEN "freed" ELSE ext[x].life)
      BY <1>0, EffectDeleteVirtualPdoByExtensionInternal
    <2>2. \A x \in Exts : (Listed(x)' <=> Listed(x)) /\ (Filter(x) => KeepsLife(x))
      BY <1>0, <2>1 DEF Listed, Filter, Physical, KeepsLife
    <2> QED
      BY <1>0, <2>1, <2>2, EffectDeleteVirtualPdoByExtensionInternal, Holding
  <1>2. ASSUME NEW x \in Exts
        PROVE  Gentle(t, x) /\ (ext'[x].life = "freed" /\ ext[x].life # "freed" => KeepsHolders(x))
    <2>1. CASE x # y
      BY <1>1, <2>1, GentleIf DEF KeepsMake, KeepsLife, KeepsMark, KeepsRelations, KeepsHolders, KeepsClosing
    <2>2. CASE x = y
      <3>1. ext[x].life \in {"live", "freed"}
        <4>1. ext[x] \in ExtTypes
          BY DEF Typed, Types
        <4>2. ext[x].life \in {"none", "live", "freed"}
          BY <4>1 DEF ExtTypes
        <4> QED
          BY <1>0, <2>2, <4>2 DEF Physical, Made
      <3>2. ~Filter(x) /\ ~Listed(x)'
        BY <1>0, <1>1, <2>2 DEF Physical, Filter
      <3> QED
        BY <1>1, <2>2, <3>1, <3>2 DEF Gentle, KeepsMake, KeepsLife, KeepsMark, KeepsRelations, KeepsHolders, KeepsClosing
    <2> QED
      BY <1>1, <2>1, <2>2
  <1>3. Order'
    BY <1>1, OrderMoves DEF Living
  <1>4. Removal(t)'
    <2>1. Removes(t)' =>
            /\ Removes(t) /\ th'[t].f = th[t].f /\ Op(t)' = Op(t)
            /\ th[t].pc = "closing" => th'[t].pc = "closing"
            /\ th[t].pc = "free" => th'[t].pc = "free"
      BY <1>1 DEF Removes, Does, KeepsUse, KeepsDel, KeepsOp, Op
    <2>2. ASSUME NEW x \in Exts, Filter(x)
          PROVE  /\ KeepsMake(x) /\ KeepsLife(x) /\ KeepsClosing(x) /\ ext'[x].shadow = ext[x].shadow
                 /\ ext'[x].holders <= ext[x].holders
                 /\ Listed(x)' => Listed(x)
      <3>1. ext[x].holders \in Int /\ ext'[x].holders = ext[x].holders
        BY <1>1 DEF KeepsHolders
      <3>2. ext'[x].holders <= ext[x].holders
        BY <3>1
      <3>3. KeepsMake(x) /\ KeepsLife(x) /\ KeepsClosing(x) /\ KeepsRelations(x) /\ (Listed(x)' => Listed(x))
        BY <1>1, <2>2, Zenon
      <3> QED
        BY <3>2, <3>3 DEF KeepsRelations
    <2> QED
      BY <2>1, <2>2, RemovalGoes DEF Living
  <1>5. Addition(t)'
    <2>1. th'[t].pc \in {"report", "insert", "added"} =>
            /\ th[t].pc \in {"report", "insert", "added"} /\ th'[t].n = th[t].n /\ th'[t].x = th[t].x
            /\ Op(t)' = Op(t)
            /\ th[t].pc = "added" => th'[t].pc = "added"
      BY <1>1 DEF KeepsUse, KeepsDel, KeepsOp, Op
    <2>2. \A x \in Exts : Filter(x) => KeepsMake(x) /\ KeepsLife(x) /\ (Listed(x)' => Listed(x) \/ th'[t].pc = "added")
      BY <1>1
    <2> QED
      BY <2>1, <2>2, AdditionGoes DEF Living
  <1>6. Deleting(t)'
    BY <1>1, <1>2, DeletingRests DEF Living, KeepsDel
  <1>7. Drops(t)' => \/ Drops(t) /\ th'[t].x = th[t].x
                     \/ /\ Owns(t) /\ th'[t].x = th[t].x
                        /\ ~ext[th[t].x].marked /\ ext'[th[t].x].marked
    BY <1>1 DEF Drops, KeepsUse
  <1> QED
    BY <1>2, <1>3, <1>4, <1>5, <1>6, <1>7, LivingMoves

LEMMA LivingDeleteVirtualPdoByExtension ==
  ASSUME Typed, Typed', Formed, Held, Held', Living, NEW t \in Threads, OthersRest(t), DeleteVirtualPdoByExtension(t)
  PROVE  Living'
  <1>0. PICK y \in Exts : y = th[t].x /\ Physical(y)
    BY EffectDeleteVirtualPdoByExtension, Working DEF Owns
  <1>1. /\ th[t].pc = "delete" /\ th'[t].pc \in {"deref", "drop"} /\ (ext[y].marked => th'[t].pc = "deref")
        /\ th'[t].ret = th[t].ret /\ KeepsUse(t) /\ KeepsOp(t) /\ th[t].del = 0 /\ KeepsDel(t)
        /\ \A x \in Exts : /\ KeepsMake(x) /\ KeepsLife(x) /\ KeepsRelations(x) /\ KeepsHolders(x) /\ KeepsClosing(x)
                           /\ ext'[x].marked = (IF x = y THEN TRUE ELSE ext[x].marked)
                           /\ ext[x].holders \in Int
                           /\ (Listed(x)' => Listed(x)) /\ (x = y => ~Listed(x)')
        /\ list' = Without(y)
    <2>1. list' = Without(y)
      BY <1>0, EffectDeleteVirtualPdoByExtension
    <2>2. \A x \in Exts : (Listed(x)' => Listed(x)) /\ (x = y => ~Listed(x)')
      BY <2>1, ListedMoves DEF Living
    <2> QED
      BY <1>0, <2>1, <2>2, EffectDeleteVirtualPdoByExtension, Holding
  <1>2. ASSUME NEW x \in Exts
        PROVE  Gentle(t, x) /\ (ext'[x].life = "freed" /\ ext[x].life # "freed" => KeepsHolders(x))
    <2>1. /\ KeepsMake(x) /\ KeepsLife(x) /\ KeepsRelations(x) /\ KeepsHolders(x) /\ KeepsClosing(x)
          /\ ext[x].holders \in Int /\ (Listed(x)' => Listed(x)) /\ (x = y => ~Listed(x)')
      BY <1>1
    <2>2. CASE x # y
      <3>1. KeepsMark(x)
        BY <1>1, <2>2 DEF KeepsMark
      <3> QED
        BY <2>1, <3>1, GentleIf DEF KeepsLife, KeepsRelations, KeepsHolders, KeepsClosing
    <2>3. CASE x = y
      <3>1. ext'[x].marked /\ ~Listed(x)'
        BY <1>1, <2>3
      <3> QED
        BY <2>1, <3>1 DEF Gentle, KeepsLife, KeepsRelations, KeepsHolders, KeepsClosing
    <2> QED
      BY <2>2, <2>3
  <1>3. Order'
    BY <1>1, OrderMoves DEF Living
  <1>4. Removal(t)'
    <2>1. ~Removes(t)'
      BY <1>1, Holding DEF Removes, Does, Rets, KeepsUse, KeepsDel, KeepsOp, Op
    <2> QED
      BY <2>1 DEF Removal
  <1>5. Addition(t)'
    BY <1>1, Holding DEF Addition, Rets
  <1>6. Deleting(t)'
    BY <1>1, <1>2, DeletingRests DEF Living, KeepsDel
  <1>7. Drops(t)' => \/ Drops(t) /\ th'[t].x = th[t].x
                     \/ /\ Owns(t) /\ th'[t].x = th[t].x
                        /\ ~ext[th[t].x].marked /\ ext'[th[t].x].marked
    BY <1>0, <1>1 DEF Drops, Owns, KeepsUse
  <1> QED
    BY <1>2, <1>3, <1>4, <1>5, <1>6, <1>7, LivingMoves

LEMMA LivingRecordShadow ==
  ASSUME Typed, Typed', Formed, Held, Held', Living, NEW t \in Threads, OthersRest(t), RecordShadow(t)
  PROVE  Living'
  <1>0. PICK y \in Exts : y = th[t].f /\ ext[y].holders # 0
    <2>1. Asks(t)
      BY EffectRecordShadow, Holding DEF Asks, Does
    <2>2. PICK y \in Exts : y = th[t].f
      <3>1. Does(t, {"query", "pass", "remove", "detach"}) /\ th[t].pc = "record"
        BY EffectRecordShadow, Holding DEF Does
      <3> QED
        BY <3>1, AskedFor
    <2>3. <<"filter", t>> \in Holds(y)
      BY <2>1, <2>2 DEF Holds
    <2> QED
      BY <2>2, <2>3, Holder
  <1>1. /\ th[t].pc = "record" /\ th'[t].pc = "release" /\ Op(t).do = "query"
        /\ KeepsUse(t) /\ KeepsOp(t) /\ KeepsDel(t) /\ list' = list
        /\ \A x \in Exts : /\ KeepsMake(x) /\ KeepsLife(x) /\ KeepsMark(x) /\ KeepsHolders(x) /\ KeepsClosing(x)
                           /\ (x = y \/ ext'[x].shadow = ext[x].shadow)
                           /\ (Filter(x) => KeepsLife(x) /\ KeepsMake(x)) /\ ext[x].holders \in Int
    BY <1>0, EffectRecordShadow, Holding
  <1>2. ASSUME NEW x \in Exts
        PROVE  Gentle(t, x) /\ (ext'[x].life = "freed" /\ ext[x].life # "freed" => KeepsHolders(x))
    <2>1. /\ KeepsMake(x) /\ KeepsLife(x) /\ KeepsMark(x) /\ KeepsHolders(x)
          /\ ext[x].holders \in Int /\ (Listed(x)' <=> Listed(x)) /\ (ext[x].closing => ext'[x].closing)
          /\ ext'[x].shadow = ext[x].shadow \/ ext'[x].shadow = Null \/ ext[x].holders # 0
      BY <1>1, <1>0 DEF Listed, KeepsRelations, KeepsClosing
    <2> QED
      BY <2>1, GentleIf DEF KeepsLife, KeepsHolders
  <1>3. Order'
    BY <1>1, OrderMoves DEF Living
  <1>4. Removal(t)'
    <2>1. ~Removes(t)'
      BY <1>1, Holding DEF Removes, Does, Rets, KeepsUse, KeepsDel, KeepsOp, Op
    <2> QED
      BY <2>1 DEF Removal
  <1>5. Addition(t)'
    BY <1>1, Holding DEF Addition, Rets
  <1>6. Deleting(t)'
    BY EffectRecordShadow, <1>1, <1>2, DeletingRests DEF Living, KeepsDel
  <1>7. Drops(t)' => \/ Drops(t) /\ th'[t].x = th[t].x
                     \/ /\ Owns(t) /\ th'[t].x = th[t].x
                        /\ ~ext[th[t].x].marked /\ ext'[th[t].x].marked
    BY <1>1, Holding DEF Drops, Rets
  <1> QED
    BY <1>2, <1>3, <1>4, <1>5, <1>6, <1>7, LivingMoves

LEMMA LivingQueryDeviceRelations ==
  ASSUME Typed, Typed', Formed, Held, Held', Living, NEW t \in Threads, OthersRest(t), QueryDeviceRelations(t)
  PROVE  Living'
  <1>1. /\ th[t].pc = "sent" /\ th'[t].pc \in {"release", "process"} /\ Op(t).do = "query" /\ th[t].del = 0
        /\ KeepsUse(t) /\ KeepsOp(t) /\ KeepsDel(t) /\ list' = list
        /\ \A x \in Exts : /\ KeepsMake(x) /\ KeepsLife(x) /\ KeepsMark(x) /\ KeepsHolders(x) /\ KeepsClosing(x)
                           /\ ext'[x].shadow = (IF x = th[t].f THEN Null ELSE ext[x].shadow) /\ ext[x].holders \in Int
    BY EffectQueryDeviceRelations, Holding
  <1>2. ASSUME NEW x \in Exts
        PROVE  Gentle(t, x) /\ (ext'[x].life = "freed" /\ ext[x].life # "freed" => KeepsHolders(x))
    <2>1. /\ KeepsMake(x) /\ KeepsLife(x) /\ KeepsMark(x) /\ KeepsHolders(x)
          /\ ext[x].holders \in Int /\ (Listed(x)' <=> Listed(x)) /\ (ext[x].closing => ext'[x].closing)
          /\ ext'[x].shadow = ext[x].shadow \/ ext'[x].shadow = Null \/ ext[x].holders # 0
      BY <1>1 DEF Listed, KeepsRelations, KeepsClosing
    <2> QED
      BY <2>1, GentleIf DEF KeepsLife, KeepsHolders
  <1>3. Order'
    BY <1>1, OrderMoves DEF Living
  <1>4. Removal(t)'
    <2>1. ~Removes(t)'
      BY <1>1, Holding DEF Removes, Does, Rets, KeepsUse, KeepsDel, KeepsOp, Op
    <2> QED
      BY <2>1 DEF Removal
  <1>5. Addition(t)'
    BY <1>1, Holding DEF Addition, Rets
  <1>6. Deleting(t)'
    BY <1>1, <1>2, DeletingRests DEF Living, KeepsDel
  <1>7. Drops(t)' => \/ Drops(t) /\ th'[t].x = th[t].x
                     \/ /\ Owns(t) /\ th'[t].x = th[t].x
                        /\ ~ext[th[t].x].marked /\ ext'[th[t].x].marked
    BY <1>1, Holding DEF Drops, Rets
  <1> QED
    BY <1>2, <1>3, <1>4, <1>5, <1>6, <1>7, LivingMoves

LEMMA LivingFreeAllDeviceRelations ==
  ASSUME Typed, Typed', Formed, Held, Held', Living, NEW t \in Threads, OthersRest(t), FreeAllDeviceRelations(t)
  PROVE  Living'
  <1>1. /\ th[t].pc = "free" /\ th'[t].pc = "release" /\ th[t].pc = "free" /\ th[t].del = 0
        /\ KeepsUse(t) /\ KeepsOp(t) /\ KeepsDel(t) /\ list' = list
        /\ \A x \in Exts : /\ KeepsMake(x) /\ KeepsLife(x) /\ KeepsMark(x) /\ KeepsHolders(x) /\ KeepsClosing(x)
                           /\ ext'[x].shadow = (IF x = th[t].f THEN Null ELSE ext[x].shadow) /\ ext[x].holders \in Int
    BY EffectFreeAllDeviceRelations, Holding
  <1>2. ASSUME NEW x \in Exts
        PROVE  Gentle(t, x) /\ (ext'[x].life = "freed" /\ ext[x].life # "freed" => KeepsHolders(x))
    <2>1. /\ KeepsMake(x) /\ KeepsLife(x) /\ KeepsMark(x) /\ KeepsHolders(x)
          /\ ext[x].holders \in Int /\ (Listed(x)' <=> Listed(x)) /\ (ext[x].closing => ext'[x].closing)
          /\ ext'[x].shadow = ext[x].shadow \/ ext'[x].shadow = Null \/ ext[x].holders # 0
      BY <1>1 DEF Listed, KeepsRelations, KeepsClosing
    <2> QED
      BY <2>1, GentleIf DEF KeepsLife, KeepsHolders
  <1>3. Order'
    BY <1>1, OrderMoves DEF Living
  <1>4. Removal(t)'
    <2>1. Removes(t)' => Removes(t)
      BY <1>1, Holding DEF Removes, Does, KeepsUse, KeepsOp, Op
    <2>2. ASSUME Removes(t)'
          PROVE  LET f == ext'[th'[t].f] IN
                 /\ f.life = "live" /\ f.dev = Op(t)'.dev /\ f.closing
                 /\ th'[t].pc # "closing" => ~Listed(th[t].f)' /\ f.holders = 0
                 /\ th'[t].pc \notin {"closing", "free"} => f.shadow = Null
      <3>1. PICK f \in Exts : f = th[t].f
        BY <2>1, <2>2, Working
      <3>2. ext[f].life = "live" /\ ext[f].dev = Op(t).dev /\ ext[f].closing /\ ~Listed(f) /\ ext[f].holders = 0
        BY <1>1, <2>1, <2>2, <3>1 DEF Living, Removal
      <3>3. ext'[f].shadow = Null /\ ~Listed(f)'
        BY <1>1, <3>1, <3>2 DEF Listed
      <3> QED
        BY <1>1, <3>1, <3>2, <3>3 DEF KeepsUse, KeepsDel, KeepsOp, Op, KeepsMake, KeepsLife, KeepsMark, KeepsRelations, KeepsHolders, KeepsClosing
    <2> QED
      BY <2>2 DEF Removal
  <1>5. Addition(t)'
    BY <1>1, Holding DEF Addition, Rets
  <1>6. Deleting(t)'
    BY <1>1, <1>2, DeletingRests DEF Living, KeepsDel
  <1>7. Drops(t)' => \/ Drops(t) /\ th'[t].x = th[t].x
                     \/ /\ Owns(t) /\ th'[t].x = th[t].x
                        /\ ~ext[th[t].x].marked /\ ext'[th[t].x].marked
    BY <1>1, Holding DEF Drops, Rets
  <1> QED
    BY <1>2, <1>3, <1>4, <1>5, <1>6, <1>7, LivingMoves

LEMMA LivingRemoveDeviceFromTheList ==
  ASSUME Typed, Typed', Formed, Held, Held', Living, NEW t \in Threads, OthersRest(t), RemoveDeviceFromTheList(t)
  PROVE  Living'
  <1>0. PICK y \in Exts : y = th[t].f /\ Filter(y)
    <2>1. th[t].pc = "closing"
      BY EffectRemoveDeviceFromTheList
    <2>2. Removes(t)
      BY <2>1, Holding DEF Removes, Does
    <2> QED
      BY <2>2, Working
  <1>1. /\ th[t].pc = "closing" /\ th'[t].pc = "free" /\ th[t].del = 0 /\ ext[y].holders = 0
        /\ KeepsUse(t) /\ KeepsOp(t) /\ KeepsDel(t) /\ list' = Without(y)
        /\ \A x \in Exts : /\ KeepsMake(x) /\ KeepsLife(x) /\ KeepsMark(x) /\ KeepsHolders(x) /\ KeepsClosing(x)
                           /\ KeepsRelations(x) /\ ext[x].holders \in Int
                           /\ (Listed(x)' => Listed(x)) /\ (x = y => ~Listed(x)')
    <2>1. list' = Without(y)
      BY <1>0, EffectRemoveDeviceFromTheList
    <2>2. \A x \in Exts : (Listed(x)' => Listed(x)) /\ (x = y => ~Listed(x)')
      BY <2>1, ListedMoves DEF Living
    <2> QED
      BY <1>0, <2>1, <2>2, EffectRemoveDeviceFromTheList, Holding
  <1>2. ASSUME NEW x \in Exts
        PROVE  Gentle(t, x) /\ (ext'[x].life = "freed" /\ ext[x].life # "freed" => KeepsHolders(x))
    <2>1. Gentle(t, x)
      BY <1>1, GentleIf DEF KeepsMake, KeepsLife, KeepsMark, KeepsRelations, KeepsHolders, KeepsClosing
    <2> QED
      BY <1>1, <2>1 DEF KeepsLife
  <1>3. Order'
    BY <1>1, OrderMoves DEF Living
  <1>4. Removal(t)'
    <2>1. Removes(t)
      BY <1>1, Holding DEF Removes, Does
    <2>2. ext[y].life = "live" /\ ext[y].dev = Op(t).dev /\ ext[y].closing
      BY <1>0, <2>1 DEF Living, Removal
    <2> QED
      BY <1>0, <1>1, <2>2 DEF Removal, KeepsUse, KeepsDel, KeepsOp, Op, KeepsMake, KeepsLife, KeepsMark, KeepsRelations, KeepsHolders, KeepsClosing
  <1>5. Addition(t)'
    BY <1>1, Holding DEF Addition, Rets
  <1>6. Deleting(t)'
    BY <1>1, <1>2, DeletingRests DEF Living, KeepsDel
  <1>7. Drops(t)' => \/ Drops(t) /\ th'[t].x = th[t].x
                     \/ /\ Owns(t) /\ th'[t].x = th[t].x
                        /\ ~ext[th[t].x].marked /\ ext'[th[t].x].marked
    BY <1>1, Holding DEF Drops, Rets
  <1> QED
    BY <1>2, <1>3, <1>4, <1>5, <1>6, <1>7, LivingMoves

LEMMA LivingClearFilterDeviceExtension ==
  ASSUME Typed, Typed', Formed, Held, Held', Living, NEW t \in Threads, OthersRest(t), ClearFilterDeviceExtension(t)
  PROVE  Living'
  <1>0. PICK y \in Exts : /\ y = th[t].f /\ Filter(y) /\ th[t].ops # <<>> /\ Op(t).do \in Serial
                          /\ ext[y].life = "live" /\ ext[y].dev = Op(t).dev /\ ~Listed(y) /\ ext[y].holders = 0
    <2>1. th[t].pc = "cleared"
      BY EffectClearFilterDeviceExtension
    <2>2. Removes(t)
      BY <2>1, Holding DEF Removes, Does
    <2> QED
      BY <2>1, <2>2, Working DEF Living, Removal
  <1>1. /\ th[t].pc = "cleared" /\ th'[t].pc = "delete" /\ th'[t].ret = "done" /\ th[t].del = 0
        /\ KeepsOp(t) /\ KeepsDel(t) /\ list' = list
        /\ \A x \in Exts : /\ KeepsMake(x) /\ KeepsMark(x) /\ KeepsHolders(x) /\ KeepsClosing(x)
                           /\ ext'[x].life = (IF x = y THEN "freed" ELSE ext[x].life)
                           /\ KeepsRelations(x) /\ ext[x].holders \in Int
    BY <1>0, EffectClearFilterDeviceExtension, Holding
  <1>2. ASSUME NEW x \in Exts
        PROVE  Gentle(t, x) /\ (ext'[x].life = "freed" /\ ext[x].life # "freed" => KeepsHolders(x))
    <2>1. Listed(x)' <=> Listed(x)
      BY <1>1 DEF Listed
    <2>2. CASE x # y
      BY <1>1, <2>1, <2>2, GentleIf DEF KeepsMake, KeepsLife, KeepsMark, KeepsRelations, KeepsHolders, KeepsClosing
    <2>3. CASE x = y
      BY <1>0, <1>1, <2>1, <2>3 DEF Gentle, Serially, KeepsMake, KeepsLife, KeepsMark, KeepsRelations, KeepsHolders, KeepsClosing
    <2> QED
      BY <1>1, <2>2, <2>3
  <1>3. Order'
    BY <1>1, OrderMoves DEF Living
  <1>4. Removal(t)'
    <2>1. ~Removes(t)'
      BY <1>1, Holding DEF Removes, Does, Rets, KeepsUse, KeepsDel, KeepsOp, Op
    <2> QED
      BY <2>1 DEF Removal
  <1>5. Addition(t)'
    BY <1>1, Holding DEF Addition, Rets
  <1>6. Deleting(t)'
    BY <1>1, <1>2, DeletingRests DEF Living, KeepsDel
  <1>7. Drops(t)' => \/ Drops(t) /\ th'[t].x = th[t].x
                     \/ /\ Owns(t) /\ th'[t].x = th[t].x
                        /\ ~ext[th[t].x].marked /\ ext'[th[t].x].marked
    BY <1>1, Holding DEF Drops, Rets
  <1> QED
    BY <1>2, <1>3, <1>4, <1>5, <1>6, <1>7, LivingMoves

-----------------------------------------------------------------------------
(* Lives: what finds, takes or makes an extension *)

LEMMA LivingDispatchRequest ==
  ASSUME Typed, Typed', Formed, Held, Held', Living, NEW t \in Threads, OthersRest(t), DispatchRequest(t)
  PROVE  Living'
  <1>1. /\ th[t].pc = "next" /\ th[t].del = 0 /\ KeepsDel(t) /\ KeepsOp(t) /\ list' = list /\ th'[t].pc \in {"sent", "done"} /\ Op(t).do \in {"query", "pass"}
        /\ \A x \in Exts : /\ KeepsMake(x) /\ KeepsLife(x) /\ KeepsMark(x) /\ KeepsRelations(x)
                           /\ ext[x].holders \in Int /\ (ext[x].closing => ext'[x].closing)
                           /\ \/ ext'[x].holders <= ext[x].holders
                              \/ ext[x].life = "live" /\ ~ext[x].closing
    <2>1. CASE ext' = ext
      BY <2>1, Still, EffectDispatchRequest, Holding DEF KeepsHolders, KeepsClosing
    <2>2. CASE ext' # ext
      <3>1. PICK g \in FilterOf(Op(t).dev) :
                  /\ ~ext[g].closing /\ th'[t].pc = "sent"
                  /\ \A x \in Exts :
                       /\ KeepsMake(x) /\ KeepsLife(x) /\ KeepsMark(x) /\ KeepsRelations(x)
                       /\ ext'[x].holders = (IF x = g THEN ext[x].holders + 1 ELSE ext[x].holders)
                       /\ KeepsClosing(x)
        BY <2>2, EffectDispatchRequest
      <3>2. ext[g].life = "live" /\ ext[g].dev = Op(t).dev /\ g \in Exts
        BY <3>1 DEF FilterOf
      <3>3. \A x \in Exts : ext[x].holders \in Int
        BY Holding
      <3> QED
        BY <3>1, <3>2, <3>3, EffectDispatchRequest, Holding DEF KeepsHolders, KeepsClosing
    <2> QED
      BY <2>1, <2>2
  <1>2. ASSUME NEW x \in Exts
        PROVE  Gentle(t, x) /\ (ext'[x].life = "freed" /\ ext[x].life # "freed" => KeepsHolders(x))
    <2>1. /\ KeepsMake(x) /\ KeepsLife(x) /\ KeepsMark(x) /\ KeepsRelations(x)
          /\ ext[x].holders \in Int /\ (Listed(x)' <=> Listed(x)) /\ (ext[x].closing => ext'[x].closing)
          /\ \/ ext'[x].holders <= ext[x].holders
             \/ /\ ext[x].life = "live"
                /\ Filter(x) => ~ext[x].closing \/ Listed(x) \/ Serially(t, x)
      BY <1>1 DEF Listed
    <2> QED
      BY <2>1, GentleIf DEF KeepsLife, KeepsRelations
  <1>3. Order'
    BY <1>1, OrderMoves DEF Living
  <1>4. Removal(t)'
    <2>1. ~Removes(t)'
      BY <1>1, Holding DEF Removes, Does, Rets, KeepsUse, KeepsDel, KeepsOp, Op
    <2> QED
      BY <2>1 DEF Removal
  <1>5. Addition(t)'
    BY <1>1, Holding DEF Addition, Rets
  <1>6. Deleting(t)'
    BY <1>1, <1>2, DeletingRests DEF Living, KeepsDel
  <1>7. Drops(t)' => \/ Drops(t) /\ th'[t].x = th[t].x
                     \/ /\ Owns(t) /\ th'[t].x = th[t].x
                        /\ ~ext[th[t].x].marked /\ ext'[th[t].x].marked
    BY <1>1, Holding DEF Drops, Rets
  <1> QED
    BY <1>2, <1>3, <1>4, <1>5, <1>6, <1>7, LivingMoves

LEMMA LivingStartDevice ==
  ASSUME Typed, Typed', Formed, Held, Held', Living, NEW t \in Threads, OthersRest(t), StartDevice(t)
  PROVE  Living'
  <1>1. /\ th[t].pc = "next" /\ th[t].del = 0 /\ KeepsDel(t) /\ KeepsOp(t) /\ list' = list /\ th'[t].pc = "hook" /\ Op(t).do = "start"
        /\ \A x \in Exts : /\ KeepsMake(x) /\ KeepsLife(x) /\ KeepsMark(x) /\ KeepsRelations(x)
                           /\ ext[x].holders \in Int /\ (ext[x].closing => ext'[x].closing)
                           /\ \/ ext'[x].holders <= ext[x].holders
                              \/ ext[x].life = "live" /\ Serially(t, x)
    <2>1. CASE ext' = ext
      BY <2>1, Still, EffectStartDevice, Holding DEF KeepsHolders, KeepsClosing
    <2>2. CASE ext' # ext
      <3>1. PICK g \in FilterOf(Op(t).dev) :
                  /\ \A x \in Exts :
                       /\ KeepsMake(x) /\ KeepsLife(x) /\ KeepsMark(x) /\ KeepsRelations(x)
                       /\ ext'[x].holders = (IF x = g THEN ext[x].holders + 1 ELSE ext[x].holders)
                       /\ KeepsClosing(x)
        BY <2>2, EffectStartDevice
      <3>2. ext[g].life = "live" /\ ext[g].dev = Op(t).dev /\ g \in Exts
        BY <3>1 DEF FilterOf
      <3>3. \A x \in Exts : ext[x].holders \in Int
        BY Holding
      <3> QED
        BY <3>1, <3>2, <3>3, EffectStartDevice, Holding DEF KeepsHolders, KeepsClosing, Serially, Serial
    <2> QED
      BY <2>1, <2>2
  <1>2. ASSUME NEW x \in Exts
        PROVE  Gentle(t, x) /\ (ext'[x].life = "freed" /\ ext[x].life # "freed" => KeepsHolders(x))
    <2>1. /\ KeepsMake(x) /\ KeepsLife(x) /\ KeepsMark(x) /\ KeepsRelations(x)
          /\ ext[x].holders \in Int /\ (Listed(x)' <=> Listed(x)) /\ (ext[x].closing => ext'[x].closing)
          /\ \/ ext'[x].holders <= ext[x].holders
             \/ /\ ext[x].life = "live"
                /\ Filter(x) => ~ext[x].closing \/ Listed(x) \/ Serially(t, x)
      BY <1>1 DEF Listed
    <2> QED
      BY <2>1, GentleIf DEF KeepsLife, KeepsRelations
  <1>3. Order'
    BY <1>1, OrderMoves DEF Living
  <1>4. Removal(t)'
    <2>1. ~Removes(t)'
      BY <1>1, Holding DEF Removes, Does, Rets, KeepsUse, KeepsDel, KeepsOp, Op
    <2> QED
      BY <2>1 DEF Removal
  <1>5. Addition(t)'
    BY <1>1, Holding DEF Addition, Rets
  <1>6. Deleting(t)'
    BY <1>1, <1>2, DeletingRests DEF Living, KeepsDel
  <1>7. Drops(t)' => \/ Drops(t) /\ th'[t].x = th[t].x
                     \/ /\ Owns(t) /\ th'[t].x = th[t].x
                        /\ ~ext[th[t].x].marked /\ ext'[th[t].x].marked
    BY <1>1, Holding DEF Drops, Rets
  <1> QED
    BY <1>2, <1>3, <1>4, <1>5, <1>6, <1>7, LivingMoves

LEMMA LivingRemoveDevice ==
  ASSUME Typed, Typed', Formed, Held, Held', Living, NEW t \in Threads, OthersRest(t), RemoveDevice(t)
  PROVE  Living'
  <1>1. /\ th[t].pc = "next" /\ th[t].del = 0 /\ KeepsDel(t) /\ KeepsOp(t) /\ list' = list /\ Op(t)' = Op(t)
        /\ \A x \in Exts : /\ KeepsMake(x) /\ KeepsLife(x) /\ KeepsMark(x) /\ KeepsRelations(x)
                           /\ ext[x].holders \in Int /\ (ext[x].closing => ext'[x].closing)
                           /\ ext'[x].holders <= ext[x].holders
        /\ \/ th'[t].pc = "done"
           \/ \E g \in Exts : /\ ext[g].life = "live" /\ ext[g].dev = Op(t).dev /\ ext'[g].closing
                              /\ th'[t].pc = "closing" /\ th'[t].f = g
    <2>1. CASE ext' = ext /\ th'[t].pc = "done"
      <3>1. /\ th[t].pc = "next" /\ th[t].del = 0 /\ KeepsDel(t) /\ KeepsOp(t) /\ list' = list /\ Op(t)' = Op(t)
        BY EffectRemoveDevice DEF KeepsOp, Op
      <3>2. \A x \in Exts : ext[x].holders \in Int
        BY Holding
      <3> QED
        BY <2>1, <3>1, <3>2, Still DEF KeepsHolders, KeepsClosing
    <2>2. CASE ~(ext' = ext /\ th'[t].pc = "done")
      <3>1. PICK g \in FilterOf(Op(t).dev) :
                  /\ th'[t].pc = "closing" /\ th'[t].f = g
                  /\ \A x \in Exts :
                       /\ KeepsMake(x) /\ KeepsLife(x) /\ KeepsMark(x) /\ KeepsRelations(x) /\ KeepsHolders(x)
                       /\ ext'[x].closing = (IF x = g THEN TRUE ELSE ext[x].closing)
        BY <2>2, EffectRemoveDevice
      <3>2. ext[g].life = "live" /\ ext[g].dev = Op(t).dev /\ g \in Exts
        BY <3>1 DEF FilterOf
      <3>3. /\ th[t].pc = "next" /\ th[t].del = 0 /\ KeepsDel(t) /\ KeepsOp(t) /\ list' = list /\ Op(t)' = Op(t)
        BY EffectRemoveDevice DEF KeepsOp, Op
      <3>4. \A x \in Exts : ext[x].holders \in Int
        BY Holding
      <3>5. \A x \in Exts : /\ KeepsMake(x) /\ KeepsLife(x) /\ KeepsMark(x) /\ KeepsRelations(x)
                           /\ ext[x].holders \in Int /\ (ext[x].closing => ext'[x].closing)
                           /\ ext'[x].holders <= ext[x].holders
        <4>1. \A x \in Exts : ext[x].closing => ext'[x].closing
          BY <3>1, Zenon
        <4>2. ASSUME NEW x \in Exts
              PROVE  ext'[x].holders <= ext[x].holders
          <5>1. ext'[x].holders = ext[x].holders /\ ext[x].holders \in Int
            BY <3>1, <3>4, Zenon DEF KeepsHolders
          <5> QED
            BY <5>1
        <4> QED
          BY <3>1, <3>4, <4>1, <4>2
      <3>6. ext'[g].closing
        BY <3>1, <3>2
      <3> QED
        BY <3>1, <3>2, <3>3, <3>5, <3>6
    <2> QED
      BY <2>1, <2>2
  <1>2. ASSUME NEW x \in Exts
        PROVE  Gentle(t, x) /\ (ext'[x].life = "freed" /\ ext[x].life # "freed" => KeepsHolders(x))
    <2>1. /\ KeepsMake(x) /\ KeepsLife(x) /\ KeepsMark(x) /\ KeepsRelations(x)
          /\ ext[x].holders \in Int /\ (Listed(x)' <=> Listed(x)) /\ (ext[x].closing => ext'[x].closing)
          /\ \/ ext'[x].holders <= ext[x].holders
             \/ /\ ext[x].life = "live"
                /\ Filter(x) => ~ext[x].closing \/ Listed(x) \/ Serially(t, x)
      BY <1>1 DEF Listed
    <2> QED
      BY <2>1, GentleIf DEF KeepsLife, KeepsRelations
  <1>3. Order'
    BY <1>1, OrderMoves DEF Living
  <1>4. Removal(t)'
    <2>1. CASE th'[t].pc = "done"
      BY <2>1 DEF Removal, Removes
    <2>2. CASE th'[t].pc # "done"
      <3>1. PICK g \in Exts : /\ ext[g].life = "live" /\ ext[g].dev = Op(t).dev /\ ext'[g].closing
                            /\ th'[t].pc = "closing" /\ th'[t].f = g
        BY <1>1, <2>2
      <3>2. ext'[g].life = "live" /\ ext'[g].dev = Op(t).dev
        BY <1>1, <3>1 DEF KeepsLife, KeepsMake
      <3> QED
        BY <1>1, <3>1, <3>2 DEF Removal
    <2> QED
      BY <2>1, <2>2
  <1>5. Addition(t)'
    BY <1>1, Holding DEF Addition, Rets
  <1>6. Deleting(t)'
    BY <1>1, <1>2, DeletingRests DEF Living, KeepsDel
  <1>7. Drops(t)' => \/ Drops(t) /\ th'[t].x = th[t].x
                     \/ /\ Owns(t) /\ th'[t].x = th[t].x
                        /\ ~ext[th[t].x].marked /\ ext'[th[t].x].marked
    BY <1>1, Holding DEF Drops, Rets
  <1> QED
    BY <1>2, <1>3, <1>4, <1>5, <1>6, <1>7, LivingMoves

LEMMA LivingFastIoDetachDevice ==
  ASSUME Typed, Typed', Formed, Held, Held', Living, NEW t \in Threads, OthersRest(t), FastIoDetachDevice(t)
  PROVE  Living'
  <1>1. /\ th[t].pc = "next" /\ th[t].del = 0 /\ KeepsDel(t) /\ KeepsOp(t) /\ list' = list /\ Op(t)' = Op(t)
        /\ \A x \in Exts : /\ KeepsMake(x) /\ KeepsLife(x) /\ KeepsMark(x) /\ KeepsRelations(x)
                           /\ ext[x].holders \in Int /\ (ext[x].closing => ext'[x].closing)
                           /\ ext'[x].holders <= ext[x].holders
        /\ \/ th'[t].pc = "done"
           \/ \E g \in Exts : /\ ext[g].life = "live" /\ ext[g].dev = Op(t).dev /\ ext'[g].closing
                              /\ th'[t].pc = "closing" /\ th'[t].f = g
    <2>1. CASE ext' = ext /\ th'[t].pc = "done"
      <3>1. /\ th[t].pc = "next" /\ th[t].del = 0 /\ KeepsDel(t) /\ KeepsOp(t) /\ list' = list /\ Op(t)' = Op(t)
        BY EffectFastIoDetachDevice DEF KeepsOp, Op
      <3>2. \A x \in Exts : ext[x].holders \in Int
        BY Holding
      <3> QED
        BY <2>1, <3>1, <3>2, Still DEF KeepsHolders, KeepsClosing
    <2>2. CASE ~(ext' = ext /\ th'[t].pc = "done")
      <3>1. PICK g \in FilterOf(Op(t).dev) :
                  /\ th'[t].pc = "closing" /\ th'[t].f = g
                  /\ \A x \in Exts :
                       /\ KeepsMake(x) /\ KeepsLife(x) /\ KeepsMark(x) /\ KeepsRelations(x) /\ KeepsHolders(x)
                       /\ ext'[x].closing = (IF x = g THEN TRUE ELSE ext[x].closing)
        BY <2>2, EffectFastIoDetachDevice
      <3>2. ext[g].life = "live" /\ ext[g].dev = Op(t).dev /\ g \in Exts
        BY <3>1 DEF FilterOf
      <3>3. /\ th[t].pc = "next" /\ th[t].del = 0 /\ KeepsDel(t) /\ KeepsOp(t) /\ list' = list /\ Op(t)' = Op(t)
        BY EffectFastIoDetachDevice DEF KeepsOp, Op
      <3>4. \A x \in Exts : ext[x].holders \in Int
        BY Holding
      <3>5. \A x \in Exts : /\ KeepsMake(x) /\ KeepsLife(x) /\ KeepsMark(x) /\ KeepsRelations(x)
                           /\ ext[x].holders \in Int /\ (ext[x].closing => ext'[x].closing)
                           /\ ext'[x].holders <= ext[x].holders
        <4>1. \A x \in Exts : ext[x].closing => ext'[x].closing
          BY <3>1, Zenon
        <4>2. ASSUME NEW x \in Exts
              PROVE  ext'[x].holders <= ext[x].holders
          <5>1. ext'[x].holders = ext[x].holders /\ ext[x].holders \in Int
            BY <3>1, <3>4, Zenon DEF KeepsHolders
          <5> QED
            BY <5>1
        <4> QED
          BY <3>1, <3>4, <4>1, <4>2
      <3>6. ext'[g].closing
        BY <3>1, <3>2
      <3> QED
        BY <3>1, <3>2, <3>3, <3>5, <3>6
    <2> QED
      BY <2>1, <2>2
  <1>2. ASSUME NEW x \in Exts
        PROVE  Gentle(t, x) /\ (ext'[x].life = "freed" /\ ext[x].life # "freed" => KeepsHolders(x))
    <2>1. /\ KeepsMake(x) /\ KeepsLife(x) /\ KeepsMark(x) /\ KeepsRelations(x)
          /\ ext[x].holders \in Int /\ (Listed(x)' <=> Listed(x)) /\ (ext[x].closing => ext'[x].closing)
          /\ \/ ext'[x].holders <= ext[x].holders
             \/ /\ ext[x].life = "live"
                /\ Filter(x) => ~ext[x].closing \/ Listed(x) \/ Serially(t, x)
      BY <1>1 DEF Listed
    <2> QED
      BY <2>1, GentleIf DEF KeepsLife, KeepsRelations
  <1>3. Order'
    BY <1>1, OrderMoves DEF Living
  <1>4. Removal(t)'
    <2>1. CASE th'[t].pc = "done"
      BY <2>1 DEF Removal, Removes
    <2>2. CASE th'[t].pc # "done"
      <3>1. PICK g \in Exts : /\ ext[g].life = "live" /\ ext[g].dev = Op(t).dev /\ ext'[g].closing
                            /\ th'[t].pc = "closing" /\ th'[t].f = g
        BY <1>1, <2>2
      <3>2. ext'[g].life = "live" /\ ext'[g].dev = Op(t).dev
        BY <1>1, <3>1 DEF KeepsLife, KeepsMake
      <3> QED
        BY <1>1, <3>1, <3>2 DEF Removal
    <2> QED
      BY <2>1, <2>2
  <1>5. Addition(t)'
    BY <1>1, Holding DEF Addition, Rets
  <1>6. Deleting(t)'
    BY <1>1, <1>2, DeletingRests DEF Living, KeepsDel
  <1>7. Drops(t)' => \/ Drops(t) /\ th'[t].x = th[t].x
                     \/ /\ Owns(t) /\ th'[t].x = th[t].x
                        /\ ~ext[th[t].x].marked /\ ext'[th[t].x].marked
    BY <1>1, Holding DEF Drops, Rets
  <1> QED
    BY <1>2, <1>3, <1>4, <1>5, <1>6, <1>7, LivingMoves

LEMMA LivingPnPMajorHookDispatch ==
  ASSUME Typed, Typed', Formed, Held, Held', Living, NEW t \in Threads, OthersRest(t), PnPMajorHookDispatch(t)
  PROVE  Living'
  <1>1. /\ th[t].del = 0 /\ KeepsDel(t) /\ KeepsOp(t) /\ list' = list /\ th[t].pc = "hook"
        /\ th'[t].f = th[t].f /\ th'[t].pc \in {"find", "started", "cleared", "hookstate"}
        /\ \A x \in Exts : /\ KeepsMake(x) /\ KeepsLife(x) /\ KeepsMark(x) /\ KeepsRelations(x)
                           /\ ext[x].holders \in Int /\ (ext[x].closing => ext'[x].closing)
                           /\ \/ ext'[x].holders <= ext[x].holders
                              \/ ext[x].life = "live" /\ ~Filter(x)
                           /\ Filter(x) => KeepsClosing(x)
    <2>3. /\ th[t].del = 0 /\ KeepsDel(t) /\ KeepsOp(t) /\ list' = list /\ th[t].pc = "hook"
        /\ th'[t].f = th[t].f /\ th'[t].pc \in {"find", "started", "cleared", "hookstate"}
      BY EffectPnPMajorHookDispatch DEF KeepsUse
    <2>1. CASE ext' = ext
      <3>1. \A x \in Exts : ext[x].holders \in Int
        BY Holding
      <3> QED
        BY <2>1, <2>3, <3>1, Still DEF KeepsHolders, KeepsClosing
    <2>2. CASE ext' # ext
      <3>0. PICK y : y = Found(Op(t).dev)
        OBVIOUS
      <3>1. /\ Lockable(y)
            /\ \A x \in Exts :
                 /\ KeepsMake(x) /\ KeepsLife(x) /\ KeepsMark(x) /\ KeepsRelations(x)
                 /\ ext'[x].holders = (IF x = y THEN ext[x].holders + 1 ELSE ext[x].holders)
                 /\ KeepsClosing(x)
        BY <2>2, <3>0, EffectPnPMajorHookDispatch
      <3>2. y \in Exts /\ Listed(y) /\ Virtual(y)
        BY <3>0, <3>1, FoundIs DEF Typed, Types, Lockable
      <3>3. ext[y].life = "live" /\ ~Filter(y)
        BY <3>2 DEF Living, Lasting, Filter
      <3>4. \A x \in Exts : ext[x].holders \in Int
        BY Holding
      <3>5. \A x \in Exts : /\ KeepsMake(x) /\ KeepsLife(x) /\ KeepsMark(x) /\ KeepsRelations(x)
                           /\ ext[x].holders \in Int /\ (ext[x].closing => ext'[x].closing) /\ KeepsClosing(x)
                           /\ \/ ext'[x].holders <= ext[x].holders
                              \/ ext[x].life = "live" /\ ~Filter(x)
        BY <3>1, <3>3, <3>4 DEF KeepsClosing
      <3> QED
        BY <2>3, <3>5
    <2> QED
      BY <2>1, <2>2
  <1>2. ASSUME NEW x \in Exts
        PROVE  Gentle(t, x) /\ (ext'[x].life = "freed" /\ ext[x].life # "freed" => KeepsHolders(x))
    <2>1. /\ KeepsMake(x) /\ KeepsLife(x) /\ KeepsMark(x) /\ KeepsRelations(x)
          /\ ext[x].holders \in Int /\ (Listed(x)' <=> Listed(x)) /\ (ext[x].closing => ext'[x].closing)
          /\ \/ ext'[x].holders <= ext[x].holders
             \/ /\ ext[x].life = "live"
                /\ Filter(x) => ~ext[x].closing \/ Listed(x) \/ Serially(t, x)
      BY <1>1 DEF Listed
    <2> QED
      BY <2>1, GentleIf DEF KeepsLife, KeepsRelations
  <1>3. Order'
    BY <1>1, OrderMoves DEF Living
  <1>4. Removal(t)'
    <2>1. Removes(t)' =>
            /\ Removes(t) /\ th'[t].f = th[t].f /\ Op(t)' = Op(t)
            /\ th[t].pc = "closing" => th'[t].pc = "closing"
            /\ th[t].pc = "free" => th'[t].pc = "free"
      BY <1>1 DEF Removes, Does, KeepsOp, Op
    <2>2. ASSUME NEW x \in Exts, Filter(x)
          PROVE  /\ KeepsMake(x) /\ KeepsLife(x) /\ KeepsClosing(x) /\ ext'[x].shadow = ext[x].shadow
                 /\ ext'[x].holders <= ext[x].holders
                 /\ Listed(x)' => Listed(x)
      BY <1>1, <2>2 DEF KeepsRelations, Listed
    <2> QED
      BY <2>1, <2>2, RemovalGoes DEF Living
  <1>5. Addition(t)'
    BY <1>1, Holding DEF Addition, Rets
  <1>6. Deleting(t)'
    BY <1>1, <1>2, DeletingRests DEF Living, KeepsDel
  <1>7. Drops(t)' => \/ Drops(t) /\ th'[t].x = th[t].x
                     \/ /\ Owns(t) /\ th'[t].x = th[t].x
                        /\ ~ext[th[t].x].marked /\ ext'[th[t].x].marked
    BY <1>1, Holding DEF Drops, Rets
  <1> QED
    BY <1>2, <1>3, <1>4, <1>5, <1>6, <1>7, LivingMoves

LEMMA LivingFindVirtualPdo ==
  ASSUME Typed, Typed', Formed, Held, Held', Living, NEW t \in Threads, OthersRest(t), FindVirtualPdo(t)
  PROVE  Living'
  <1>1. /\ th[t].del = 0 /\ KeepsDel(t) /\ KeepsOp(t) /\ list' = list /\ th[t].pc = "find"
        /\ th'[t].pc \in {"create", "virtual", th[t].ret}
        /\ \A x \in Exts : /\ KeepsMake(x) /\ KeepsLife(x) /\ KeepsMark(x) /\ KeepsRelations(x)
                           /\ ext[x].holders \in Int /\ (ext[x].closing => ext'[x].closing)
                           /\ \/ ext'[x].holders <= ext[x].holders
                              \/ ext[x].life = "live" /\ ~Filter(x)
    <2>3. /\ th[t].del = 0 /\ KeepsDel(t) /\ KeepsOp(t) /\ list' = list /\ th[t].pc = "find"
        /\ th'[t].pc \in {"create", "virtual", th[t].ret}
      BY EffectFindVirtualPdo DEF KeepsUse
    <2>1. CASE ext' = ext
      <3>1. \A x \in Exts : ext[x].holders \in Int
        BY Holding
      <3> QED
        BY <2>1, <2>3, <3>1, Still DEF KeepsHolders, KeepsClosing
    <2>2. CASE ext' # ext
      <3>0. PICK y : y = Found(Op(t).dev)
        OBVIOUS
      <3>1. /\ Lockable(y)
            /\ \A x \in Exts :
                 /\ KeepsMake(x) /\ KeepsLife(x) /\ KeepsMark(x) /\ KeepsRelations(x)
                 /\ ext'[x].holders = (IF x = y THEN ext[x].holders + 1 ELSE ext[x].holders)
                 /\ KeepsClosing(x)
        BY <2>2, <3>0, EffectFindVirtualPdo
      <3>2. y \in Exts /\ Listed(y) /\ Virtual(y)
        BY <3>0, <3>1, FoundIs DEF Typed, Types, Lockable
      <3>3. ext[y].life = "live" /\ ~Filter(y)
        BY <3>2 DEF Living, Lasting, Filter
      <3>4. \A x \in Exts : ext[x].holders \in Int
        BY Holding
      <3>5. \A x \in Exts : /\ KeepsMake(x) /\ KeepsLife(x) /\ KeepsMark(x) /\ KeepsRelations(x)
                           /\ ext[x].holders \in Int /\ (ext[x].closing => ext'[x].closing) /\ KeepsClosing(x)
                           /\ \/ ext'[x].holders <= ext[x].holders
                              \/ ext[x].life = "live" /\ ~Filter(x)
        BY <3>1, <3>3, <3>4 DEF KeepsClosing
      <3> QED
        BY <2>3, <3>5
    <2> QED
      BY <2>1, <2>2
  <1>2. ASSUME NEW x \in Exts
        PROVE  Gentle(t, x) /\ (ext'[x].life = "freed" /\ ext[x].life # "freed" => KeepsHolders(x))
    <2>1. /\ KeepsMake(x) /\ KeepsLife(x) /\ KeepsMark(x) /\ KeepsRelations(x)
          /\ ext[x].holders \in Int /\ (Listed(x)' <=> Listed(x)) /\ (ext[x].closing => ext'[x].closing)
          /\ \/ ext'[x].holders <= ext[x].holders
             \/ /\ ext[x].life = "live"
                /\ Filter(x) => ~ext[x].closing \/ Listed(x) \/ Serially(t, x)
      BY <1>1 DEF Listed
    <2> QED
      BY <2>1, GentleIf DEF KeepsLife, KeepsRelations
  <1>3. Order'
    BY <1>1, OrderMoves DEF Living
  <1>4. Removal(t)'
    <2>1. ~Removes(t)'
      BY <1>1, Holding DEF Removes, Does, Rets, KeepsUse, KeepsDel, KeepsOp, Op
    <2> QED
      BY <2>1 DEF Removal
  <1>5. Addition(t)'
    BY <1>1, Holding DEF Addition, Rets
  <1>6. Deleting(t)'
    BY <1>1, <1>2, DeletingRests DEF Living, KeepsDel
  <1>7. Drops(t)' => \/ Drops(t) /\ th'[t].x = th[t].x
                     \/ /\ Owns(t) /\ th'[t].x = th[t].x
                        /\ ~ext[th[t].x].marked /\ ext'[th[t].x].marked
    BY <1>1, Holding DEF Drops, Rets
  <1> QED
    BY <1>2, <1>3, <1>4, <1>5, <1>6, <1>7, LivingMoves

LEMMA LivingNextReportedDevice ==
  ASSUME Typed, Typed', Formed, Held, Held', Living, NEW t \in Threads, OthersRest(t), NextReportedDevice(t)
  PROVE  Living'
  <1>1. /\ th[t].del = 0 /\ KeepsDel(t) /\ KeepsOp(t) /\ list' = list /\ th[t].pc = "walk" /\ th'[t].pc \in {"crash", "done", "tell"}
        /\ \A x \in Exts : /\ KeepsMake(x) /\ KeepsLife(x) /\ KeepsMark(x) /\ KeepsRelations(x) /\ KeepsClosing(x)
    BY EffectNextReportedDevice
  <1>8. ASSUME NEW x \in Exts
        PROVE  /\ ext[x].holders \in Int /\ (ext[x].closing => ext'[x].closing)
               /\ \/ ext'[x].holders <= ext[x].holders
                  \/ ext[x].life = "live" /\ Listed(x)
    <2>1. ext[x].holders \in Int /\ (Listed(x) => ext[x].life = "live")
      BY Holding DEF Living, Lasting
    <2> QED
      BY <1>1, <2>1, EffectNextReportedDevice DEF KeepsClosing
  <1>2. ASSUME NEW x \in Exts
        PROVE  Gentle(t, x) /\ (ext'[x].life = "freed" /\ ext[x].life # "freed" => KeepsHolders(x))
    <2>1. /\ KeepsMake(x) /\ KeepsLife(x) /\ KeepsMark(x) /\ KeepsRelations(x)
          /\ ext[x].holders \in Int /\ (Listed(x)' <=> Listed(x)) /\ (ext[x].closing => ext'[x].closing)
          /\ \/ ext'[x].holders <= ext[x].holders
             \/ /\ ext[x].life = "live"
                /\ Filter(x) => ~ext[x].closing \/ Listed(x) \/ Serially(t, x)
      BY <1>1, <1>8 DEF Listed
    <2> QED
      BY <2>1, GentleIf DEF KeepsLife, KeepsRelations
  <1>3. Order'
    BY <1>1, OrderMoves DEF Living
  <1>4. Removal(t)'
    <2>1. ~Removes(t)'
      BY <1>1, Holding DEF Removes, Does, Rets, KeepsUse, KeepsDel, KeepsOp, Op
    <2> QED
      BY <2>1 DEF Removal
  <1>5. Addition(t)'
    BY <1>1, Holding DEF Addition, Rets
  <1>6. Deleting(t)'
    BY <1>1, <1>2, DeletingRests DEF Living, KeepsDel
  <1>7. Drops(t)' => \/ Drops(t) /\ th'[t].x = th[t].x
                     \/ /\ Owns(t) /\ th'[t].x = th[t].x
                        /\ ~ext[th[t].x].marked /\ ext'[th[t].x].marked
    BY <1>1, Holding DEF Drops, Rets
  <1> QED
    BY <1>2, <1>3, <1>4, <1>5, <1>6, <1>7, LivingMoves

LEMMA LivingAddDeviceFTI ==
  ASSUME Typed, Typed', Formed, Held, Held', Living, NEW t \in Threads, OthersRest(t), AddDeviceFTI(t)
  PROVE  Living'
  <1>1. /\ th[t].del = 0 /\ KeepsDel(t) /\ KeepsOp(t) /\ th[t].pc = "next" /\ th'[t].pc \in {"find", "done"}
    BY EffectAddDeviceFTI
  <1>8. \/ ext' = ext /\ list' = list
        \/ \E n \in Exts : /\ ext[n].life = "none" /\ \A x \in Exts : x # n => ext'[x] = ext[x]
                           /\ ext'[n].life = "live" /\ ~ext'[n].marked /\ ext'[n].holders = 0
                           /\ ext[n].holders = 0 /\ ~Listed(n) /\ list' = Append(list, n)
    <2>1. CASE ext' = ext /\ list' = list
      BY <2>1
    <2>2. CASE ~(ext' = ext /\ list' = list)
      <3>1. PICK n \in Exts : n = Fresh
        BY <2>2, EffectAddDeviceFTI
      <3>2. /\ ext[n].life = "none" /\ \A x \in Exts : x # n => ext'[x] = ext[x]
            /\ ext'[n] = NewVirtual(Op(t).dev) /\ list' = Append(list, n)
        BY <2>2, <3>1, EffectAddDeviceFTI
      <3>3. ext'[n].life = "live" /\ ~ext'[n].marked /\ ext'[n].holders = 0
        BY <3>2, NewVirtualIs
      <3>4. ~Listed(n) /\ ext[n].holders = 0
        BY <3>2, Unheld DEF Formed, Extension, Made
      <3> QED
        BY <3>2, <3>3, <3>4
    <2> QED
      BY <2>1, <2>2
  <1>2. ASSUME NEW x \in Exts
        PROVE  Gentle(t, x) /\ (ext'[x].life = "freed" /\ ext[x].life # "freed" => KeepsHolders(x))
    <2>0. ext[x].holders \in Int
      BY Holding
    <2>1. CASE ext' = ext /\ list' = list
      <3>1. Listed(x)' <=> Listed(x)
        BY <2>1 DEF Listed
      <3> QED
        BY <2>0, <2>1, <3>1, Still, GentleIf DEF KeepsHolders, KeepsClosing, KeepsRelations
    <2>2. CASE ~(ext' = ext /\ list' = list)
      <3>1. PICK n \in Exts : /\ ext[n].life = "none" /\ \A y \in Exts : y # n => ext'[y] = ext[y]
                            /\ ext'[n].life = "live" /\ ~ext'[n].marked /\ ext'[n].holders = 0
                            /\ ext[n].holders = 0 /\ ~Listed(n) /\ list' = Append(list, n)
        BY <1>8, <2>2
      <3>2. Listed(x)' <=> Listed(x) \/ x = n
        BY <3>1, ListedMoves
      <3>3. CASE x = n
        BY <3>1, <3>3 DEF Gentle, Made, Filter, Physical
      <3>4. CASE x # n
        <4>1. ext'[x] = ext[x] /\ (Listed(x)' <=> Listed(x))
          BY <3>1, <3>2, <3>4
        <4> QED
          BY <2>0, <4>1, GentleIf DEF KeepsMake, KeepsLife, KeepsMark, KeepsHolders, KeepsClosing
      <3> QED
        BY <3>1, <3>3, <3>4
    <2> QED
      BY <2>1, <2>2
  <1>3. Order'
    BY <1>8, OrderMoves DEF Living
  <1>4. Removal(t)'
    <2>1. ~Removes(t)'
      BY <1>1, Holding DEF Removes, Does, Rets, KeepsUse, KeepsDel, KeepsOp, Op
    <2> QED
      BY <2>1 DEF Removal
  <1>5. Addition(t)'
    BY <1>1, Holding DEF Addition, Rets
  <1>6. Deleting(t)'
    BY <1>1, <1>2, DeletingRests DEF Living, KeepsDel
  <1>7. Drops(t)' => \/ Drops(t) /\ th'[t].x = th[t].x
                     \/ /\ Owns(t) /\ th'[t].x = th[t].x
                        /\ ~ext[th[t].x].marked /\ ext'[th[t].x].marked
    BY <1>1, Holding DEF Drops, Rets
  <1> QED
    BY <1>2, <1>3, <1>4, <1>5, <1>6, <1>7, LivingMoves

LEMMA LivingAddVirtualDeviceForPdo ==
  ASSUME Typed, Typed', Formed, Held, Held', Living, NEW t \in Threads, OthersRest(t), AddVirtualDeviceForPdo(t)
  PROVE  Living'
  <1>1. /\ th[t].del = 0 /\ KeepsDel(t) /\ KeepsOp(t) /\ th[t].pc = "virtual" /\ th'[t].pc \in {"find", th[t].ret}
    BY EffectAddVirtualDeviceForPdo
  <1>8. \/ ext' = ext /\ list' = list
        \/ \E n \in Exts : /\ ext[n].life = "none" /\ \A x \in Exts : x # n => ext'[x] = ext[x]
                           /\ ext'[n].life = "live" /\ ~ext'[n].marked /\ ext'[n].holders = 0
                           /\ ext[n].holders = 0 /\ ~Listed(n) /\ list' = Append(list, n)
    <2>1. CASE ext' = ext /\ list' = list
      BY <2>1
    <2>2. CASE ~(ext' = ext /\ list' = list)
      <3>1. PICK n \in Exts : n = Fresh
        BY <2>2, EffectAddVirtualDeviceForPdo
      <3>2. /\ ext[n].life = "none" /\ \A x \in Exts : x # n => ext'[x] = ext[x]
            /\ ext'[n] = NewVirtual(Op(t).dev) /\ list' = Append(list, n)
        BY <2>2, <3>1, EffectAddVirtualDeviceForPdo
      <3>3. ext'[n].life = "live" /\ ~ext'[n].marked /\ ext'[n].holders = 0
        BY <3>2, NewVirtualIs
      <3>4. ~Listed(n) /\ ext[n].holders = 0
        BY <3>2, Unheld DEF Formed, Extension, Made
      <3> QED
        BY <3>2, <3>3, <3>4
    <2> QED
      BY <2>1, <2>2
  <1>2. ASSUME NEW x \in Exts
        PROVE  Gentle(t, x) /\ (ext'[x].life = "freed" /\ ext[x].life # "freed" => KeepsHolders(x))
    <2>0. ext[x].holders \in Int
      BY Holding
    <2>1. CASE ext' = ext /\ list' = list
      <3>1. Listed(x)' <=> Listed(x)
        BY <2>1 DEF Listed
      <3> QED
        BY <2>0, <2>1, <3>1, Still, GentleIf DEF KeepsHolders, KeepsClosing, KeepsRelations
    <2>2. CASE ~(ext' = ext /\ list' = list)
      <3>1. PICK n \in Exts : /\ ext[n].life = "none" /\ \A y \in Exts : y # n => ext'[y] = ext[y]
                            /\ ext'[n].life = "live" /\ ~ext'[n].marked /\ ext'[n].holders = 0
                            /\ ext[n].holders = 0 /\ ~Listed(n) /\ list' = Append(list, n)
        BY <1>8, <2>2
      <3>2. Listed(x)' <=> Listed(x) \/ x = n
        BY <3>1, ListedMoves
      <3>3. CASE x = n
        BY <3>1, <3>3 DEF Gentle, Made, Filter, Physical
      <3>4. CASE x # n
        <4>1. ext'[x] = ext[x] /\ (Listed(x)' <=> Listed(x))
          BY <3>1, <3>2, <3>4
        <4> QED
          BY <2>0, <4>1, GentleIf DEF KeepsMake, KeepsLife, KeepsMark, KeepsHolders, KeepsClosing
      <3> QED
        BY <3>1, <3>3, <3>4
    <2> QED
      BY <2>1, <2>2
  <1>3. Order'
    BY <1>8, OrderMoves DEF Living
  <1>4. Removal(t)'
    <2>1. ~Removes(t)'
      BY <1>1, Holding DEF Removes, Does, Rets, KeepsUse, KeepsDel, KeepsOp, Op
    <2> QED
      BY <2>1 DEF Removal
  <1>5. Addition(t)'
    BY <1>1, Holding DEF Addition, Rets
  <1>6. Deleting(t)'
    BY <1>1, <1>2, DeletingRests DEF Living, KeepsDel
  <1>7. Drops(t)' => \/ Drops(t) /\ th'[t].x = th[t].x
                     \/ /\ Owns(t) /\ th'[t].x = th[t].x
                        /\ ~ext[th[t].x].marked /\ ext'[th[t].x].marked
    BY <1>1, Holding DEF Drops, Rets
  <1> QED
    BY <1>2, <1>3, <1>4, <1>5, <1>6, <1>7, LivingMoves

LEMMA LivingAttachFilterDevice ==
  ASSUME Typed, Typed', Formed, Held, Held', Living, NEW t \in Threads, OthersRest(t), AttachFilterDevice(t)
  PROVE  Living'
  <1>0. PICK n \in Exts : n = Fresh
    BY EffectAttachFilterDevice
  <1>1. /\ th[t].pc = "create" /\ th[t].del = 0 /\ th'[t].pc = "report" /\ KeepsDel(t) /\ KeepsOp(t)
        /\ th'[t].n = n /\ th'[t].x = th[t].x /\ ext[n].life = "none" /\ list' = list
        /\ \A x \in Exts : x # n => /\ KeepsMake(x) /\ KeepsLife(x) /\ KeepsMark(x) /\ KeepsRelations(x)
                                     /\ KeepsHolders(x) /\ KeepsClosing(x)
        /\ ext'[n] = [Added(Op(t).dev, "filter") EXCEPT !.vpdo = th[t].x]
    BY <1>0, EffectAttachFilterDevice
  <1>8. /\ ext'[n].life = "live" /\ ext'[n].dev = Op(t).dev /\ ext'[n].vpdo = th[t].x
        /\ ext'[n].holders = 0 /\ ext[n].holders = 0 /\ ~Listed(n)
    BY <1>1, NewFilterIs, Unheld DEF Formed, Extension, Made
  <1>2. ASSUME NEW x \in Exts
        PROVE  Gentle(t, x) /\ (ext'[x].life = "freed" /\ ext[x].life # "freed" => KeepsHolders(x))
    <2>0. ext[n].life = "none"
      BY <1>1
    <2>1. ext[x].holders \in Int /\ (Listed(x)' <=> Listed(x))
      BY <1>1, Holding DEF Listed
    <2>2. CASE x = n
      BY <1>8, <2>1, <2>2, <2>0 DEF Gentle, Made, Filter, Physical
    <2>3. CASE x # n
      BY <1>1, <2>1, <2>3, GentleIf DEF KeepsLife, KeepsHolders, KeepsClosing, KeepsRelations
    <2> QED
      BY <2>2, <2>3
  <1>3. Order'
    BY <1>1, OrderMoves DEF Living
  <1>4. Removal(t)'
    <2>1. ~Removes(t)'
      BY <1>1, Holding DEF Removes, Does, Rets, KeepsUse, KeepsDel, KeepsOp, Op
    <2> QED
      BY <2>1 DEF Removal
  <1>5. Addition(t)'
    <2>1. ~Listed(n)'
      BY <1>1, <1>8 DEF Listed
    <2> QED
      BY <1>1, <1>8, <2>1 DEF Addition, KeepsOp, Op
  <1>6. Deleting(t)'
    BY <1>1, <1>2, DeletingRests DEF Living, KeepsDel
  <1>7. Drops(t)' => \/ Drops(t) /\ th'[t].x = th[t].x
                     \/ /\ Owns(t) /\ th'[t].x = th[t].x
                        /\ ~ext[th[t].x].marked /\ ext'[th[t].x].marked
    BY <1>1, Holding DEF Drops, Rets
  <1> QED
    BY <1>2, <1>3, <1>4, <1>5, <1>6, <1>7, LivingMoves

LEMMA LivingInsertInList ==
  ASSUME Typed, Typed', Formed, Held, Held', Living, NEW t \in Threads, OthersRest(t), InsertInList(t)
  PROVE  Living'
  <1>0. PICK n \in Exts : /\ n = th[t].n /\ Filter(n) /\ ~ext[n].marked /\ ext[n].life = "live" /\ ~Listed(n)
                          /\ Serially(t, n)
    <2>1. th[t].pc = "insert"
      BY EffectInsertInList
    <2>2. PICK n \in Exts : /\ n = th[t].n /\ Filter(n) /\ th[t].ops # <<>> /\ Op(t).do \in Serial
      BY <2>1, Working
    <2>3. ext[n].life = "live" /\ ext[n].dev = Op(t).dev /\ ~Listed(n)
      BY <2>1, <2>2 DEF Living, Addition
    <2> QED
      BY <2>2, <2>3 DEF Serially, Formed, Extension
  <1>1. /\ th[t].pc = "insert" /\ th[t].del = 0 /\ th'[t].pc = "added" /\ KeepsUse(t) /\ KeepsDel(t) /\ KeepsOp(t)
        /\ ext' = ext /\ list' = Append(list, n)
    BY <1>0, EffectInsertInList
  <1>8. \A x \in Exts : Listed(x)' <=> Listed(x) \/ x = n
    BY <1>1, ListedMoves
  <1>2. ASSUME NEW x \in Exts
        PROVE  Gentle(t, x) /\ (ext'[x].life = "freed" /\ ext[x].life # "freed" => KeepsHolders(x))
    <2>1. ext[x].holders \in Int
      BY Holding
    <2>2. CASE x = n
      BY <1>0, <1>1, <1>8, <2>1, <2>2 DEF Gentle, KeepsMake, Physical, Filter
    <2>3. CASE x # n
      <3>1. Listed(x)' <=> Listed(x)
        BY <1>8, <2>3
      <3> QED
        BY <1>1, <2>1, <3>1, Still, GentleIf DEF KeepsLife, KeepsHolders, KeepsClosing, KeepsRelations
    <2> QED
      BY <1>1, <2>2, <2>3
  <1>3. Order'
    BY <1>0, <1>1, OrderMoves DEF Living
  <1>4. Removal(t)'
    <2>1. ~Removes(t)'
      BY <1>1, Holding DEF Removes, Does, Rets, KeepsUse, KeepsDel, KeepsOp, Op
    <2> QED
      BY <2>1 DEF Removal
  <1>5. Addition(t)'
    <2>1. th'[t].n = th[t].n /\ th'[t].x = th[t].x /\ Op(t)' = Op(t)
      BY <1>1 DEF KeepsUse, KeepsOp, Op
    <2> QED
      BY <1>1, <2>1, Still, AdditionGoes DEF Living
  <1>6. Deleting(t)'
    BY <1>1, <1>2, DeletingRests DEF Living, KeepsDel
  <1>7. Drops(t)' => \/ Drops(t) /\ th'[t].x = th[t].x
                     \/ /\ Owns(t) /\ th'[t].x = th[t].x
                        /\ ~ext[th[t].x].marked /\ ext'[th[t].x].marked
    BY <1>1, Holding DEF Drops, Rets
  <1> QED
    BY <1>2, <1>3, <1>4, <1>5, <1>6, <1>7, LivingMoves

LEMMA LivingStep ==
  ASSUME Typed, Typed', Formed, Held, Held', Living, NEW t \in Threads, OthersRest(t), Step(t)
  PROVE  Living'
  <1>1. CASE Deletion(t)
    BY <1>1, LivingRender, LivingCloseVirtualPdo, LivingDeleteVirtualPdoByExtensionInternal, LivingDeleteVirtualPdoByExtension, LivingDropInitialReference, LivingDereferenceVirtualPdo, Zenon DEF Deletion
  <1>2. CASE Relations(t)
    BY <1>2, LivingProcessNewRelations, LivingRecordShadow, LivingReleaseOldRelations, LivingReleaseOne, LivingReleasedAll, Zenon DEF Relations
  <1>3. CASE Requests(t)
    BY <1>3, LivingDispatchRequest, LivingFilterPass, LivingQueryDeviceRelations, LivingQueryCompleted, LivingStartDevice, LivingStarted, LivingRemoveDevice, LivingFastIoDetachDevice, LivingRemoveDeviceFromTheList, LivingFreeAllDeviceRelations, LivingClearFilterDeviceExtension, Zenon DEF Requests
  <1>4. CASE Hook(t)
    BY <1>4, LivingPnPMajorHookDispatch, LivingSetPdoState, LivingCallOriginal, LivingDriverUnloadHook, Zenon DEF Hook
  <1>5. CASE Adding(t)
    BY <1>5, LivingAddDevice, LivingAddDeviceFTI, LivingFindVirtualPdo, LivingAddVirtualDeviceForPdo, LivingAddFails, LivingAttachFilterDevice, LivingReportAddedDevice, LivingInsertInList, LivingAddedDevice, Zenon DEF Adding
  <1>6. CASE Reporting(t)
    BY <1>6, LivingReportExisitingDevices, LivingNextReportedDevice, LivingReportExistingDevice, LivingReadState, LivingReportExistingState, Zenon DEF Reporting
  <1>7. CASE Done(t)
    BY <1>7, LivingDone, Zenon
  <1> QED
    BY <1>1, <1>2, <1>3, <1>4, <1>5, <1>6, <1>7 DEF Step

LEMMA LivingSteps ==
  Typed /\ Typed' /\ Formed /\ Held /\ Held' /\ Living /\ [Next]_vars => Living'
  <1> SUFFICES ASSUME Typed, Typed', Formed, Held, Held', Living, [Next]_vars
               PROVE  Living'
    OBVIOUS
  <1>1. CASE UNCHANGED vars
    BY <1>1 DEF vars, Living, Order, Lasting, Removal, Addition, Dropping, Deleting, Removes, Drops, Does, Op, Listed
  <1>2. CASE Next
    <2>1. PICK t \in Threads : Step(t)
      BY <1>2 DEF Next, Step
    <2>2. OthersRest(t)
      BY <2>1, TypedStep
    <2> QED
      BY <2>1, <2>2, LivingStep
  <1> QED
    BY <1>1, <1>2

LEMMA BeginsLiving ==
  Init => Living
  <1> SUFFICES ASSUME Init
               PROVE  Living
    OBVIOUS
  <1>1. Len(Boot) \in Nat /\ DOMAIN list = 1..2 * Len(Boot) /\ \A i \in 1..2 * Len(Boot) : list[i] = i
    BY PnPFilterAssumption DEF Init
  <1>2. Order
    BY <1>1 DEF Order
  <1>3. ASSUME NEW x \in Exts
        PROVE  Lasting(x)
    <2>1. Listed(x) => x <= 2 * Len(Boot)
      BY <1>1 DEF Listed
    <2>2. x \in Nat
      BY Numerals
    <2>3. CASE x <= 2 * Len(Boot)
      BY <2>3, BootIs, BootFields DEF Lasting
    <2>4. CASE x > 2 * Len(Boot)
      <3>1. ~Listed(x)
        BY <1>1, <2>1, <2>2, <2>4
      <3> QED
        BY <2>4, <3>1, BootIs, NoFields DEF Lasting
    <2> QED
      BY <1>1, <2>2, <2>3, <2>4
  <1>4. ASSUME NEW t \in Threads
        PROVE  Removal(t) /\ Addition(t) /\ Dropping(t) /\ Deleting(t)
    BY InitThread DEF Removal, Removes, Addition, Dropping, Drops, Deleting
  <1> QED
    BY <1>2, <1>3, <1>4 DEF Living

\* An extension is freed only when it is out of the list and its lock is free;
\* the filter device that is removed or added, and the reference that is given
\* back, are of one thread: FilterRemoveDevice, FilterAddDevice and
\* OcFilterDeleteVirtualPdoByExtension do not meet others of their kind.
THEOREM AlwaysLiving == Spec => []Living
  BY BeginsLiving, LivingSteps, AlwaysTyped, AlwaysFormed, AlwaysHeld, PTL DEF Spec

-----------------------------------------------------------------------------
(* The counts: what a step does to the terms of the sum *)

SameUse(t, x) == \A g \in UseKinds : UsesBy(g, t, x)' = UsesBy(g, t, x)
SameDrop(t)   == (Drops(t)' <=> Drops(t)) /\ (Drops(t) => th'[t].x = th[t].x)
SameKeys(t)   == Exchanged(t)' = Exchanged(t) /\ th'[t].new = th[t].new /\ th'[t].todo = th[t].todo

LEMMA EachHoldsFinite ==
  \A x : Cardinality(Users(x)) \in Nat /\ Cardinality(Filters(x)) \in Nat
  BY HoldsFinite
LEMMA NextHoldsFinite ==
  (\A x : Cardinality(Users(x)) \in Nat /\ Cardinality(Filters(x)) \in Nat)'
  BY EachHoldsFinite, PTL

LEMMA InitialStays ==
  ASSUME NEW t \in Threads, OthersRest(t), SameDrop(t), NEW x, KeepsMark(x)
  PROVE  Initial(x)' = Initial(x)
  <1>1. \A u \in Threads : (th'[u].x = x /\ th'[u].pc = "drop") <=> (th[u].x = x /\ th[u].pc = "drop")
    BY DEF OthersRest, SameDrop, Drops
  <1> QED
    BY <1>1 DEF Initial, KeepsMark

LEMMA FiltersStay ==
  ASSUME NEW x, \A f \in Exts : \/ KeepsMake(f) /\ KeepsLife(f)
                                \/ (Virtual(f) \/ ext[f].life # "live") /\ (Virtual(f)' \/ ext'[f].life # "live")
  PROVE  Filters(x)' = Filters(x)
  <1>1. ASSUME NEW f \in Exts
        PROVE  (ext'[f].life = "live" /\ ~Virtual(f)' /\ ext'[f].vpdo = x)
                  <=> (ext[f].life = "live" /\ ~Virtual(f) /\ ext[f].vpdo = x)
    BY DEF KeepsMake, KeepsLife, Virtual
  <1> QED
    BY <1>1 DEF Filters

LEMMA UsersStay ==
  ASSUME NEW t \in Threads, OthersRest(t), NEW x, SameUse(t, x)
  PROVE  Cardinality(Users(x)') = Cardinality(Users(x))
  <1>1. /\ "own" \in UseKinds /\ \A h \in UseKinds \ {"own"} : UsesBy(h, t, x)' = UsesBy(h, t, x)
        /\ UsesBy("own", t, x)' = UsesBy("own", t, x)
    BY DEF SameUse, UseKinds
  <1>2. Cardinality(Users(x)') = Cardinality(Users(x)) + (IF UsesBy("own", t, x)' THEN 1 ELSE 0)
                                                       - (IF UsesBy("own", t, x) THEN 1 ELSE 0)
    BY <1>1, UsersMove
  <1> QED
    BY <1>1, <1>2, HoldsFinite

LEMMA KeysStay ==
  ASSUME NEW t \in Threads, OthersRest(t), NEW x,
         NEW g, NEW h, KeyOf(g, h), g = "kept" => Kept(h)' = Kept(h), g # "kept" /\ h = t => SameKeys(t)
  PROVE  KeyPlaces(g, h, x)' = KeyPlaces(g, h, x)
  <1>1. CASE g = "kept"
    BY <1>1 DEF KeyPlaces
  <1>2. CASE g # "kept" /\ h = t
    BY <1>2 DEF KeyPlaces, SameKeys
  <1>3. CASE g # "kept" /\ h # t
    <2>1. th'[h] = th[h]
      BY <1>3 DEF OthersRest, KeyOf
    <2>2. Exchanged(h)' = Exchanged(h)
      BY <2>1 DEF Exchanged
    <2> QED
      BY <1>3, <2>1, <2>2 DEF KeyPlaces
  <1> QED
    BY <1>1, <1>2, <1>3

LEMMA RelationsStay ==
  ASSUME NEW t \in Threads, OthersRest(t), SameKeys(t), \A f \in Exts : Kept(f)' = Kept(f), NEW x
  PROVE  ByRelations(x)' = ByRelations(x)
  <1>1. ASSUME NEW g, NEW h, KeyOf(g, h)
        PROVE  KeyPlaces(g, h, x)' = KeyPlaces(g, h, x)
    BY <1>1, KeysStay DEF KeyOf
  <1> QED
    BY <1>1, RelationsSame

\* The sum follows when both sides do.
LEMMA ExactMoves ==
  ASSUME Typed, Typed', NEW x \in Exts, Exact(x), ext'[x].kind = ext[x].kind, IsFiniteSet(ByRelations(x)'),
         ext'[x].refs = ext[x].refs + (Initial(x)' - Initial(x))
                        + (Cardinality(Filters(x)') - Cardinality(Filters(x)))
                        + (Cardinality(ByRelations(x)') - Cardinality(ByRelations(x)))
                        + (Cardinality(Users(x)') - Cardinality(Users(x))),
         ext'[x].rel = ext[x].rel + (Cardinality(Filters(x)') - Cardinality(Filters(x)))
                       + (Cardinality(ByRelations(x)') - Cardinality(ByRelations(x)))
  PROVE  Exact(x)'
  <1>1. /\ Cardinality(Filters(x)) \in Int /\ Cardinality(Users(x)) \in Int
        /\ Cardinality(ByRelations(x)) \in Int /\ Initial(x) \in Int
    BY HoldsFinite, FS_CardinalityType DEF Exact, Initial
  <1>2. /\ Cardinality(Filters(x)') \in Int /\ Cardinality(Users(x)') \in Int
        /\ Cardinality(ByRelations(x)') \in Int /\ Initial(x)' \in Int
    BY NextHoldsFinite, FS_CardinalityType DEF Initial
  <1>3. ext[x].refs \in Int /\ ext[x].rel \in Int
    BY ExtNumbers DEF Typed, Types
  <1>4. PICK f, u, r, i, g, v, s, j \in Int :
           /\ f = Cardinality(Filters(x)) /\ u = Cardinality(Users(x)) /\ r = Cardinality(ByRelations(x)) /\ i = Initial(x)
           /\ g = Cardinality(Filters(x)') /\ v = Cardinality(Users(x)') /\ s = Cardinality(ByRelations(x)') /\ j = Initial(x)'
    BY <1>1, <1>2
  <1>5. ext[x].refs = i + f + r + u /\ ext[x].rel = (IF ext[x].kind = "pdo" THEN 1 ELSE 0) + f + r
    BY <1>4 DEF Exact
  <1>6. ext'[x].refs = ext[x].refs + (j - i) + (g - f) + (s - r) + (v - u)
        /\ ext'[x].rel = ext[x].rel + (g - f) + (s - r)
    BY <1>4
  <1>7. ext'[x].refs = j + g + s + v /\ ext'[x].rel = (IF ext'[x].kind = "pdo" THEN 1 ELSE 0) + g + s
    BY <1>3, <1>5, <1>6
  <1> QED
    BY <1>4, <1>7 DEF Exact

LEMMA ExactStays ==
  ASSUME NEW x, Exact(x), ext'[x].kind = ext[x].kind, KeepsCounts(x), ByRelations(x)' = ByRelations(x),
         Initial(x)' = Initial(x), Filters(x)' = Filters(x), Cardinality(Users(x)') = Cardinality(Users(x))
  PROVE  Exact(x)'
  BY DEF Exact, KeepsCounts

\* A virtual PDO without references: nobody has one.
LEMMA Bare ==
  ASSUME Typed, NEW x \in Exts, Exact(x)
  PROVE  /\ ext[x].refs \in Nat
         /\ ext[x].refs = 0 => /\ ext[x].marked /\ \A t \in Threads : ~(th[t].x = x /\ Drops(t))
                               /\ Filters(x) = {} /\ ByRelations(x) = {} /\ Users(x) = {}
                               /\ \A t \in Threads : \A g \in UseKinds : ~UsesBy(g, t, x)
  <1>1. /\ Cardinality(Filters(x)) \in Nat /\ Cardinality(Users(x)) \in Nat
        /\ Cardinality(ByRelations(x)) \in Nat /\ Initial(x) \in {0, 1}
    BY HoldsFinite, FS_CardinalityType DEF Exact, Initial
  <1>2. PICK f, u, r, i \in Nat :
           /\ f = Cardinality(Filters(x)) /\ u = Cardinality(Users(x)) /\ r = Cardinality(ByRelations(x)) /\ i = Initial(x)
    BY <1>1
  <1>3. ext[x].refs = i + f + r + u
    BY <1>2 DEF Exact
  <1>4. ext[x].refs = 0 => i = 0 /\ f = 0 /\ r = 0 /\ u = 0
    BY <1>3
  <1>5. i = 0 => ext[x].marked /\ \A t \in Threads : ~(th[t].x = x /\ Drops(t))
    BY <1>2 DEF Initial, Drops
  <1>6. f = 0 => Filters(x) = {}
    BY <1>2, HoldsFinite, FS_EmptySet
  <1>7. u = 0 => Users(x) = {}
    BY <1>2, HoldsFinite, FS_EmptySet
  <1>8. r = 0 => ByRelations(x) = {}
    BY <1>2, FS_EmptySet DEF Exact
  <1>9. ASSUME Users(x) = {}, NEW t \in Threads, NEW g \in UseKinds, UsesBy(g, t, x)
        PROVE  FALSE
    <2>1. PICK e \in UseKinds \X Threads : e = <<g, t>>
      OBVIOUS
    <2>2. e[1] = g /\ e[2] = t
      BY <2>1
    <2>3. UsesBy(e[1], e[2], x)
      BY <1>9, <2>2
    <2>4. e \in Users(x)
      BY <2>3, HoldMembers
    <2> QED
      BY <1>9, <2>4
  <1> QED
    BY <1>3, <1>4, <1>5, <1>6, <1>7, <1>8, <1>9

\* The relations of one type: everyone who has some finds in them what was
\* found first.
LEMMA ReplayedStays ==
  ASSUME Typed, \A x \in Exts : Made(x) => KeepsMake(x),
         NEW s \in Shadows, Related(s), NEW r \in Reported, Replayed(s, r)
  PROVE  \A seq \in s : r # Null /\ Visit(ext', seq, Only(r)).found = seq
  <1> SUFFICES ASSUME NEW seq \in s
               PROVE  r # Null /\ Visit(ext', seq, Only(r)).found = seq
    OBVIOUS
  <1>1. r # Null /\ Visit(ext, seq, Only(r)).found = seq
    BY DEF Replayed, Replays
  <1>2. Only(r) \in Seq(Devices)
    BY <1>1 DEF Only, Null, Reported
  <1>3. seq \in Seq(Exts) /\ Pdos(seq)
    BY DEF Shadows, Related
  <1>4. \A i \in DOMAIN seq : ext'[seq[i]].kind = ext[seq[i]].kind /\ ext'[seq[i]].dev = ext[seq[i]].dev
    BY <1>3 DEF Pdos, KeepsMake
  <1>5. Len(Only(r)) \in Nat
    BY <1>2
  <1> QED
    BY <1>1, <1>3, <1>4, <1>5, VisitStays

\* What a thread and the extensions do with them.
Passes(t) ==
  /\ \A f \in Exts :
       \/ ext'[f].shadow = Null
       \/ ext'[f].shadow = ext[f].shadow /\ ext'[f].rels = ext[f].rels
       \/ ext'[f].shadow = th[t].new /\ ext'[f].rels = Op(t).rels
  /\ \/ Exchanged(t)' = Null
     \/ Exchanged(t)' = Exchanged(t) /\ th'[t].old = th[t].old
     \/ \E f \in Exts : Exchanged(t)' = ext[f].shadow /\ th'[t].old = ext[f].rels
  /\ \/ th'[t].new = Null
     \/ th'[t].new = th[t].new /\ Op(t)' = Op(t)
     \/ /\ th[t].ops # <<>> /\ Op(t)' = Op(t) /\ Op(t).rels # Null
        /\ th'[t].new = {Visit(ext, list, Only(Op(t).rels)).found} /\ list' = list

LEMMA RelationFields ==
  ASSUME Typed, Formed, NEW t \in Threads
  PROVE  /\ th[t].old \in Reported /\ th[t].shadow \in Shadows /\ th[t].new \in Shadows /\ th[t].todo \in Seq(Exts)
         /\ Related(th[t].shadow) /\ Related(th[t].new)
         /\ Exchanged(t) \in Shadows /\ Related(Exchanged(t))
         /\ th[t].ops # <<>> => Op(t).rels \in Reported
         /\ th[t].new # Null => th[t].ops # <<>>
         /\ \A f \in Exts : ext[f].shadow \in Shadows /\ Related(ext[f].shadow) /\ ext[f].rels \in Reported
  <1>1. PICK q \in ThreadTypes : q = th[t]
    BY DEF Typed, Types
  <1>2. q.old \in Reported /\ q.shadow \in Shadows /\ q.new \in Shadows /\ q.todo \in Seq(Exts) /\ q.ops \in Seq(Call)
    BY DEF ThreadTypes
  <1>3. q.ops # <<>> => Head(q.ops).rels \in Reported
    <2>1. q.ops # <<>> => Head(q.ops) \in Call
      BY <1>2
    <2> QED
      BY <2>1 DEF Call, Reported
  <1>4. Related(th[t].shadow) /\ Related(th[t].new)
    BY DEF Formed, Pointers
  <1>5. Null \in Shadows /\ Related(Null)
    BY DEF Null, Shadows, Related, Single
  <1>6. Exchanged(t) \in Shadows /\ Related(Exchanged(t))
    BY <1>1, <1>2, <1>4, <1>5 DEF Exchanged
  <1>7. ASSUME NEW f \in Exts
        PROVE  ext[f].shadow \in Shadows /\ Related(ext[f].shadow) /\ ext[f].rels \in Reported
    <2>1. PICK p \in ExtTypes : p = ext[f]
      BY DEF Typed, Types
    <2>2. p.shadow \in Shadows /\ p.rels \in Reported
      BY DEF ExtTypes
    <2>3. Related(ext[f].shadow)
      BY DEF Formed, Extension
    <2> QED
      BY <2>1, <2>2, <2>3
  <1>8. th[t].new # Null => th[t].ops # <<>>
    BY DEF Typed, Control, Standing
  <1> QED
    BY <1>1, <1>2, <1>3, <1>4, <1>6, <1>7, <1>8 DEF Op

LEMMA RelationalMoves ==
  ASSUME Typed, Formed, NEW t \in Threads, OthersRest(t),
         \A x \in Exts : Made(x) => KeepsMake(x), Passes(t), Relational
  PROVE  Relational'
  <1> DEFINE Again(s, r) == \A seq \in s : r # Null /\ Visit(ext', seq, Only(r)).found = seq
  <1>1. \A s, r : s = Null => Again(s, r)
    BY DEF Null
  <1>2. \A s \in Shadows, r \in Reported : Related(s) /\ Replayed(s, r) => Again(s, r)
    BY ReplayedStays
  <1>3. \A f \in Exts : Again(ext[f].shadow, ext[f].rels)
    <2> HIDE DEF Again
    <2> QED
      BY <1>2, RelationFields DEF Relational
  <1>4. \A u \in Threads : Again(Exchanged(u), th[u].old)
    <2> HIDE DEF Again
    <2> QED
      BY <1>2, RelationFields DEF Relational
  <1>5. \A u \in Threads : Again(th[u].new, Op(u).rels)
    <2> HIDE DEF Again
    <2> TAKE u \in Threads
    <2>1. CASE th[u].new = Null
      BY <1>1, <2>1
    <2>2. CASE th[u].new # Null
      <3>1. Op(u).rels \in Reported /\ th[u].new \in Shadows /\ Related(th[u].new)
        BY <2>2, RelationFields
      <3> QED
        BY <1>2, <3>1 DEF Relational
    <2> QED
      BY <2>1, <2>2
  <1>6. ASSUME NEW f \in Exts
        PROVE  Again(ext'[f].shadow, ext'[f].rels)
    <2> HIDE DEF Again
    <2>1. CASE ext'[f].shadow = Null
      BY <1>1, <2>1
    <2>2. CASE ext'[f].shadow = ext[f].shadow /\ ext'[f].rels = ext[f].rels
      BY <1>3, <2>2
    <2>3. CASE ext'[f].shadow = th[t].new /\ ext'[f].rels = Op(t).rels
      BY <1>5, <2>3
    <2> QED
      BY <2>1, <2>2, <2>3 DEF Passes
  <1>7. ASSUME NEW u \in Threads
        PROVE  Again(Exchanged(u)', th'[u].old)
    <2> HIDE DEF Again
    <2>1. CASE u # t
      <3>1. th'[u] = th[u]
        BY <2>1 DEF OthersRest
      <3>2. Exchanged(u)' = Exchanged(u)
        BY <3>1 DEF Exchanged
      <3> QED
        BY <1>4, <3>1, <3>2
    <2>2. CASE u = t /\ Exchanged(t)' = Null
      BY <1>1, <2>2
    <2>3. CASE u = t /\ Exchanged(t)' = Exchanged(t) /\ th'[t].old = th[t].old
      BY <1>4, <2>3
    <2>4. CASE u = t /\ \E f \in Exts : Exchanged(t)' = ext[f].shadow /\ th'[t].old = ext[f].rels
      BY <1>3, <2>4
    <2> QED
      BY <2>1, <2>2, <2>3, <2>4 DEF Passes
  <1>8. ASSUME NEW u \in Threads
        PROVE  Again(th'[u].new, Op(u)'.rels)
    <2>1. CASE u # t
      <3> HIDE DEF Again
      <3>1. th'[u] = th[u] /\ Op(u)' = Op(u)
        BY <2>1 DEF OthersRest, Op
      <3> QED
        BY <1>5, <3>1
    <2>2. CASE u = t /\ th'[t].new = Null
      <3> HIDE DEF Again
      <3> QED
        BY <1>1, <2>2
    <2>3. CASE u = t /\ th'[t].new = th[t].new /\ Op(t)' = Op(t)
      <3> HIDE DEF Again
      <3> QED
        BY <1>5, <2>3
    <2>4. CASE /\ u = t /\ th[t].ops # <<>> /\ Op(t)' = Op(t) /\ Op(t).rels # Null
               /\ th'[t].new = {Visit(ext, list, Only(Op(t).rels)).found} /\ list' = list
      <3>1. PICK v : v = Visit(ext, list, Only(Op(t).rels)).found
        OBVIOUS
      <3>2. th'[t].new = {v}
        BY <2>4, <3>1
      <3>3. list \in Seq(Exts)
        BY DEF Typed, Types
      <3>4. Op(t).rels \in Reported
        BY <2>4, RelationFields
      <3>5. Only(Op(t).rels) \in Seq(Devices)
        BY <2>4, <3>4 DEF Only, Null, Reported
      <3>6. Len(Only(Op(t).rels)) \in Nat
        BY <3>5
      <3>7. Visit(ext, v, Only(Op(t).rels)).found = v
        BY <3>1, <3>3, <3>6, VisitReplays
      <3>8. FoundIn(ext, list, v)
        BY <3>1, <3>3, <3>6, VisitFinds
      <3>9. v \in Seq(Exts) /\ Pdos(v)
        <4>1. ASSUME NEW i \in DOMAIN v
              PROVE  Made(v[i]) /\ ext[v[i]].kind = "pdo"
          <5>1. ext[v[i]].kind = "pdo" /\ Listed(v[i]) /\ v[i] \in Exts
            BY <3>8 DEF FoundIn, Listed
          <5> QED
            BY <5>1 DEF Formed, Extension
        <4> QED
          BY <3>8, <4>1 DEF FoundIn, Pdos
      <3>10. {v} \in Shadows /\ Related({v}) /\ Replayed({v}, Op(t).rels)
        BY <2>4, <3>7, <3>9 DEF Shadows, Related, Single, Replayed, Replays
      <3> HIDE DEF Again
      <3> QED
        BY <1>2, <2>4, <3>2, <3>4, <3>10
    <2> HIDE DEF Again
    <2> QED
      BY <2>1, <2>2, <2>3, <2>4 DEF Passes
  <1> QED
    BY <1>6, <1>7, <1>8 DEF Relational, Replayed, Replays
-----------------------------------------------------------------------------
(* The counts: steps that leave them alone, steps that pass relations on *)

\* One who has relations gets more, or loses some.
LEMMA RelationsGain ==
  ASSUME NEW x, IsFiniteSet(ByRelations(x)), NEW g \in {"new", "todo"}, NEW t \in Threads,
         IsFiniteSet(KeyPlaces(g, t, x)), IsFiniteSet(KeyPlaces(g, t, x)'), IsFiniteSet(KeyPlaces("old", t, x)),
         \A p, q : KeyOf(p, q) /\ <<p, q>> # <<g, t>> => KeyPlaces(p, q, x)' = KeyPlaces(p, q, x)
  PROVE  /\ IsFiniteSet(ByRelations(x)')
         /\ Cardinality(ByRelations(x)') =
              Cardinality(ByRelations(x)) + (Cardinality(KeyPlaces(g, t, x)') - Cardinality(KeyPlaces(g, t, x)))
  <1>1. PICK A, B, C, D : /\ A = KeyPlaces(g, t, x) /\ B = KeyPlaces("old", t, x)
                          /\ C = KeyPlaces(g, t, x)' /\ D = KeyPlaces("old", t, x)'
    OBVIOUS
  <1>2. KeyOf(g, t) /\ KeyOf("old", t) /\ <<g, t>> # <<"old", t>>
    BY DEF KeyOf
  <1>3. D = B
    BY <1>1, <1>2
  <1>4. IsFiniteSet(A) /\ IsFiniteSet(B) /\ IsFiniteSet(C) /\ IsFiniteSet(D)
    BY <1>1, <1>3
  <1>5. /\ IsFiniteSet(ByRelations(x)')
        /\ Cardinality(ByRelations(x)') =
             Cardinality(ByRelations(x)) + (Cardinality(C) - Cardinality(A)) + (Cardinality(D) - Cardinality(B))
    BY <1>1, <1>2, <1>4, RelationsMove
  <1>6. /\ Cardinality(A) \in Int /\ Cardinality(B) \in Int /\ Cardinality(C) \in Int
        /\ Cardinality(ByRelations(x)) \in Int
    BY <1>4, FS_CardinalityType
  <1>7. Cardinality(ByRelations(x)') = Cardinality(ByRelations(x)) + (Cardinality(C) - Cardinality(A))
    <2>1. PICK a, b, c, r \in Int : /\ a = Cardinality(A) /\ b = Cardinality(B)
                                    /\ c = Cardinality(C) /\ r = Cardinality(ByRelations(x))
      BY <1>6
    <2>2. Cardinality(ByRelations(x)') = r + (c - a) + (b - b)
      BY <1>3, <1>5, <2>1
    <2> QED
      BY <2>1, <2>2
  <1> QED
    BY <1>1, <1>5, <1>7

\* One gives what it has to another.
RelationsPassed(x, A, B, C, D) ==
  /\ IsFiniteSet(ByRelations(x)')
  /\ Cardinality(ByRelations(x)') = Cardinality(ByRelations(x)) + (Cardinality(C) - Cardinality(A))
                                                              + (Cardinality(D) - Cardinality(B))

LEMMA RelationsPassedEqual ==
  ASSUME NEW x, IsFiniteSet(ByRelations(x)), NEW A, NEW B, IsFiniteSet(A), IsFiniteSet(B), RelationsPassed(x, A, B, B, A)
  PROVE  IsFiniteSet(ByRelations(x)') /\ Cardinality(ByRelations(x)') = Cardinality(ByRelations(x))
  <1>4. Cardinality(A) \in Int /\ Cardinality(B) \in Int /\ Cardinality(ByRelations(x)) \in Int
    BY FS_CardinalityType
  <1>5. PICK m, n, r \in Int : m = Cardinality(A) /\ n = Cardinality(B) /\ r = Cardinality(ByRelations(x))
    BY <1>4
  <1>7. IsFiniteSet(ByRelations(x)') /\ Cardinality(ByRelations(x)') = r + (n - m) + (m - n)
    BY <1>5, Zenon DEF RelationsPassed
  <1>8. r + (n - m) + (m - n) = r
    OBVIOUS
  <1> QED
    BY <1>5, <1>7, <1>8

LEMMA RelationsKeep ==
  ASSUME NEW x, IsFiniteSet(ByRelations(x)), NEW t \in Threads, NEW f \in Exts, 
         IsFiniteSet(KeyPlaces("new", t, x)), IsFiniteSet(KeyPlaces("kept", f, x)),
         KeyPlaces("new", t, x)' = KeyPlaces("kept", f, x), KeyPlaces("kept", f, x)' = KeyPlaces("new", t, x),
         \A p, q : KeyOf(p, q) /\ <<p, q>> # <<"new", t>> /\ <<p, q>> # <<"kept", f>>
                      => KeyPlaces(p, q, x)' = KeyPlaces(p, q, x)
  PROVE  IsFiniteSet(ByRelations(x)') /\ Cardinality(ByRelations(x)') = Cardinality(ByRelations(x))
  <1>1. PICK A, B, C, D : /\ A = KeyPlaces("new", t, x)
                          /\ B = KeyPlaces("kept", f, x)
                          /\ C = KeyPlaces("new", t, x)'
                          /\ D = KeyPlaces("kept", f, x)'
    OBVIOUS
  <1>2. KeyOf("new", t) /\ KeyOf("kept", f) /\ <<"new", t>> # <<"kept", f>>
    BY DEF KeyOf
  <1>3. C = B /\ D = A
    BY <1>1
  <1>4. IsFiniteSet(A) /\ IsFiniteSet(B) /\ IsFiniteSet(C) /\ IsFiniteSet(D)
    BY <1>1, <1>3
  <1>5. RelationsPassed(x, A, B, C, D)
    BY <1>1, <1>2, <1>4, RelationsMove DEF RelationsPassed
  <1>6. RelationsPassed(x, A, B, B, A)
    BY <1>3, <1>5
  <1> QED
    BY <1>4, <1>6, RelationsPassedEqual

LEMMA RelationsTake ==
  ASSUME NEW x, IsFiniteSet(ByRelations(x)), NEW t \in Threads, NEW f \in Exts, 
         IsFiniteSet(KeyPlaces("kept", f, x)), IsFiniteSet(KeyPlaces("old", t, x)),
         KeyPlaces("kept", f, x)' = KeyPlaces("old", t, x), KeyPlaces("old", t, x)' = KeyPlaces("kept", f, x),
         \A p, q : KeyOf(p, q) /\ <<p, q>> # <<"kept", f>> /\ <<p, q>> # <<"old", t>>
                      => KeyPlaces(p, q, x)' = KeyPlaces(p, q, x)
  PROVE  IsFiniteSet(ByRelations(x)') /\ Cardinality(ByRelations(x)') = Cardinality(ByRelations(x))
  <1>1. PICK A, B, C, D : /\ A = KeyPlaces("kept", f, x)
                          /\ B = KeyPlaces("old", t, x)
                          /\ C = KeyPlaces("kept", f, x)'
                          /\ D = KeyPlaces("old", t, x)'
    OBVIOUS
  <1>2. KeyOf("kept", f) /\ KeyOf("old", t) /\ <<"kept", f>> # <<"old", t>>
    BY DEF KeyOf
  <1>3. C = B /\ D = A
    BY <1>1
  <1>4. IsFiniteSet(A) /\ IsFiniteSet(B) /\ IsFiniteSet(C) /\ IsFiniteSet(D)
    BY <1>1, <1>3
  <1>5. RelationsPassed(x, A, B, C, D)
    BY <1>1, <1>2, <1>4, RelationsMove DEF RelationsPassed
  <1>6. RelationsPassed(x, A, B, B, A)
    BY <1>3, <1>5
  <1> QED
    BY <1>4, <1>6, RelationsPassedEqual

LEMMA RelationsDrop ==
  ASSUME NEW x, IsFiniteSet(ByRelations(x)), NEW t \in Threads, 
         IsFiniteSet(KeyPlaces("old", t, x)), IsFiniteSet(KeyPlaces("todo", t, x)),
         KeyPlaces("old", t, x)' = KeyPlaces("todo", t, x), KeyPlaces("todo", t, x)' = KeyPlaces("old", t, x),
         \A p, q : KeyOf(p, q) /\ <<p, q>> # <<"old", t>> /\ <<p, q>> # <<"todo", t>>
                      => KeyPlaces(p, q, x)' = KeyPlaces(p, q, x)
  PROVE  IsFiniteSet(ByRelations(x)') /\ Cardinality(ByRelations(x)') = Cardinality(ByRelations(x))
  <1>1. PICK A, B, C, D : /\ A = KeyPlaces("old", t, x)
                          /\ B = KeyPlaces("todo", t, x)
                          /\ C = KeyPlaces("old", t, x)'
                          /\ D = KeyPlaces("todo", t, x)'
    OBVIOUS
  <1>2. KeyOf("old", t) /\ KeyOf("todo", t) /\ <<"old", t>> # <<"todo", t>>
    BY DEF KeyOf
  <1>3. C = B /\ D = A
    BY <1>1
  <1>4. IsFiniteSet(A) /\ IsFiniteSet(B) /\ IsFiniteSet(C) /\ IsFiniteSet(D)
    BY <1>1, <1>3
  <1>5. RelationsPassed(x, A, B, C, D)
    BY <1>1, <1>2, <1>4, RelationsMove DEF RelationsPassed
  <1>6. RelationsPassed(x, A, B, B, A)
    BY <1>3, <1>5
  <1> QED
    BY <1>4, <1>6, RelationsPassedEqual

LEMMA ZeroMoves ==
  ASSUME Typed, Formed, NEW t \in Threads, OthersRest(t), Zero,
         \A x \in Exts : Physical(x)' /\ ext'[x].life = "freed" =>
                           Physical(x) /\ (ext[x].life = "freed" \/ x = th[t].del),
         \A x \in Exts : Physical(x) /\ ext[x].refs = 0 => ext'[x].refs = 0,
         th'[t].del = 0 \/ th'[t].del = th[t].del \/ ext'[th'[t].del].refs = 0
  PROVE  Zero'
  <1>1. \A u \in Threads : th[u].del # 0 => th[u].del \in Exts /\ Physical(th[u].del)
    BY Working
  <1>2. ASSUME NEW x \in Exts, Physical(x)', ext'[x].life = "freed"
        PROVE  ext'[x].refs = 0
    <2>1. Physical(x) /\ (ext[x].life = "freed" \/ x = th[t].del) /\ x # 0
      BY <1>2, Numerals
    <2>2. ext[x].refs = 0
      BY <2>1 DEF Zero
    <2> QED
      BY <2>1, <2>2
  <1>3. ASSUME NEW u \in Threads, th'[u].del # 0
        PROVE  ext'[th'[u].del].refs = 0
    <2>1. CASE th'[u].del = th[u].del
      <3>1. th[u].del \in Exts /\ Physical(th[u].del) /\ ext[th[u].del].refs = 0
        BY <1>1, <1>3, <2>1 DEF Zero
      <3> QED
        BY <2>1, <3>1
    <2>2. CASE th'[u].del # th[u].del
      <3>1. u = t
        BY <2>2 DEF OthersRest
      <3> QED
        BY <1>3, <2>2, <3>1
    <2> QED
      BY <2>1, <2>2
  <1> QED
    BY <1>2, <1>3 DEF Zero

\* A thread that has as much after the step as it had before it.
Exchanging == {"process", "record", "release", "spin"}
Lull(t) == /\ \A x \in Exts : SameUse(t, x)
           /\ SameDrop(t) /\ SameKeys(t)
           /\ Exchanged(t) # Null => th'[t].old = th[t].old
           /\ th[t].new # Null => Op(t)' = Op(t)
           /\ th'[t].del = 0 \/ th'[t].del = th[t].del

LEMMA LullSame ==
  ASSUME NEW t, th'[t].pc = th[t].pc, th'[t].ret = th[t].ret, KeepsUse(t), KeepsFound(t), KeepsOp(t),
         th'[t].del = 0 \/ th'[t].del = th[t].del
  PROVE  Lull(t)
  <1>1. (Owns(t)' <=> Owns(t)) /\ (Hooks(t)' <=> Hooks(t)) /\ Exchanged(t)' = Exchanged(t) /\ Op(t)' = Op(t)
    BY DEF Owns, Adds, Hooks, Exchanged, KeepsFound, KeepsOp, Op
  <1>2. \A x \in Exts : SameUse(t, x)
    BY <1>1, Zenon DEF SameUse, UsesBy, KeepsUse
  <1> QED
    BY <1>1, <1>2 DEF Lull, SameDrop, SameKeys, Drops, KeepsUse, KeepsFound

LEMMA LullIf ==
  ASSUME Typed, NEW t \in Threads, Owns(t)' <=> Owns(t), Hooks(t)' <=> Hooks(t),
         Owns(t) => th'[t].x = th[t].x, Hooks(t) => th'[t].h = th[t].h, ~Drops(t), ~Drops(t)',
         th[t].pc \notin Exchanging, th'[t].pc \notin Exchanging,
         th'[t].new = th[t].new, th'[t].todo = th[t].todo,
         th'[t].del = 0 \/ th'[t].del = th[t].del
  PROVE  Lull(t)
  <1>1. th[t].new = Null
    BY DEF Typed, Control, Standing, Exchanging
  <1>2. Exchanged(t)' = Null /\ Exchanged(t) = Null
    BY DEF Exchanged, Exchanging
  <1>3. \A x \in Exts : SameUse(t, x)
    BY Zenon DEF SameUse, UsesBy
  <1> QED
    BY <1>1, <1>2, <1>3 DEF Lull, SameDrop, SameKeys

LEMMA LullPasses ==
  ASSUME NEW t, Lull(t), \A x \in Exts : KeepsRelations(x)
  PROVE  Passes(t)
  <1>1. Exchanged(t)' = Null \/ (Exchanged(t)' = Exchanged(t) /\ th'[t].old = th[t].old)
    BY DEF Lull, SameKeys
  <1>2. th'[t].new = Null \/ (th'[t].new = th[t].new /\ Op(t)' = Op(t))
    BY DEF Lull, SameKeys
  <1>3. \A f \in Exts : ext'[f].shadow = ext[f].shadow /\ ext'[f].rels = ext[f].rels
    BY DEF KeepsRelations
  <1> QED
    BY <1>1, <1>2, <1>3 DEF Passes

\* Nothing is kept for an extension that is not live or virtual.
LEMMA KeptStays ==
  ASSUME Formed, NEW f \in Exts, KeepsRelations(f), KeepsLife(f) \/ Virtual(f)
  PROVE  Kept(f)' = Kept(f)
  <1>1. CASE KeepsLife(f)
    BY <1>1 DEF Kept, KeepsLife, KeepsRelations
  <1>2. CASE Virtual(f)
    <2>1. ext[f].shadow = Null /\ ext'[f].shadow = Null
      BY <1>2 DEF Formed, Extension, KeepsRelations
    <2> QED
      BY <2>1 DEF Kept
  <1> QED
    BY <1>1, <1>2

LEMMA CountsCalm ==
  ASSUME Typed, Formed, Counts, NEW t \in Threads, OthersRest(t), Lull(t),
         \A x \in Exts : /\ KeepsMake(x) /\ KeepsMark(x) /\ KeepsRelations(x) /\ KeepsCounts(x)
                         /\ KeepsLife(x) \/ (x = th[t].del /\ ext'[x].life = "freed")
  PROVE  Counts'
  <1>1. th[t].del # 0 => th[t].del \in Exts /\ Physical(th[t].del)
    BY Working
  <1>2. \A x \in Exts : x # 0
    BY Numerals
  <1>3. \A x \in Exts : KeepsLife(x) \/ (Physical(x) /\ x = th[t].del)
    BY <1>1, <1>2
  <1>4. \A x \in Exts : Physical(x)' => Physical(x)
    BY <1>3 DEF Physical, Made, Virtual, KeepsMake, KeepsLife
  <1>5. \A f \in Exts : Kept(f)' = Kept(f)
    BY <1>3, KeptStays DEF Physical
  <1>6. Relational'
    BY LullPasses, RelationalMoves DEF Counts
  <1>7. Zero'
    <2>1. \A x \in Exts : Physical(x)' /\ ext'[x].life = "freed" =>
                            Physical(x) /\ (ext[x].life = "freed" \/ x = th[t].del)
      BY <1>4 DEF KeepsLife
    <2>2. \A x \in Exts : Physical(x) /\ ext[x].refs = 0 => ext'[x].refs = 0
      BY DEF KeepsCounts
    <2> QED
      BY <2>1, <2>2, ZeroMoves DEF Counts, Lull
  <1>8. ASSUME NEW x \in Exts, Physical(x)'
        PROVE  Exact(x)'
    <2>1. Exact(x)
      BY <1>4, <1>8 DEF Counts
    <2>2. ByRelations(x)' = ByRelations(x)
      BY <1>5, RelationsStay DEF Lull
    <2>3. Initial(x)' = Initial(x)
      BY InitialStays DEF Lull
    <2>4. Filters(x)' = Filters(x)
      <3>1. \A f \in Exts : \/ KeepsMake(f) /\ KeepsLife(f)
                            \/ (Virtual(f) \/ ext[f].life # "live") /\ (Virtual(f)' \/ ext'[f].life # "live")
        BY <1>3 DEF Physical, Virtual, KeepsMake
      <3> QED
        BY <3>1, FiltersStay
    <2>5. Cardinality(Users(x)') = Cardinality(Users(x))
      BY UsersStay DEF Lull
    <2> QED
      BY <2>1, <2>2, <2>3, <2>4, <2>5, ExactStays DEF KeepsMake
  <1> QED
    BY <1>6, <1>7, <1>8 DEF Counts


-----------------------------------------------------------------------------
(* The counts: the actions that leave them alone *)

LEMMA CountsReleasedAll ==
  ASSUME Typed, Typed', Formed, Held, Held', Living, Living', Sound, Sound', Counts, NEW t \in Threads, OthersRest(t), ReleasedAll(t)
  PROVE  Counts'
  <1>1. \A x \in Exts : KeepsMake(x) /\ KeepsLife(x) /\ KeepsMark(x) /\ KeepsRelations(x) /\ KeepsCounts(x)
    BY EffectReleasedAll, Still
  <1>2. /\ th[t].pc \in {"releasing"} /\ th'[t].pc \in {"unlock", "hook", "cleared"} /\ th'[t].new = th[t].new /\ th'[t].todo = th[t].todo
        /\ th'[t].x = th[t].x /\ th'[t].h = th[t].h /\ th'[t].del = th[t].del
        /\ th'[t].ret = "hookstate" <=> th[t].ret = "hookstate"
    BY EffectReleasedAll, Holding DEF KeepsUse, KeepsFound, KeepsDel
  <1>3. Lull(t)
    BY <1>2, LullIf DEF Owns, Adds, Hooks, Drops, Exchanging
  <1> QED
    BY <1>1, <1>3, CountsCalm

LEMMA CountsDispatchRequest ==
  ASSUME Typed, Typed', Formed, Held, Held', Living, Living', Sound, Sound', Counts, NEW t \in Threads, OthersRest(t), DispatchRequest(t)
  PROVE  Counts'
  <1>1. \A x \in Exts : KeepsMake(x) /\ KeepsLife(x) /\ KeepsMark(x) /\ KeepsRelations(x) /\ KeepsCounts(x)
    BY EffectDispatchRequest, Still
  <1>2. /\ th[t].pc \in {"next"} /\ th'[t].pc \in {"sent", "done"} /\ th'[t].new = th[t].new /\ th'[t].todo = th[t].todo
        /\ th'[t].x = th[t].x /\ th'[t].h = th[t].h /\ th'[t].del = th[t].del
        /\ th'[t].ret = "hookstate" <=> th[t].ret = "hookstate"
    BY EffectDispatchRequest, Holding DEF KeepsUse, KeepsFound, KeepsDel
  <1>3. Lull(t)
    BY <1>2, LullIf DEF Owns, Adds, Hooks, Drops, Exchanging
  <1> QED
    BY <1>1, <1>3, CountsCalm

LEMMA CountsFilterPass ==
  ASSUME Typed, Typed', Formed, Held, Held', Living, Living', Sound, Sound', Counts, NEW t \in Threads, OthersRest(t), FilterPass(t)
  PROVE  Counts'
  <1>1. \A x \in Exts : KeepsMake(x) /\ KeepsLife(x) /\ KeepsMark(x) /\ KeepsRelations(x) /\ KeepsCounts(x)
    BY EffectFilterPass, Still
  <1>2. /\ th[t].pc \in {"sent"} /\ th'[t].pc \in {"done"} /\ th'[t].new = th[t].new /\ th'[t].todo = th[t].todo
        /\ th'[t].x = th[t].x /\ th'[t].h = th[t].h /\ th'[t].del = th[t].del
        /\ th'[t].ret = "hookstate" <=> th[t].ret = "hookstate"
    BY EffectFilterPass, Holding DEF KeepsUse, KeepsFound, KeepsDel
  <1>3. Lull(t)
    BY <1>2, LullIf DEF Owns, Adds, Hooks, Drops, Exchanging
  <1> QED
    BY <1>1, <1>3, CountsCalm

LEMMA CountsQueryCompleted ==
  ASSUME Typed, Typed', Formed, Held, Held', Living, Living', Sound, Sound', Counts, NEW t \in Threads, OthersRest(t), QueryCompleted(t)
  PROVE  Counts'
  <1>1. \A x \in Exts : KeepsMake(x) /\ KeepsLife(x) /\ KeepsMark(x) /\ KeepsRelations(x) /\ KeepsCounts(x)
    BY EffectQueryCompleted, Still
  <1>2. /\ th[t].pc \in {"unlock"} /\ th'[t].pc \in {"done"} /\ th'[t].new = th[t].new /\ th'[t].todo = th[t].todo
        /\ th'[t].x = th[t].x /\ th'[t].h = th[t].h /\ th'[t].del = th[t].del
        /\ th'[t].ret = "hookstate" <=> th[t].ret = "hookstate"
    BY EffectQueryCompleted, Holding DEF KeepsUse, KeepsFound, KeepsDel
  <1>3. Lull(t)
    BY <1>2, LullIf DEF Owns, Adds, Hooks, Drops, Exchanging
  <1> QED
    BY <1>1, <1>3, CountsCalm

LEMMA CountsStartDevice ==
  ASSUME Typed, Typed', Formed, Held, Held', Living, Living', Sound, Sound', Counts, NEW t \in Threads, OthersRest(t), StartDevice(t)
  PROVE  Counts'
  <1>1. \A x \in Exts : KeepsMake(x) /\ KeepsLife(x) /\ KeepsMark(x) /\ KeepsRelations(x) /\ KeepsCounts(x)
    BY EffectStartDevice, Still
  <1>2. /\ th[t].pc \in {"next"} /\ th'[t].pc \in {"hook"} /\ th'[t].new = th[t].new /\ th'[t].todo = th[t].todo
        /\ th'[t].x = th[t].x /\ th'[t].h = th[t].h /\ th'[t].del = th[t].del
        /\ th'[t].ret = "hookstate" <=> th[t].ret = "hookstate"
    BY EffectStartDevice, Holding DEF KeepsUse, KeepsFound, KeepsDel
  <1>3. Lull(t)
    BY <1>2, LullIf DEF Owns, Adds, Hooks, Drops, Exchanging
  <1> QED
    BY <1>1, <1>3, CountsCalm

LEMMA CountsStarted ==
  ASSUME Typed, Typed', Formed, Held, Held', Living, Living', Sound, Sound', Counts, NEW t \in Threads, OthersRest(t), Started(t)
  PROVE  Counts'
  <1>1. \A x \in Exts : KeepsMake(x) /\ KeepsLife(x) /\ KeepsMark(x) /\ KeepsRelations(x) /\ KeepsCounts(x)
    BY EffectStarted, Still
  <1>2. /\ th[t].pc \in {"started"} /\ th'[t].pc \in {"done"} /\ th'[t].new = th[t].new /\ th'[t].todo = th[t].todo
        /\ th'[t].x = th[t].x /\ th'[t].h = th[t].h /\ th'[t].del = th[t].del
        /\ th'[t].ret = "hookstate" <=> th[t].ret = "hookstate"
    BY EffectStarted, Holding DEF KeepsUse, KeepsFound, KeepsDel
  <1>3. Lull(t)
    BY <1>2, LullIf DEF Owns, Adds, Hooks, Drops, Exchanging
  <1> QED
    BY <1>1, <1>3, CountsCalm

LEMMA CountsRemoveDevice ==
  ASSUME Typed, Typed', Formed, Held, Held', Living, Living', Sound, Sound', Counts, NEW t \in Threads, OthersRest(t), RemoveDevice(t)
  PROVE  Counts'
  <1>1. \A x \in Exts : KeepsMake(x) /\ KeepsLife(x) /\ KeepsMark(x) /\ KeepsRelations(x) /\ KeepsCounts(x)
    BY EffectRemoveDevice, Still
  <1>2. /\ th[t].pc \in {"next"} /\ th'[t].pc \in {"closing", "done"} /\ th'[t].new = th[t].new /\ th'[t].todo = th[t].todo
        /\ th'[t].x = th[t].x /\ th'[t].h = th[t].h /\ th'[t].del = th[t].del
        /\ th'[t].ret = "hookstate" <=> th[t].ret = "hookstate"
    BY EffectRemoveDevice, Holding DEF KeepsUse, KeepsFound, KeepsDel
  <1>3. Lull(t)
    BY <1>2, LullIf DEF Owns, Adds, Hooks, Drops, Exchanging
  <1> QED
    BY <1>1, <1>3, CountsCalm

LEMMA CountsFastIoDetachDevice ==
  ASSUME Typed, Typed', Formed, Held, Held', Living, Living', Sound, Sound', Counts, NEW t \in Threads, OthersRest(t), FastIoDetachDevice(t)
  PROVE  Counts'
  <1>1. \A x \in Exts : KeepsMake(x) /\ KeepsLife(x) /\ KeepsMark(x) /\ KeepsRelations(x) /\ KeepsCounts(x)
    BY EffectFastIoDetachDevice, Still
  <1>2. /\ th[t].pc \in {"next"} /\ th'[t].pc \in {"closing", "done"} /\ th'[t].new = th[t].new /\ th'[t].todo = th[t].todo
        /\ th'[t].x = th[t].x /\ th'[t].h = th[t].h /\ th'[t].del = th[t].del
        /\ th'[t].ret = "hookstate" <=> th[t].ret = "hookstate"
    BY EffectFastIoDetachDevice, Holding DEF KeepsUse, KeepsFound, KeepsDel
  <1>3. Lull(t)
    BY <1>2, LullIf DEF Owns, Adds, Hooks, Drops, Exchanging
  <1> QED
    BY <1>1, <1>3, CountsCalm

LEMMA CountsRemoveDeviceFromTheList ==
  ASSUME Typed, Typed', Formed, Held, Held', Living, Living', Sound, Sound', Counts, NEW t \in Threads, OthersRest(t), RemoveDeviceFromTheList(t)
  PROVE  Counts'
  <1>1. \A x \in Exts : KeepsMake(x) /\ KeepsLife(x) /\ KeepsMark(x) /\ KeepsRelations(x) /\ KeepsCounts(x)
    BY EffectRemoveDeviceFromTheList, Still
  <1>2. /\ th[t].pc \in {"closing"} /\ th'[t].pc \in {"free"} /\ th'[t].new = th[t].new /\ th'[t].todo = th[t].todo
        /\ th'[t].x = th[t].x /\ th'[t].h = th[t].h /\ th'[t].del = th[t].del
        /\ th'[t].ret = "hookstate" <=> th[t].ret = "hookstate"
    BY EffectRemoveDeviceFromTheList, Holding DEF KeepsUse, KeepsFound, KeepsDel
  <1>3. Lull(t)
    BY <1>2, LullIf DEF Owns, Adds, Hooks, Drops, Exchanging
  <1> QED
    BY <1>1, <1>3, CountsCalm

LEMMA CountsSetPdoState ==
  ASSUME Typed, Typed', Formed, Held, Held', Living, Living', Sound, Sound', Counts, NEW t \in Threads, OthersRest(t), SetPdoState(t)
  PROVE  Counts'
  <1>1. \A x \in Exts : KeepsMake(x) /\ KeepsLife(x) /\ KeepsMark(x) /\ KeepsRelations(x) /\ KeepsCounts(x)
    BY EffectSetPdoState, Still
  <1>2. /\ th[t].pc \in {"hookstate"} /\ th'[t].pc \in {"hooked"} /\ th'[t].new = th[t].new /\ th'[t].todo = th[t].todo
        /\ th'[t].x = th[t].x /\ th'[t].h = th[t].h /\ th'[t].del = th[t].del
        /\ th'[t].ret = "hookstate" <=> th[t].ret = "hookstate"
    BY EffectSetPdoState, Holding DEF KeepsUse, KeepsFound, KeepsDel
  <1>3. Lull(t)
    BY <1>2, LullIf DEF Owns, Adds, Hooks, Drops, Exchanging
  <1> QED
    BY <1>1, <1>3, CountsCalm

LEMMA CountsDriverUnloadHook ==
  ASSUME Typed, Typed', Formed, Held, Held', Living, Living', Sound, Sound', Counts, NEW t \in Threads, OthersRest(t), DriverUnloadHook(t)
  PROVE  Counts'
  <1>1. \A x \in Exts : KeepsMake(x) /\ KeepsLife(x) /\ KeepsMark(x) /\ KeepsRelations(x) /\ KeepsCounts(x)
    BY EffectDriverUnloadHook, Still
  <1>2. /\ th[t].pc \in {"next"} /\ th'[t].pc \in {"done"} /\ th'[t].new = th[t].new /\ th'[t].todo = th[t].todo
        /\ th'[t].x = th[t].x /\ th'[t].h = th[t].h /\ th'[t].del = th[t].del
        /\ th'[t].ret = "hookstate" <=> th[t].ret = "hookstate"
    BY EffectDriverUnloadHook, Holding DEF KeepsUse, KeepsFound, KeepsDel
  <1>3. Lull(t)
    BY <1>2, LullIf DEF Owns, Adds, Hooks, Drops, Exchanging
  <1> QED
    BY <1>1, <1>3, CountsCalm

LEMMA CountsAddDevice ==
  ASSUME Typed, Typed', Formed, Held, Held', Living, Living', Sound, Sound', Counts, NEW t \in Threads, OthersRest(t), AddDevice(t)
  PROVE  Counts'
  <1>1. \A x \in Exts : KeepsMake(x) /\ KeepsLife(x) /\ KeepsMark(x) /\ KeepsRelations(x) /\ KeepsCounts(x)
    BY EffectAddDevice, Still
  <1>2. /\ th[t].pc \in {"next"} /\ th'[t].pc \in {"find", "done"} /\ th'[t].new = th[t].new /\ th'[t].todo = th[t].todo
        /\ th'[t].x = th[t].x /\ th'[t].h = th[t].h /\ th'[t].del = th[t].del
        /\ th'[t].ret = "hookstate" <=> th[t].ret = "hookstate"
    BY EffectAddDevice, Holding DEF KeepsUse, KeepsFound, KeepsDel
  <1>3. Lull(t)
    BY <1>2, LullIf DEF Owns, Adds, Hooks, Drops, Exchanging
  <1> QED
    BY <1>1, <1>3, CountsCalm

LEMMA CountsAddFails ==
  ASSUME Typed, Typed', Formed, Held, Held', Living, Living', Sound, Sound', Counts, NEW t \in Threads, OthersRest(t), AddFails(t)
  PROVE  Counts'
  <1>1. \A x \in Exts : KeepsMake(x) /\ KeepsLife(x) /\ KeepsMark(x) /\ KeepsRelations(x) /\ KeepsCounts(x)
    BY EffectAddFails, Still
  <1>2. /\ th[t].pc \in {"create"} /\ th'[t].pc \in {"delete", "deref"} /\ th'[t].new = th[t].new /\ th'[t].todo = th[t].todo
        /\ th'[t].x = th[t].x /\ th'[t].h = th[t].h /\ th'[t].del = th[t].del
        /\ th'[t].ret = "hookstate" <=> th[t].ret = "hookstate"
    BY EffectAddFails, Holding DEF KeepsUse, KeepsFound, KeepsDel
  <1>3. Lull(t)
    BY <1>2, LullIf DEF Owns, Adds, Hooks, Drops, Exchanging
  <1> QED
    BY <1>1, <1>3, CountsCalm

LEMMA CountsReportAddedDevice ==
  ASSUME Typed, Typed', Formed, Held, Held', Living, Living', Sound, Sound', Counts, NEW t \in Threads, OthersRest(t), ReportAddedDevice(t)
  PROVE  Counts'
  <1>1. \A x \in Exts : KeepsMake(x) /\ KeepsLife(x) /\ KeepsMark(x) /\ KeepsRelations(x) /\ KeepsCounts(x)
    BY EffectReportAddedDevice, Still
  <1>2. /\ th[t].pc \in {"report"} /\ th'[t].pc \in {"insert"} /\ th'[t].new = th[t].new /\ th'[t].todo = th[t].todo
        /\ th'[t].x = th[t].x /\ th'[t].h = th[t].h /\ th'[t].del = th[t].del
        /\ th'[t].ret = "hookstate" <=> th[t].ret = "hookstate"
    BY EffectReportAddedDevice, Holding DEF KeepsUse, KeepsFound, KeepsDel
  <1>3. Lull(t)
    BY <1>2, LullIf DEF Owns, Adds, Hooks, Drops, Exchanging
  <1> QED
    BY <1>1, <1>3, CountsCalm

LEMMA CountsInsertInList ==
  ASSUME Typed, Typed', Formed, Held, Held', Living, Living', Sound, Sound', Counts, NEW t \in Threads, OthersRest(t), InsertInList(t)
  PROVE  Counts'
  <1>1. \A x \in Exts : KeepsMake(x) /\ KeepsLife(x) /\ KeepsMark(x) /\ KeepsRelations(x) /\ KeepsCounts(x)
    BY EffectInsertInList, Still
  <1>2. /\ th[t].pc \in {"insert"} /\ th'[t].pc \in {"added"} /\ th'[t].new = th[t].new /\ th'[t].todo = th[t].todo
        /\ th'[t].x = th[t].x /\ th'[t].h = th[t].h /\ th'[t].del = th[t].del
        /\ th'[t].ret = "hookstate" <=> th[t].ret = "hookstate"
    BY EffectInsertInList, Holding DEF KeepsUse, KeepsFound, KeepsDel
  <1>3. Lull(t)
    BY <1>2, LullIf DEF Owns, Adds, Hooks, Drops, Exchanging
  <1> QED
    BY <1>1, <1>3, CountsCalm

LEMMA CountsAddedDevice ==
  ASSUME Typed, Typed', Formed, Held, Held', Living, Living', Sound, Sound', Counts, NEW t \in Threads, OthersRest(t), AddedDevice(t)
  PROVE  Counts'
  <1>1. \A x \in Exts : KeepsMake(x) /\ KeepsLife(x) /\ KeepsMark(x) /\ KeepsRelations(x) /\ KeepsCounts(x)
    BY EffectAddedDevice, Still
  <1>2. /\ th[t].pc \in {"added"} /\ th'[t].pc \in {"deref"} /\ th'[t].new = th[t].new /\ th'[t].todo = th[t].todo
        /\ th'[t].x = th[t].x /\ th'[t].h = th[t].h /\ th'[t].del = th[t].del
        /\ th'[t].ret = "hookstate" <=> th[t].ret = "hookstate"
    BY EffectAddedDevice, Holding DEF KeepsUse, KeepsFound, KeepsDel
  <1>3. Lull(t)
    BY <1>2, LullIf DEF Owns, Adds, Hooks, Drops, Exchanging
  <1> QED
    BY <1>1, <1>3, CountsCalm

LEMMA CountsReportExisitingDevices ==
  ASSUME Typed, Typed', Formed, Held, Held', Living, Living', Sound, Sound', Counts, NEW t \in Threads, OthersRest(t), ReportExisitingDevices(t)
  PROVE  Counts'
  <1>1. \A x \in Exts : KeepsMake(x) /\ KeepsLife(x) /\ KeepsMark(x) /\ KeepsRelations(x) /\ KeepsCounts(x)
    BY EffectReportExisitingDevices, Still
  <1>2. /\ th[t].pc \in {"next"} /\ th'[t].pc \in {"walk"} /\ th'[t].new = th[t].new /\ th'[t].todo = th[t].todo
        /\ th'[t].x = th[t].x /\ th'[t].h = th[t].h /\ th'[t].del = th[t].del
        /\ th'[t].ret = "hookstate" <=> th[t].ret = "hookstate"
    BY EffectReportExisitingDevices, Holding DEF KeepsUse, KeepsFound, KeepsDel
  <1>3. Lull(t)
    BY <1>2, LullIf DEF Owns, Adds, Hooks, Drops, Exchanging
  <1> QED
    BY <1>1, <1>3, CountsCalm

LEMMA CountsNextReportedDevice ==
  ASSUME Typed, Typed', Formed, Held, Held', Living, Living', Sound, Sound', Counts, NEW t \in Threads, OthersRest(t), NextReportedDevice(t)
  PROVE  Counts'
  <1>1. \A x \in Exts : KeepsMake(x) /\ KeepsLife(x) /\ KeepsMark(x) /\ KeepsRelations(x) /\ KeepsCounts(x)
    BY EffectNextReportedDevice, Still
  <1>2. /\ th[t].pc \in {"walk"} /\ th'[t].pc \in {"crash", "done", "tell"} /\ th'[t].new = th[t].new /\ th'[t].todo = th[t].todo
        /\ th'[t].x = th[t].x /\ th'[t].h = th[t].h /\ th'[t].del = th[t].del
        /\ th'[t].ret = "hookstate" <=> th[t].ret = "hookstate"
    BY EffectNextReportedDevice, Holding DEF KeepsUse, KeepsFound, KeepsDel
  <1>3. Lull(t)
    BY <1>2, LullIf DEF Owns, Adds, Hooks, Drops, Exchanging
  <1> QED
    BY <1>1, <1>3, CountsCalm

LEMMA CountsReportExistingDevice ==
  ASSUME Typed, Typed', Formed, Held, Held', Living, Living', Sound, Sound', Counts, NEW t \in Threads, OthersRest(t), ReportExistingDevice(t)
  PROVE  Counts'
  <1>1. \A x \in Exts : KeepsMake(x) /\ KeepsLife(x) /\ KeepsMark(x) /\ KeepsRelations(x) /\ KeepsCounts(x)
    BY EffectReportExistingDevice, Still
  <1>2. /\ th[t].pc \in {"tell"} /\ th'[t].pc \in {"read"} /\ th'[t].new = th[t].new /\ th'[t].todo = th[t].todo
        /\ th'[t].x = th[t].x /\ th'[t].h = th[t].h /\ th'[t].del = th[t].del
        /\ th'[t].ret = "hookstate" <=> th[t].ret = "hookstate"
    BY EffectReportExistingDevice, Holding DEF KeepsUse, KeepsFound, KeepsDel
  <1>3. Lull(t)
    BY <1>2, LullIf DEF Owns, Adds, Hooks, Drops, Exchanging
  <1> QED
    BY <1>1, <1>3, CountsCalm

LEMMA CountsReadState ==
  ASSUME Typed, Typed', Formed, Held, Held', Living, Living', Sound, Sound', Counts, NEW t \in Threads, OthersRest(t), ReadState(t)
  PROVE  Counts'
  <1>1. \A x \in Exts : KeepsMake(x) /\ KeepsLife(x) /\ KeepsMark(x) /\ KeepsRelations(x) /\ KeepsCounts(x)
    BY EffectReadState, Still
  <1>2. /\ th[t].pc \in {"read"} /\ th'[t].pc \in {"state"} /\ th'[t].new = th[t].new /\ th'[t].todo = th[t].todo
        /\ th'[t].x = th[t].x /\ th'[t].h = th[t].h /\ th'[t].del = th[t].del
        /\ th'[t].ret = "hookstate" <=> th[t].ret = "hookstate"
    BY EffectReadState, Holding DEF KeepsUse, KeepsFound, KeepsDel
  <1>3. Lull(t)
    BY <1>2, LullIf DEF Owns, Adds, Hooks, Drops, Exchanging
  <1> QED
    BY <1>1, <1>3, CountsCalm

LEMMA CountsReportExistingState ==
  ASSUME Typed, Typed', Formed, Held, Held', Living, Living', Sound, Sound', Counts, NEW t \in Threads, OthersRest(t), ReportExistingState(t)
  PROVE  Counts'
  <1>1. \A x \in Exts : KeepsMake(x) /\ KeepsLife(x) /\ KeepsMark(x) /\ KeepsRelations(x) /\ KeepsCounts(x)
    BY EffectReportExistingState, Still
  <1>2. /\ th[t].pc \in {"state"} /\ th'[t].pc \in {"walk"} /\ th'[t].new = th[t].new /\ th'[t].todo = th[t].todo
        /\ th'[t].x = th[t].x /\ th'[t].h = th[t].h /\ th'[t].del = th[t].del
        /\ th'[t].ret = "hookstate" <=> th[t].ret = "hookstate"
    BY EffectReportExistingState, Holding DEF KeepsUse, KeepsFound, KeepsDel
  <1>3. Lull(t)
    BY <1>2, LullIf DEF Owns, Adds, Hooks, Drops, Exchanging
  <1> QED
    BY <1>1, <1>3, CountsCalm

LEMMA CountsDone ==
  ASSUME Typed, Typed', Formed, Held, Held', Living, Living', Sound, Sound', Counts, NEW t \in Threads, OthersRest(t), Done(t)
  PROVE  Counts'
  <1>1. \A x \in Exts : KeepsMake(x) /\ KeepsLife(x) /\ KeepsMark(x) /\ KeepsRelations(x) /\ KeepsCounts(x)
    BY EffectDone, Still
  <1>2. /\ th[t].pc = "done" /\ th[t].ret # "hookstate" /\ th'[t].pc = "next" /\ th'[t].ret = "done"
        /\ th'[t].del = 0 /\ th'[t].new = Null /\ th'[t].todo = <<>>
    BY EffectDone, Holding
  <1>3. th[t].new = Null /\ th[t].todo = <<>>
    BY <1>2 DEF Typed, Control, Standing
  <1>4. Lull(t)
    BY <1>2, <1>3, LullIf DEF Owns, Adds, Hooks, Drops, Exchanging
  <1> QED
    BY <1>1, <1>4, CountsCalm

LEMMA CountsCloseVirtualPdo ==
  ASSUME Typed, Typed', Formed, Held, Held', Living, Living', Sound, Sound', Counts, NEW t \in Threads, OthersRest(t), CloseVirtualPdo(t)
  PROVE  Counts'
  <1>1. /\ th'[t].pc = th[t].pc /\ th'[t].ret = th[t].ret /\ KeepsUse(t) /\ KeepsFound(t) /\ KeepsOp(t)
        /\ th[t].del # 0
        /\ th'[t].del = 0 \/ th'[t].del = th[t].del
    BY EffectCloseVirtualPdo
  <1>2. Lull(t)
    BY <1>1, LullSame
  <1>3. \A x \in Exts : KeepsMake(x) /\ KeepsLife(x) /\ KeepsMark(x) /\ KeepsRelations(x) /\ KeepsCounts(x)
    BY EffectCloseVirtualPdo
  <1> QED
    BY <1>2, <1>3, CountsCalm

LEMMA CountsDeleteVirtualPdoByExtensionInternal ==
  ASSUME Typed, Typed', Formed, Held, Held', Living, Living', Sound, Sound', Counts, NEW t \in Threads, OthersRest(t), DeleteVirtualPdoByExtensionInternal(t)
  PROVE  Counts'
  <1>1. /\ th'[t].pc = th[t].pc /\ th'[t].ret = th[t].ret /\ KeepsUse(t) /\ KeepsFound(t) /\ KeepsOp(t)
        /\ th[t].del # 0
        /\ th'[t].del = 0 \/ th'[t].del = th[t].del
    BY EffectDeleteVirtualPdoByExtensionInternal
  <1>2. Lull(t)
    BY <1>1, LullSame
  <1>3. \A x \in Exts : KeepsMake(x) /\ KeepsMark(x) /\ KeepsRelations(x) /\ KeepsCounts(x) /\ (KeepsLife(x) \/ (x = th[t].del /\ ext'[x].life = "freed"))
    BY EffectDeleteVirtualPdoByExtensionInternal DEF KeepsLife
  <1> QED
    BY <1>2, <1>3, CountsCalm

LEMMA CountsRender ==
  ASSUME Typed, Typed', Formed, Held, Held', Living, Living', Sound, Sound', Counts, NEW t \in Threads, OthersRest(t), Render(t)
  PROVE  Counts'
  <1>1. /\ th'[t].pc = th[t].pc /\ th'[t].ret = th[t].ret /\ KeepsUse(t) /\ KeepsFound(t) /\ KeepsOp(t)
        /\ th[t].del # 0
        /\ th'[t].del = 0 \/ th'[t].del = th[t].del
    BY EffectRender
  <1>2. Lull(t)
    BY <1>1, LullSame
  <1>3. PICK d \in Exts : d = th[t].del /\ Physical(d)
    BY <1>1, Working
  <1>4. ext[d].marked
    <2>1. Exact(d) /\ ext[d].refs = 0
      BY <1>1, <1>3 DEF Counts, Zero
    <2> QED
      BY <2>1, Bare
  <1>5. \A x \in Exts : KeepsMake(x) /\ KeepsLife(x) /\ KeepsRelations(x) /\ KeepsCounts(x)
    BY EffectRender
  <1>6. ASSUME NEW x \in Exts
        PROVE  KeepsMark(x)
    <2>1. ext'[x].marked = (IF x = d THEN TRUE ELSE ext[x].marked) /\ ext[x].marked \in BOOLEAN /\ ext[d].marked \in BOOLEAN
      <3>1. PICK p, q \in ExtTypes : p = ext[x] /\ q = ext[d]
        BY DEF Typed, Types
      <3>2. p.marked \in BOOLEAN /\ q.marked \in BOOLEAN
        BY DEF ExtTypes
      <3> QED
        BY <1>3, <3>1, <3>2, EffectRender
    <2> QED
      BY <1>4, <2>1 DEF KeepsMark
  <1> QED
    BY <1>2, <1>5, <1>6, CountsCalm

-----------------------------------------------------------------------------
(* The counts: the steps that change them *)

Delta(x, i, f, r, u) ==
  /\ Initial(x)' = Initial(x) + i
  /\ Cardinality(Filters(x)') = Cardinality(Filters(x)) + f
  /\ IsFiniteSet(ByRelations(x)') /\ Cardinality(ByRelations(x)') = Cardinality(ByRelations(x)) + r
  /\ Cardinality(Users(x)') = Cardinality(Users(x)) + u
  /\ ext'[x].refs = ext[x].refs + (i + f + r + u)
  /\ ext'[x].rel = ext[x].rel + (f + r)

LEMMA ExactDelta ==
  ASSUME Typed, Typed', NEW x \in Exts, Exact(x), ext'[x].kind = ext[x].kind,
         NEW i \in Int, NEW f \in Int, NEW r \in Int, NEW u \in Int, Delta(x, i, f, r, u)
  PROVE  Exact(x)'
  <1>1. /\ Cardinality(Filters(x)) \in Int /\ Cardinality(Users(x)) \in Int
        /\ Cardinality(ByRelations(x)) \in Int /\ Initial(x) \in Int
    BY HoldsFinite, FS_CardinalityType DEF Exact, Initial
  <1>2. ext[x].refs \in Int /\ ext[x].rel \in Int
    BY ExtNumbers DEF Typed, Types
  <1>3. PICK a, b, c, d, e, g \in Int :
           /\ a = Initial(x) /\ b = Cardinality(Filters(x)) /\ c = Cardinality(ByRelations(x)) /\ d = Cardinality(Users(x))
           /\ e = ext[x].refs /\ g = ext[x].rel
    BY <1>1, <1>2
  <1>4. e = a + b + c + d /\ g = (IF ext[x].kind = "pdo" THEN 1 ELSE 0) + b + c
    BY <1>3 DEF Exact
  <1>5. /\ Initial(x)' = a + i /\ Cardinality(Filters(x)') = b + f /\ IsFiniteSet(ByRelations(x)')
        /\ Cardinality(ByRelations(x)') = c + r /\ Cardinality(Users(x)') = d + u
        /\ ext'[x].refs = e + (i + f + r + u) /\ ext'[x].rel = g + (f + r)
    BY <1>3, Zenon DEF Delta
  <1>6. e + (i + f + r + u) = (a + i) + (b + f) + (c + r) + (d + u)
    BY <1>4
  <1>7. g + (f + r) = (IF ext'[x].kind = "pdo" THEN 1 ELSE 0) + (b + f) + (c + r)
    BY <1>4
  <1> QED
    BY <1>5, <1>6, <1>7 DEF Exact

\* A reference goes from one to another, or a thread gets or gives back one.
LEMMA CountsUse ==
  ASSUME Typed, Typed', Formed, Counts, NEW t \in Threads, OthersRest(t), SameKeys(t),
         Exchanged(t) # Null => th'[t].old = th[t].old, th[t].new # Null => Op(t)' = Op(t),
         \A x \in Exts : /\ KeepsMake(x) /\ KeepsLife(x) /\ KeepsRelations(x)
                         /\ ext'[x].rel = ext[x].rel,
         \A x \in Exts : Physical(x) => \E i, u \in Int : /\ Initial(x)' = Initial(x) + i
                                                          /\ Cardinality(Users(x)') = Cardinality(Users(x)) + u
                                                          /\ ext'[x].refs = ext[x].refs + (i + u),
         \A x \in Exts : Physical(x) /\ ext[x].refs = 0 => ext'[x].refs = 0,
         th'[t].del = 0 \/ th'[t].del = th[t].del \/ ext'[th'[t].del].refs = 0
  PROVE  Counts'
  <1>1. Passes(t)
    <2>1. Exchanged(t)' = Null \/ (Exchanged(t)' = Exchanged(t) /\ th'[t].old = th[t].old)
      BY DEF SameKeys
    <2>2. th'[t].new = Null \/ (th'[t].new = th[t].new /\ Op(t)' = Op(t))
      BY DEF SameKeys
    <2>3. \A f \in Exts : ext'[f].shadow = ext[f].shadow /\ ext'[f].rels = ext[f].rels
      BY DEF KeepsRelations
    <2> QED
      BY <2>1, <2>2, <2>3 DEF Passes
  <1>2. Relational'
    BY <1>1, RelationalMoves DEF Counts
  <1>3. \A x \in Exts : Physical(x)' <=> Physical(x)
    BY DEF Physical, Made, Virtual, KeepsMake, KeepsLife
  <1>4. Zero'
    <2>1. \A x \in Exts : Physical(x)' /\ ext'[x].life = "freed" =>
                            Physical(x) /\ (ext[x].life = "freed" \/ x = th[t].del)
      BY <1>3 DEF KeepsLife
    <2> QED
      BY <2>1, ZeroMoves DEF Counts
  <1>5. \A f \in Exts : Kept(f)' = Kept(f)
    BY KeptStays
  <1>6. ASSUME NEW x \in Exts, Physical(x)'
        PROVE  Exact(x)'
    <2>1. Exact(x) /\ Physical(x)
      BY <1>3, <1>6 DEF Counts
    <2>2. ByRelations(x)' = ByRelations(x)
      BY <1>5, RelationsStay
    <2>3. Filters(x)' = Filters(x)
      BY FiltersStay
    <2>4. PICK i, u \in Int : /\ Initial(x)' = Initial(x) + i
                              /\ Cardinality(Users(x)') = Cardinality(Users(x)) + u
                              /\ ext'[x].refs = ext[x].refs + (i + u)
      BY <2>1
    <2>5. Cardinality(Filters(x)) \in Int /\ Cardinality(ByRelations(x)) \in Int /\ ext[x].rel \in Int /\ ext[x].refs \in Int
      BY <2>1, HoldsFinite, FS_CardinalityType, ExtNumbers DEF Exact, Typed, Types
    <2>6. i + u = i + 0 + 0 + u /\ 0 \in Int
      OBVIOUS
    <2>7. Cardinality(Filters(x)') = Cardinality(Filters(x)) + 0
          /\ Cardinality(ByRelations(x)') = Cardinality(ByRelations(x)) + 0 /\ ext'[x].rel = ext[x].rel + (0 + 0)
      BY <2>2, <2>3, <2>5
    <2>8. Delta(x, i, 0, 0, u)
      BY <2>1, <2>2, <2>4, <2>6, <2>7 DEF Delta, Exact
    <2>9. ext'[x].kind = ext[x].kind
      BY DEF KeepsMake
    <2> QED
      BY <2>1, <2>6, <2>8, <2>9, ExactDelta
  <1> QED
    BY <1>2, <1>4, <1>6 DEF Counts

\* Relations are found, kept or released.
LEMMA CountsRelate ==
  ASSUME Typed, Typed', Formed, Counts, NEW t \in Threads, OthersRest(t), Passes(t), SameDrop(t),
         \A x \in Exts : SameUse(t, x),
         \A x \in Exts : KeepsMake(x) /\ KeepsLife(x) /\ KeepsMark(x),
         \A x \in Exts : Physical(x) =>
           \E r \in Int : /\ IsFiniteSet(ByRelations(x)')
                          /\ Cardinality(ByRelations(x)') = Cardinality(ByRelations(x)) + r
                          /\ ext'[x].refs = ext[x].refs + r /\ ext'[x].rel = ext[x].rel + r,
         \A x \in Exts : Physical(x) /\ ext[x].refs = 0 => ext'[x].refs = 0,
         th'[t].del = 0 \/ th'[t].del = th[t].del \/ ext'[th'[t].del].refs = 0
  PROVE  Counts'
  <1>2. Relational'
    BY RelationalMoves DEF Counts
  <1>3. \A x \in Exts : Physical(x)' <=> Physical(x)
    BY DEF Physical, Made, Virtual, KeepsMake, KeepsLife
  <1>4. Zero'
    <2>1. \A x \in Exts : Physical(x)' /\ ext'[x].life = "freed" =>
                            Physical(x) /\ (ext[x].life = "freed" \/ x = th[t].del)
      BY <1>3 DEF KeepsLife
    <2> QED
      BY <2>1, ZeroMoves DEF Counts
  <1>6. ASSUME NEW x \in Exts, Physical(x)'
        PROVE  Exact(x)'
    <2>1. Exact(x) /\ Physical(x)
      BY <1>3, <1>6 DEF Counts
    <2>2. Initial(x)' = Initial(x)
      BY InitialStays
    <2>3. Filters(x)' = Filters(x)
      BY FiltersStay
    <2>4. Cardinality(Users(x)') = Cardinality(Users(x))
      BY UsersStay
    <2>5. PICK r \in Int : /\ IsFiniteSet(ByRelations(x)')
                           /\ Cardinality(ByRelations(x)') = Cardinality(ByRelations(x)) + r
                           /\ ext'[x].refs = ext[x].refs + r /\ ext'[x].rel = ext[x].rel + r
      BY <2>1
    <2>6. Cardinality(Filters(x)) \in Int /\ Cardinality(Users(x)) \in Int /\ Initial(x) \in Int
      BY HoldsFinite DEF Initial
    <2>7. r = 0 + 0 + r + 0 /\ r = 0 + r /\ 0 \in Int
      OBVIOUS
    <2>8. Initial(x)' = Initial(x) + 0 /\ Cardinality(Filters(x)') = Cardinality(Filters(x)) + 0
          /\ Cardinality(Users(x)') = Cardinality(Users(x)) + 0
      BY <2>2, <2>3, <2>4, <2>6
    <2>9. Delta(x, 0, 0, r, 0)
      BY <2>5, <2>7, <2>8, Zenon DEF Delta
    <2>10. ext'[x].kind = ext[x].kind
      BY DEF KeepsMake
    <2> QED
      BY <2>1, <2>7, <2>9, <2>10, ExactDelta
  <1> QED
    BY <1>2, <1>4, <1>6 DEF Counts

-----------------------------------------------------------------------------
(* The counts: references of threads *)

LEMMA KeysRest ==
  ASSUME Typed, NEW t \in Threads, th[t].pc \notin Exchanging, th'[t].pc \notin Exchanging, KeepsFound(t)
  PROVE  SameKeys(t) /\ Exchanged(t) = Null /\ th[t].new = Null
  <1>1. th[t].new = Null
    BY DEF Typed, Control, Standing, Exchanging
  <1>2. Exchanged(t)' = Null /\ Exchanged(t) = Null
    BY DEF Exchanged, Exchanging
  <1> QED
    BY <1>1, <1>2 DEF SameKeys, KeepsFound

\* A thread goes from the one use to the other.
LEMMA UsersSwap ==
  ASSUME NEW t \in Threads, OthersRest(t), NEW x,
         UsesBy("own", t, x)', ~UsesBy("own", t, x), UsesBy("hook", t, x), ~UsesBy("hook", t, x)'
  PROVE  Cardinality(Users(x)') = Cardinality(Users(x))
  <1>1. \A u \in Threads \ {t} : \A h \in UseKinds : UsesBy(h, u, x)' = UsesBy(h, u, x)
    BY Zenon DEF OthersRest, UsesBy, Owns, Adds, Hooks
  <1>2. \A h \in UseKinds, u \in Threads : u # t => (<<h, u>> \in Users(x)' <=> <<h, u>> \in Users(x))
    BY <1>1, HoldMembers, NextHoldMembers
  <1>3. /\ <<"own", t>> \notin Users(x) /\ <<"own", t>> \in Users(x)'
        /\ <<"hook", t>> \in Users(x) /\ <<"hook", t>> \notin Users(x)'
    BY HoldMembers, NextHoldMembers DEF UseKinds
  <1>4. Users(x) \subseteq UseKinds \X Threads /\ Users(x)' \subseteq UseKinds \X Threads
    BY HoldMembers, NextHoldMembers
  <1>5. PICK S, T, e, d : S = Users(x) /\ T = Users(x)' /\ e = <<"own", t>> /\ d = <<"hook", t>>
    OBVIOUS
  <1>6. T = (S \cup {e}) \ {d}
    <2>1. ASSUME NEW h \in UseKinds, NEW u \in Threads
          PROVE  <<h, u>> \in T <=> (<<h, u>> \in S \/ <<h, u>> = e) /\ <<h, u>> # d
      <3>1. CASE u # t
        BY <1>2, <1>5, <3>1
      <3>2. CASE u = t
        BY <1>3, <1>5, <3>2 DEF UseKinds
      <3> QED
        BY <3>1, <3>2
    <2>2. e \in UseKinds \X Threads
      BY <1>5 DEF UseKinds
    <2>3. ASSUME NEW p \in UseKinds \X Threads
          PROVE  p \in T <=> (p \in S \/ p = e) /\ p # d
      <3>1. PICK h \in UseKinds, u \in Threads : p = <<h, u>>
        OBVIOUS
      <3> QED
        BY <2>1, <3>1
    <2>4. S \subseteq UseKinds \X Threads /\ T \subseteq UseKinds \X Threads
      BY <1>4, <1>5
    <2>5. PICK W : W = UseKinds \X Threads
      OBVIOUS
    <2>6. /\ \A p \in W : p \in T <=> (p \in S \/ p = e) /\ p # d
          /\ S \subseteq W /\ T \subseteq W /\ e \in W
      BY <2>2, <2>3, <2>4, <2>5
    <2> QED
      BY <2>6
  <1>7. IsFiniteSet(S) /\ Cardinality(S) \in Nat
    BY <1>5, HoldsFinite
  <1>8. IsFiniteSet(S \cup {e}) /\ Cardinality(S \cup {e}) = Cardinality(S) + 1
    BY <1>3, <1>5, <1>7, OneMore
  <1>9. d \in S \cup {e}
    BY <1>3, <1>5
  <1>10. Cardinality(T) = Cardinality(S \cup {e}) - 1
    BY <1>6, <1>8, <1>9, OneLess
  <1> QED
    BY <1>5, <1>7, <1>8, <1>10

\* What is found in the list has its initial reference.
LEMMA FoundLives ==
  ASSUME Typed, Formed, Living, NEW d, Lockable(Found(d))
  PROVE  /\ Found(d) \in Exts /\ Listed(Found(d)) /\ Physical(Found(d))
         /\ ext[Found(d)].life = "live" /\ ~ext[Found(d)].marked
  <1>1. PICK x : x = Found(d)
    OBVIOUS
  <1>2. x # 0
    BY <1>1 DEF Lockable
  <1>3. list \in Seq(Exts)
    BY DEF Typed, Types
  <1>4. x \in Exts /\ Listed(x) /\ Virtual(x)
    BY <1>1, <1>2, <1>3, FoundIs
  <1>5. ext[x].life = "live" /\ ~ext[x].marked
    BY <1>4 DEF Living, Lasting
  <1> QED
    BY <1>1, <1>4, <1>5 DEF Physical, Made

LEMMA CountsDeleteVirtualPdoByExtension ==
  ASSUME Typed, Typed', Formed, Held, Held', Living, Living', Sound, Sound', Counts, NEW t \in Threads, OthersRest(t), DeleteVirtualPdoByExtension(t)
  PROVE  Counts'
  <1>1. /\ th[t].pc = "delete" /\ th'[t].pc = (IF ext[th[t].x].marked THEN "deref" ELSE "drop")
        /\ th'[t].ret = th[t].ret /\ KeepsUse(t) /\ KeepsDel(t) /\ KeepsFound(t) /\ KeepsOp(t)
    BY EffectDeleteVirtualPdoByExtension
  <1>2. SameKeys(t) /\ Exchanged(t) = Null /\ th[t].new = Null
    BY <1>1, KeysRest DEF Exchanging
  <1>3. \A x \in Exts : /\ KeepsMake(x) /\ KeepsLife(x) /\ KeepsRelations(x) /\ KeepsCounts(x)
                        /\ ext'[x].marked = (IF x = th[t].x THEN TRUE ELSE ext[x].marked)
    BY EffectDeleteVirtualPdoByExtension
  <1>4. ASSUME NEW x \in Exts
        PROVE  Initial(x)' = Initial(x)
    <2>1. CASE x = th[t].x /\ ~ext[x].marked
      <3>1. Initial(x) = 1
        BY <2>1 DEF Initial
      <3>2. th'[t].x = x /\ th'[t].pc = "drop"
        BY <1>1, <2>1 DEF KeepsUse
      <3>3. Initial(x)' = 1
        BY <3>2 DEF Initial
      <3> QED
        BY <3>1, <3>3
    <2>2. CASE ~(x = th[t].x /\ ~ext[x].marked)
      <3>1. ext'[x].marked = ext[x].marked
        <4>1. PICK p \in ExtTypes : p = ext[x]
          BY DEF Typed, Types
        <4>2. p.marked \in BOOLEAN
          BY DEF ExtTypes
        <4> QED
          BY <1>3, <2>2, <4>1, <4>2
      <3>2. ~(th[t].x = x /\ th[t].pc = "drop") /\ ~(th'[t].x = x /\ th'[t].pc = "drop")
        BY <1>1, <2>2 DEF KeepsUse
      <3>3. \A u \in Threads : (th'[u].x = x /\ th'[u].pc = "drop") <=> (th[u].x = x /\ th[u].pc = "drop")
        BY <3>2 DEF OthersRest
      <3> QED
        BY <3>1, <3>3 DEF Initial
    <2> QED
      BY <2>1, <2>2
  <1>5. ASSUME NEW x \in Exts
        PROVE  Cardinality(Users(x)') = Cardinality(Users(x))
    <2>1. Owns(t) /\ Owns(t)' /\ (Hooks(t)' <=> Hooks(t))
      BY <1>1 DEF Owns, Hooks
    <2>2. SameUse(t, x)
      BY <1>1, <2>1, Zenon DEF SameUse, UsesBy, KeepsUse
    <2> QED
      BY <2>2, UsersStay
  <1>6. ASSUME NEW x \in Exts
        PROVE  \E i, u \in Int : /\ Initial(x)' = Initial(x) + i
                                 /\ Cardinality(Users(x)') = Cardinality(Users(x)) + u
                                 /\ ext'[x].refs = ext[x].refs + (i + u)
    <2>1. Initial(x) \in Int /\ Cardinality(Users(x)) \in Int /\ ext[x].refs \in Int
      BY HoldsFinite, ExtNumbers DEF Initial, Typed, Types
    <2>2. Initial(x)' = Initial(x) + 0
      BY <1>4, <2>1
    <2>3. Cardinality(Users(x)') = Cardinality(Users(x)) + 0
      BY <1>5, <2>1
    <2>6. ext'[x].refs = ext[x].refs
      BY EffectDeleteVirtualPdoByExtension, Zenon DEF KeepsCounts
    <2>4. ext'[x].refs = ext[x].refs + (0 + 0)
      BY <2>1, <2>6
    <2>5. 0 \in Int
      OBVIOUS
    <2> QED
      BY <2>2, <2>3, <2>4, <2>5, Zenon
  <1>7. th'[t].del = th[t].del
    BY <1>1 DEF KeepsDel
  <1>8. \A x \in Exts : ext'[x].rel = ext[x].rel /\ ext'[x].refs = ext[x].refs
    BY <1>3 DEF KeepsCounts
  <1> QED
    BY <1>2, <1>3, <1>6, <1>7, <1>8, CountsUse

LEMMA CountsDropInitialReference ==
  ASSUME Typed, Typed', Formed, Held, Held', Living, Living', Sound, Sound', Counts, NEW t \in Threads, OthersRest(t), DropInitialReference(t)
  PROVE  Counts'
  <1>1. /\ th[t].pc = "drop" /\ th'[t].pc = "deref" /\ th'[t].ret = th[t].ret
        /\ KeepsUse(t) /\ th'[t].del = (IF ext[th[t].x].refs = 1 THEN th[t].x ELSE 0) /\ KeepsFound(t) /\ KeepsOp(t)
    BY EffectDropInitialReference
  <1>2. SameKeys(t) /\ Exchanged(t) = Null /\ th[t].new = Null
    BY <1>1, KeysRest DEF Exchanging
  <1>3. \A x \in Exts : /\ KeepsMake(x) /\ KeepsLife(x) /\ KeepsMark(x) /\ KeepsRelations(x)
                        /\ ext'[x].refs = (IF x = th[t].x THEN ext[x].refs - 1 ELSE ext[x].refs)
                        /\ ext'[x].rel = ext[x].rel
    BY EffectDropInitialReference
  <1>4. PICK d \in Exts : d = th[t].x /\ Physical(d)
    BY <1>1, Working DEF Owns
  <1>5. ext[d].marked /\ \A u \in Threads : Drops(u) /\ th[u].x = d => u = t
    BY <1>1, <1>4 DEF Living, Dropping, Drops
  <1>6. Initial(d) = 1 /\ Initial(d)' = 0
    <2>1. Initial(d) = 1
      BY <1>1, <1>4 DEF Initial
    <2>2. \A u \in Threads : ~(th'[u].x = d /\ th'[u].pc = "drop")
      BY <1>1, <1>5 DEF OthersRest, Drops
    <2>3. ext'[d].marked
      BY <1>3, <1>5 DEF KeepsMark
    <2> QED
      BY <2>1, <2>2, <2>3 DEF Initial
  <1>7. ASSUME NEW x \in Exts, x # d
        PROVE  Initial(x)' = Initial(x)
    <2>1. \A u \in Threads : (th'[u].x = x /\ th'[u].pc = "drop") <=> (th[u].x = x /\ th[u].pc = "drop")
      BY <1>1, <1>4, <1>7 DEF OthersRest, KeepsUse
    <2> QED
      BY <1>3, <2>1 DEF Initial, KeepsMark
  <1>8. ASSUME NEW x \in Exts
        PROVE  Cardinality(Users(x)') = Cardinality(Users(x))
    <2>1. Owns(t) /\ Owns(t)' /\ (Hooks(t)' <=> Hooks(t))
      BY <1>1 DEF Owns, Hooks
    <2>2. SameUse(t, x)
      BY <1>1, <2>1, Zenon DEF SameUse, UsesBy, KeepsUse
    <2> QED
      BY <2>2, UsersStay
  <1>9. \A x \in Exts : Initial(x) \in Int /\ Cardinality(Users(x)) \in Int /\ ext[x].refs \in Int
    BY HoldsFinite, ExtNumbers DEF Initial, Typed, Types
  <1>10. ASSUME NEW x \in Exts
         PROVE  \E i, u \in Int : /\ Initial(x)' = Initial(x) + i
                                  /\ Cardinality(Users(x)') = Cardinality(Users(x)) + u
                                  /\ ext'[x].refs = ext[x].refs + (i + u)
    <2>1. PICK i \in Int : i = IF x = d THEN 0 - 1 ELSE 0
      OBVIOUS
    <2>2. Initial(x)' = Initial(x) + i
      BY <1>6, <1>7, <1>9, <2>1
    <2>3. Cardinality(Users(x)') = Cardinality(Users(x)) + 0
      BY <1>8, <1>9
    <2>4. ext'[x].refs = ext[x].refs + (i + 0)
      BY <1>3, <1>4, <1>9, <2>1
    <2>5. 0 \in Int
      OBVIOUS
    <2> QED
      BY <2>2, <2>3, <2>4, <2>5, Zenon
  <1>11. ASSUME NEW x \in Exts, Physical(x), ext[x].refs = 0
         PROVE  ext'[x].refs = 0
    <2>1. Exact(x)
      BY <1>11 DEF Counts
    <2>2. x # d
      BY <1>1, <1>4, <1>11, <2>1, Bare DEF Drops
    <2> QED
      BY <1>3, <1>4, <1>11, <2>2
  <1>12. th'[t].del = 0 \/ ext'[th'[t].del].refs = 0
    BY <1>1, <1>3, <1>4
  <1> QED
    BY <1>2, <1>3, <1>10, <1>11, <1>12, CountsUse
LEMMA CountsDereferenceVirtualPdo ==
  ASSUME Typed, Typed', Formed, Held, Held', Living, Living', Sound, Sound', Counts, NEW t \in Threads, OthersRest(t), DereferenceVirtualPdo(t)
  PROVE  Counts'
  <1>1. /\ th[t].pc = "deref" /\ th'[t].pc \in {"done", "hookstate", "started", "cleared"} /\ th'[t].ret = th[t].ret
        /\ KeepsUse(t) /\ th'[t].del = (IF ext[th[t].x].refs = 1 THEN th[t].x ELSE 0) /\ KeepsFound(t) /\ KeepsOp(t)
    BY EffectDereferenceVirtualPdo, Holding
  <1>2. SameKeys(t) /\ Exchanged(t) = Null /\ th[t].new = Null
    BY <1>1, KeysRest DEF Exchanging
  <1>3. \A x \in Exts : /\ KeepsMake(x) /\ KeepsLife(x) /\ KeepsMark(x) /\ KeepsRelations(x)
                        /\ ext'[x].refs = (IF x = th[t].x THEN ext[x].refs - 1 ELSE ext[x].refs)
                        /\ ext'[x].rel = ext[x].rel
    BY EffectDereferenceVirtualPdo
  <1>4. PICK d \in Exts : d = th[t].x /\ Physical(d)
    BY <1>1, Working DEF Owns
  <1>5. SameDrop(t)
    BY <1>1 DEF SameDrop, Drops
  <1>6. \A x \in Exts : Initial(x)' = Initial(x)
    BY <1>3, <1>5, InitialStays
  <1>7. \A x \in Exts : UsesBy("own", t, x) <=> x = d
    BY <1>1, <1>4 DEF UsesBy, Owns
  <1>8. ASSUME NEW x \in Exts
        PROVE  Cardinality(Users(x)') = Cardinality(Users(x)) + (IF x = d THEN 0 - 1 ELSE 0)
    <2>1. ~UsesBy("own", t, x)'
      BY <1>1 DEF UsesBy, Owns, Adds
    <2>2. \A g \in UseKinds \ {"own"} : UsesBy(g, t, x)' = UsesBy(g, t, x)
      BY <1>1, Zenon DEF UseKinds, UsesBy, Hooks, KeepsUse
    <2>3. Cardinality(Users(x)') = Cardinality(Users(x)) + (IF UsesBy("own", t, x)' THEN 1 ELSE 0)
                                                        - (IF UsesBy("own", t, x) THEN 1 ELSE 0)
      BY <2>2, UsersMove DEF UseKinds
    <2>4. Cardinality(Users(x)) \in Int
      BY HoldsFinite
    <2>5. CASE x = d
      BY <1>7, <2>1, <2>3, <2>4, <2>5
    <2>6. CASE x # d
      BY <1>7, <2>1, <2>3, <2>4, <2>6
    <2> QED
      BY <2>5, <2>6
  <1>9. \A x \in Exts : Initial(x) \in Int /\ Cardinality(Users(x)) \in Int /\ ext[x].refs \in Int
    BY HoldsFinite, ExtNumbers DEF Initial, Typed, Types
  <1>10. ASSUME NEW x \in Exts
         PROVE  \E i, u \in Int : /\ Initial(x)' = Initial(x) + i
                                  /\ Cardinality(Users(x)') = Cardinality(Users(x)) + u
                                  /\ ext'[x].refs = ext[x].refs + (i + u)
    <2>1. PICK u \in Int : u = IF x = d THEN 0 - 1 ELSE 0
      OBVIOUS
    <2>2. Initial(x)' = Initial(x) + 0
      BY <1>6, <1>9
    <2>3. Cardinality(Users(x)') = Cardinality(Users(x)) + u
      BY <1>8, <2>1
    <2>4. ext'[x].refs = ext[x].refs + (0 + u)
      BY <1>3, <1>4, <1>9, <2>1
    <2>5. 0 \in Int
      OBVIOUS
    <2> QED
      BY <2>2, <2>3, <2>4, <2>5, Zenon
  <1>11. ASSUME NEW x \in Exts, Physical(x), ext[x].refs = 0
         PROVE  ext'[x].refs = 0
    <2>1. Exact(x)
      BY <1>11 DEF Counts
    <2>2. x # d
      BY <1>7, <1>11, <2>1, Bare DEF UseKinds
    <2> QED
      BY <1>3, <1>4, <1>11, <2>2
  <1>12. th'[t].del = 0 \/ ext'[th'[t].del].refs = 0
    BY <1>1, <1>3, <1>4
  <1> QED
    BY <1>2, <1>3, <1>10, <1>11, <1>12, CountsUse

\* A thread finds a virtual PDO in the list and references it.
LEMMA CountsGain ==
  ASSUME Typed, Typed', Formed, Living, Counts, NEW t \in Threads, OthersRest(t), SameKeys(t), SameDrop(t),
         Exchanged(t) = Null, th[t].new = Null, th'[t].del = th[t].del, NEW d, Lockable(Found(d)),
         \A x \in Exts : /\ KeepsMake(x) /\ KeepsLife(x) /\ KeepsMark(x) /\ KeepsRelations(x)
                         /\ ext'[x].refs = (IF x = Found(d) THEN ext[x].refs + 1 ELSE ext[x].refs)
                         /\ ext'[x].rel = ext[x].rel,
         NEW g \in UseKinds, \A x \in Exts : \A h \in UseKinds \ {g} : UsesBy(h, t, x)' = UsesBy(h, t, x),
         \A x \in Exts : ~UsesBy(g, t, x) /\ (UsesBy(g, t, x)' <=> x = Found(d))
  PROVE  Counts'
  <1>1. PICK y \in Exts : y = Found(d) /\ ~ext[y].marked
    BY FoundLives
  <1>2. \A x \in Exts : Initial(x)' = Initial(x)
    BY InitialStays
  <1>3. ASSUME NEW x \in Exts
        PROVE  Cardinality(Users(x)') = Cardinality(Users(x)) + (IF x = y THEN 1 ELSE 0)
    <2>1. Cardinality(Users(x)') = Cardinality(Users(x)) + (IF UsesBy(g, t, x)' THEN 1 ELSE 0)
                                                        - (IF UsesBy(g, t, x) THEN 1 ELSE 0)
      BY UsersMove
    <2>2. Cardinality(Users(x)) \in Int
      BY HoldsFinite
    <2>3. ~UsesBy(g, t, x) /\ (UsesBy(g, t, x)' <=> x = y)
      BY <1>1
    <2>4. CASE x = y
      BY <2>1, <2>2, <2>3, <2>4
    <2>5. CASE x # y
      BY <2>1, <2>2, <2>3, <2>5
    <2> QED
      BY <2>4, <2>5
  <1>4. \A x \in Exts : Initial(x) \in Int /\ Cardinality(Users(x)) \in Int /\ ext[x].refs \in Int
    BY HoldsFinite, ExtNumbers DEF Initial, Typed, Types
  <1>5. ASSUME NEW x \in Exts
        PROVE  \E i, u \in Int : /\ Initial(x)' = Initial(x) + i
                                 /\ Cardinality(Users(x)') = Cardinality(Users(x)) + u
                                 /\ ext'[x].refs = ext[x].refs + (i + u)
    <2>1. PICK u \in Int : u = IF x = y THEN 1 ELSE 0
      OBVIOUS
    <2>2. Initial(x)' = Initial(x) + 0
      BY <1>2, <1>4
    <2>3. Cardinality(Users(x)') = Cardinality(Users(x)) + u
      BY <1>3, <2>1
    <2>4. ext'[x].refs = ext[x].refs + (0 + u)
      BY <1>1, <1>4, <2>1
    <2>5. 0 \in Int
      OBVIOUS
    <2> QED
      BY <2>2, <2>3, <2>4, <2>5, Zenon
  <1>6. ASSUME NEW x \in Exts, Physical(x), ext[x].refs = 0
        PROVE  ext'[x].refs = 0
    <2>1. Exact(x)
      BY <1>6 DEF Counts
    <2>2. x # y
      BY <1>1, <1>6, <2>1, Bare
    <2> QED
      BY <1>1, <1>6, <2>2
  <1>7. \A x \in Exts : /\ KeepsMake(x) /\ KeepsLife(x) /\ KeepsRelations(x)
                        /\ ext'[x].rel = ext[x].rel
    OBVIOUS
  <1> QED
    BY <1>5, <1>6, <1>7, CountsUse

LEMMA CountsFindVirtualPdo ==
  ASSUME Typed, Typed', Formed, Held, Held', Living, Living', Sound, Sound', Counts, NEW t \in Threads, OthersRest(t), FindVirtualPdo(t)
  PROVE  Counts'
  <1>1. th[t].pc = "find" /\ th[t].ret \in {"done", "hookstate"} /\ th'[t].ret = th[t].ret
        /\ th'[t].h = th[t].h /\ KeepsDel(t) /\ KeepsFound(t) /\ KeepsOp(t) /\ th'[t].del = th[t].del
    BY EffectFindVirtualPdo, Holding DEF KeepsUse, KeepsDel
  <1>2. CASE th'[t].pc = "create"
    <2>1. /\ Lockable(Found(Op(t).dev)) /\ th'[t].x = Found(Op(t).dev)
          /\ \A x \in Exts : /\ KeepsMake(x) /\ KeepsLife(x) /\ KeepsMark(x) /\ KeepsRelations(x)
                             /\ ext'[x].refs = (IF x = Found(Op(t).dev) THEN ext[x].refs + 1 ELSE ext[x].refs)
                             /\ ext'[x].rel = ext[x].rel
      BY <1>1, <1>2, EffectFindVirtualPdo
    <2>2. SameKeys(t) /\ Exchanged(t) = Null /\ th[t].new = Null
      BY <1>1, <1>2, KeysRest DEF Exchanging
    <2>3. SameDrop(t)
      BY <1>1, <1>2 DEF SameDrop, Drops
    <2>4. \A x \in Exts : \A h \in UseKinds \ {"own"} : UsesBy(h, t, x)' = UsesBy(h, t, x)
      BY <1>1, Zenon DEF UseKinds, UsesBy, Hooks
    <2>5. \A x \in Exts : ~UsesBy("own", t, x) /\ (UsesBy("own", t, x)' <=> x = Found(Op(t).dev))
      BY <1>1, <1>2, <2>1 DEF UsesBy, Owns, Adds
    <2>6. "own" \in UseKinds
      BY DEF UseKinds
    <2> QED
      BY <1>1, <2>1, <2>2, <2>3, <2>4, <2>5, <2>6, CountsGain
  <1>3. CASE th'[t].pc # "create"
    <2>1. ext' = ext /\ th'[t].pc \in {"done", "hookstate", "virtual"} /\ th'[t].x = th[t].x
      BY <1>1, <1>3, EffectFindVirtualPdo DEF KeepsUse
    <2>2. Lull(t)
      BY <1>1, <2>1, LullIf DEF Owns, Adds, Hooks, Drops, Exchanging, KeepsFound
    <2> QED
      BY <2>1, <2>2, Still, CountsCalm
  <1> QED
    BY <1>2, <1>3

LEMMA CountsPnPMajorHookDispatch ==
  ASSUME Typed, Typed', Formed, Held, Held', Living, Living', Sound, Sound', Counts, NEW t \in Threads, OthersRest(t), PnPMajorHookDispatch(t)
  PROVE  Counts'
  <1>1. th[t].pc = "hook" /\ th[t].ret \in {"started", "hook"} /\ th'[t].pc \in {"started", "cleared", "find", "hookstate"}
        /\ th'[t].x = th[t].x /\ KeepsDel(t) /\ KeepsFound(t) /\ KeepsOp(t) /\ th'[t].del = th[t].del
    BY EffectPnPMajorHookDispatch, Holding DEF KeepsUse, KeepsDel
  <1>2. CASE th'[t].ret = "hookstate"
    <2>1. /\ Lockable(Found(Op(t).dev)) /\ th'[t].h = Found(Op(t).dev)
          /\ \A x \in Exts : /\ KeepsMake(x) /\ KeepsLife(x) /\ KeepsMark(x) /\ KeepsRelations(x)
                             /\ ext'[x].refs = (IF x = Found(Op(t).dev) THEN ext[x].refs + 1 ELSE ext[x].refs)
                             /\ ext'[x].rel = ext[x].rel
      BY <1>1, <1>2, EffectPnPMajorHookDispatch
    <2>2. SameKeys(t) /\ Exchanged(t) = Null /\ th[t].new = Null
      BY <1>1, KeysRest DEF Exchanging
    <2>3. SameDrop(t)
      BY <1>1 DEF SameDrop, Drops
    <2>4. ~Owns(t) /\ ~Owns(t)'
      BY <1>1 DEF Owns, Adds
    <2>5. \A x \in Exts : \A h \in UseKinds \ {"hook"} : UsesBy(h, t, x)' = UsesBy(h, t, x)
      BY <2>4, Zenon DEF UseKinds, UsesBy
    <2>6. \A x \in Exts : ~UsesBy("hook", t, x) /\ (UsesBy("hook", t, x)' <=> x = Found(Op(t).dev))
      BY <1>1, <1>2, <2>1 DEF UsesBy, Hooks
    <2>7. "hook" \in UseKinds
      BY DEF UseKinds
    <2> QED
      BY <1>1, <2>1, <2>2, <2>3, <2>5, <2>6, <2>7, CountsGain
  <1>3. CASE th'[t].ret # "hookstate"
    <2>1. ext' = ext /\ th'[t].pc \in {"started", "cleared"} /\ th'[t].h = th[t].h
      BY <1>1, <1>3, EffectPnPMajorHookDispatch DEF KeepsUse
    <2>2. Lull(t)
      BY <1>1, <1>3, <2>1, LullIf DEF Owns, Adds, Hooks, Drops, Exchanging, KeepsFound
    <2> QED
      BY <2>1, <2>2, Still, CountsCalm
  <1> QED
    BY <1>2, <1>3

LEMMA CountsCallOriginal ==
  ASSUME Typed, Typed', Formed, Held, Held', Living, Living', Sound, Sound', Counts, NEW t \in Threads, OthersRest(t), CallOriginal(t)
  PROVE  Counts'
  <1>1. /\ th[t].pc = "hooked" /\ th[t].ret = "hookstate" /\ th'[t].pc = "deref" /\ th'[t].ret \in {"started", "cleared"}
        /\ th'[t].x = th[t].h /\ th'[t].h = th[t].h /\ KeepsDel(t) /\ KeepsFound(t) /\ KeepsOp(t)
    BY EffectCallOriginal, Holding
  <1>2. SameKeys(t) /\ Exchanged(t) = Null /\ th[t].new = Null
    BY <1>1, KeysRest DEF Exchanging
  <1>3. \A x \in Exts : /\ KeepsMake(x) /\ KeepsLife(x) /\ KeepsMark(x) /\ KeepsRelations(x) /\ KeepsCounts(x)
    BY EffectCallOriginal
  <1>4. \A x \in Exts : Initial(x)' = Initial(x)
    <2>1. SameDrop(t)
      BY <1>1 DEF SameDrop, Drops
    <2> QED
      BY <1>3, <2>1, InitialStays
  <1>5. ASSUME NEW x \in Exts
        PROVE  Cardinality(Users(x)') = Cardinality(Users(x))
    <2>1. CASE x = th[t].h
      <3>1. /\ UsesBy("own", t, x)' /\ ~UsesBy("own", t, x)
            /\ UsesBy("hook", t, x) /\ ~UsesBy("hook", t, x)'
        BY <1>1, <2>1 DEF UsesBy, Owns, Adds, Hooks
      <3> QED
        BY <3>1, UsersSwap
    <2>2. CASE x # th[t].h
      <3>1. ~UsesBy("own", t, x)' /\ ~UsesBy("own", t, x) /\ ~UsesBy("hook", t, x) /\ ~UsesBy("hook", t, x)'
        BY <1>1, <2>2 DEF UsesBy, Owns, Adds, Hooks
      <3>2. UsesBy("own", t, x)' = UsesBy("own", t, x) /\ UsesBy("hook", t, x)' = UsesBy("hook", t, x)
        BY <3>1, Zenon DEF UsesBy, Owns, Adds, Hooks
      <3>3. SameUse(t, x)
        BY <3>2 DEF SameUse, UseKinds
      <3> QED
        BY <3>3, UsersStay
    <2> QED
      BY <2>1, <2>2
  <1>6. ASSUME NEW x \in Exts
        PROVE  \E i, u \in Int : /\ Initial(x)' = Initial(x) + i
                                 /\ Cardinality(Users(x)') = Cardinality(Users(x)) + u
                                 /\ ext'[x].refs = ext[x].refs + (i + u)
    <2>1. Initial(x) \in Int /\ Cardinality(Users(x)) \in Int /\ ext[x].refs \in Int
      BY HoldsFinite, ExtNumbers DEF Initial, Typed, Types
    <2>2. Initial(x)' = Initial(x) + 0
      BY <1>4, <2>1
    <2>3. Cardinality(Users(x)') = Cardinality(Users(x)) + 0
      BY <1>5, <2>1
    <2>4. ext'[x].refs = ext[x].refs + (0 + 0)
      BY <1>3, <2>1 DEF KeepsCounts
    <2>5. 0 \in Int
      OBVIOUS
    <2> QED
      BY <2>2, <2>3, <2>4, <2>5, Zenon
  <1>7. th'[t].del = th[t].del
    BY <1>1 DEF KeepsDel
  <1>8. \A x \in Exts : ext'[x].rel = ext[x].rel /\ ext'[x].refs = ext[x].refs
    BY <1>3 DEF KeepsCounts
  <1> QED
    BY <1>2, <1>3, <1>6, <1>7, <1>8, CountsUse

-----------------------------------------------------------------------------
(* The counts: relations *)

LEMMA OtherKeys ==
  ASSUME NEW t \in Threads, OthersRest(t), NEW x, NEW p, NEW q, KeyOf(p, q),
         p = "kept" => Kept(q)' = Kept(q),
         p = "old" /\ q = t => Exchanged(t)' = Exchanged(t),
         p = "new" /\ q = t => th'[t].new = th[t].new,
         p = "todo" /\ q = t => th'[t].todo = th[t].todo
  PROVE  KeyPlaces(p, q, x)' = KeyPlaces(p, q, x)
  <1>1. CASE p = "kept"
    BY <1>1 DEF KeyPlaces
  <1>2. CASE p # "kept" /\ q = t
    BY <1>2 DEF KeyPlaces, KeyOf
  <1>3. CASE p # "kept" /\ q # t
    <2>1. th'[q] = th[q]
      BY <1>3 DEF OthersRest, KeyOf
    <2>2. Exchanged(q)' = Exchanged(q)
      BY <2>1 DEF Exchanged
    <2> QED
      BY <1>3, <2>1, <2>2 DEF KeyPlaces
  <1> QED
    BY <1>1, <1>2, <1>3

LEMMA KeysFinite ==
  ASSUME Typed, Formed, NEW x, NEW p, NEW q, KeyOf(p, q)
  PROVE  IsFiniteSet(KeyPlaces(p, q, x)) /\ Cardinality(KeyPlaces(p, q, x)) \in Nat
  <1>1. \A s \in Shadows : Related(s) => IsFiniteSet(PlacesIn(s, x)) /\ Cardinality(PlacesIn(s, x)) \in Nat
    BY PlacesInFinite DEF Shadows, Related
  <1>2. Null \in Shadows /\ Related(Null)
    BY DEF Null, Shadows, Related, Single
  <1>3. CASE p = "kept"
    <2>1. ext[q].shadow \in Shadows /\ Related(ext[q].shadow)
      <3>1. PICK e \in ExtTypes : e = ext[q]
        BY <1>3 DEF Typed, Types, KeyOf
      <3>2. e.shadow \in Shadows
        BY DEF ExtTypes
      <3>3. Related(ext[q].shadow)
        BY <1>3 DEF Formed, Extension, KeyOf
      <3> QED
        BY <3>1, <3>2, <3>3
    <2>2. Kept(q) \in Shadows /\ Related(Kept(q))
      BY <1>2, <2>1 DEF Kept
    <2> QED
      BY <1>1, <1>3, <2>2 DEF KeyPlaces
  <1>4. CASE p = "old" /\ q \in Threads
    <2>1. Exchanged(q) \in Shadows /\ Related(Exchanged(q))
      BY <1>4, RelationFields
    <2> QED
      BY <1>1, <1>4, <2>1 DEF KeyPlaces
  <1>5. CASE p = "new" /\ q \in Threads
    <2>1. th[q].new \in Shadows /\ Related(th[q].new)
      BY <1>5, RelationFields
    <2> QED
      BY <1>1, <1>5, <2>1 DEF KeyPlaces
  <1>6. CASE p = "todo" /\ q \in Threads
    <2>1. th[q].todo \in Seq(Exts)
      BY <1>6, RelationFields
    <2>2. IsFiniteSet(Places(th[q].todo, x))
      BY <2>1, PlacesFinite
    <2> QED
      BY <1>6, <2>2, FS_CardinalityType DEF KeyPlaces
  <1> QED
    BY <1>3, <1>4, <1>5, <1>6 DEF KeyOf

\* The exchange of relations goes on or fails.
LEMMA LullExchanging ==
  ASSUME NEW t, th[t].pc \in Exchanging, th'[t].pc \in Exchanging, th'[t].ret = th[t].ret,
         KeepsUse(t), KeepsFound(t), KeepsOp(t), th'[t].del = th[t].del
  PROVE  Lull(t)
  <1>1. ~Owns(t) /\ ~Owns(t)' /\ ~Drops(t) /\ ~Drops(t)'
    BY DEF Owns, Adds, Drops, Exchanging
  <1>2. Hooks(t)' <=> Hooks(t)
    BY DEF Hooks
  <1>3. \A x \in Exts : SameUse(t, x)
    BY <1>1, <1>2, Zenon DEF SameUse, UsesBy, KeepsUse
  <1>4. Exchanged(t)' = Exchanged(t) /\ Op(t)' = Op(t)
    BY DEF Exchanged, Exchanging, KeepsFound, KeepsOp, Op
  <1> QED
    BY <1>1, <1>3, <1>4 DEF Lull, SameDrop, SameKeys, KeepsFound

\* What a step leaves alone when it only moves relations.
LEMMA UseRests ==
  ASSUME NEW t \in Threads, ~Owns(t), ~Owns(t)', Hooks(t)' <=> Hooks(t), KeepsUse(t)
  PROVE  SameDrop(t) /\ \A x \in Exts : SameUse(t, x)
  <1>1. ~Drops(t) /\ ~Drops(t)'
    BY DEF Owns, Drops
  <1>2. \A x \in Exts : SameUse(t, x)
    BY Zenon DEF SameUse, UsesBy, KeepsUse
  <1> QED
    BY <1>1, <1>2 DEF SameDrop

\* The relations of a filter device are taken from it.
LEMMA CountsTake ==
  ASSUME Typed, Typed', Formed, Counts, NEW t \in Threads, OthersRest(t), NEW f \in Exts, ext[f].life = "live",
         th[t].pc \in {"sent", "free"}, th'[t].pc \in Exchanging, Hooks(t)' <=> Hooks(t), KeepsUse(t), KeepsDel(t), KeepsOp(t),
         th'[t].old = ext[f].rels, th'[t].shadow = ext[f].shadow, th'[t].new = th[t].new, th'[t].todo = th[t].todo,
         \A x \in Exts : /\ KeepsMake(x) /\ KeepsLife(x) /\ KeepsMark(x) /\ KeepsCounts(x)
                         /\ x # f => KeepsRelations(x),
         ext'[f].shadow = Null
  PROVE  Counts'
  <1>1. Exchanged(t) = Null /\ Exchanged(t)' = ext[f].shadow
    BY DEF Exchanged, Exchanging
  <1>2. Op(t)' = Op(t)
    BY DEF Op, KeepsOp
  <1>3. Passes(t)
    <2>1. \A g \in Exts : \/ ext'[g].shadow = Null
                          \/ ext'[g].shadow = ext[g].shadow /\ ext'[g].rels = ext[g].rels
      BY DEF KeepsRelations
    <2>2. \E g \in Exts : Exchanged(t)' = ext[g].shadow /\ th'[t].old = ext[g].rels
      BY <1>1
    <2> QED
      BY <1>2, <2>1, <2>2 DEF Passes
  <1>4. SameDrop(t) /\ \A x \in Exts : SameUse(t, x)
    <2>1. ~Owns(t) /\ ~Owns(t)'
      BY DEF Owns, Adds, Exchanging
    <2> QED
      BY <2>1, UseRests
  <1>5. Kept(f) = ext[f].shadow /\ Kept(f)' = Null
    BY DEF Kept
  <1>6. \A g \in Exts : g # f => Kept(g)' = Kept(g)
    BY DEF Kept, KeepsLife, KeepsRelations
  <1>7. ASSUME NEW x \in Exts, Physical(x)
        PROVE  IsFiniteSet(ByRelations(x)') /\ Cardinality(ByRelations(x)') = Cardinality(ByRelations(x))
    <2>1. KeyPlaces("kept", f, x)' = KeyPlaces("old", t, x)
      BY <1>1, <1>5 DEF KeyPlaces
    <2>2. KeyPlaces("old", t, x)' = KeyPlaces("kept", f, x)
      BY <1>1, <1>5 DEF KeyPlaces
    <2>3. IsFiniteSet(KeyPlaces("kept", f, x)) /\ IsFiniteSet(KeyPlaces("old", t, x))
      BY KeysFinite DEF KeyOf
    <2>4. ASSUME NEW p, NEW q, KeyOf(p, q), <<p, q>> # <<"kept", f>>, <<p, q>> # <<"old", t>>
          PROVE  KeyPlaces(p, q, x)' = KeyPlaces(p, q, x)
      <3>1. p = "kept" => Kept(q)' = Kept(q)
        BY <1>6, <2>4 DEF KeyOf
      <3> QED
        BY <2>4, <3>1, OtherKeys
    <2>5. IsFiniteSet(ByRelations(x))
      BY <1>7 DEF Counts, Exact
    <2> QED
      BY <2>1, <2>2, <2>3, <2>4, <2>5, RelationsTake
  <1>8. ASSUME NEW x \in Exts, Physical(x)
        PROVE  \E r \in Int : /\ IsFiniteSet(ByRelations(x)')
                              /\ Cardinality(ByRelations(x)') = Cardinality(ByRelations(x)) + r
                              /\ ext'[x].refs = ext[x].refs + r /\ ext'[x].rel = ext[x].rel + r
    <2>1. Cardinality(ByRelations(x)) \in Int /\ ext[x].refs \in Int /\ ext[x].rel \in Int
      BY <1>8, FS_CardinalityType, ExtNumbers DEF Counts, Exact, Typed, Types
    <2>2. ext'[x].refs = ext[x].refs + 0 /\ ext'[x].rel = ext[x].rel + 0
      BY <2>1 DEF KeepsCounts
    <2>3. Cardinality(ByRelations(x)') = Cardinality(ByRelations(x)) + 0
      BY <1>7, <1>8, <2>1
    <2>4. 0 \in Int
      OBVIOUS
    <2> QED
      BY <1>7, <1>8, <2>2, <2>3, <2>4, Zenon
  <1>9. th'[t].del = th[t].del /\ \A x \in Exts : ext'[x].refs = ext[x].refs
    BY DEF KeepsDel, KeepsCounts
  <1> QED
    BY <1>3, <1>4, <1>8, <1>9, CountsRelate

\* Who has its remove lock finds an extension that is not freed.
LEMMA LockedLives ==
  ASSUME Typed, Formed, Held, Living, NEW t \in Threads, Asks(t), Does(t, {"query", "pass"})
  PROVE  th[t].f \in Exts /\ ext[th[t].f].life = "live" /\ Filter(th[t].f)
  <1>1. PICK f \in Exts : f = th[t].f
    BY AskedFor DEF Asks, Does
  <1>2. Filter(f)
    BY <1>1, Working, Numerals
  <1>3. <<"filter", t>> \in Holds(f)
    BY <1>1 DEF Holds
  <1>4. ext[f].holders # 0
    BY <1>3, Holder
  <1>5. ext[f].life # "freed"
    BY <1>4 DEF Living, Lasting
  <1>6. ext[f].life = "live"
    <2>1. ext[f].life \in {"none", "live", "freed"}
      <3>1. PICK p \in ExtTypes : p = ext[f]
        BY DEF Typed, Types
      <3> QED
        BY <3>1 DEF ExtTypes
    <2> QED
      BY <1>2, <1>5, <2>1 DEF Filter, Made
  <1> QED
    BY <1>1, <1>2, <1>6

LEMMA CountsQueryDeviceRelations ==
  ASSUME Typed, Typed', Formed, Held, Held', Living, Living', Sound, Sound', Counts, NEW t \in Threads, OthersRest(t), QueryDeviceRelations(t)
  PROVE  Counts'
  <1>1. /\ th[t].pc = "sent" /\ Op(t).do = "query" /\ th'[t].pc \in Exchanging /\ th[t].ret = "done" /\ th'[t].ret = "unlock"
        /\ KeepsUse(t) /\ KeepsDel(t) /\ KeepsOp(t) /\ th'[t].new = th[t].new /\ th'[t].todo = th[t].todo
    BY EffectQueryDeviceRelations, Holding DEF Exchanging
  <1>2. Asks(t) /\ Does(t, {"query", "pass"})
    BY <1>1 DEF Asks, Does
  <1>3. PICK f \in Exts : f = th[t].f /\ ext[f].life = "live"
    BY <1>2, LockedLives
  <1>4. /\ th'[t].old = ext[f].rels /\ th'[t].shadow = ext[f].shadow /\ ext'[f].shadow = Null
        /\ \A x \in Exts : KeepsMake(x) /\ KeepsLife(x) /\ KeepsMark(x) /\ KeepsCounts(x)
    BY <1>3, EffectQueryDeviceRelations
  <1>5. \A x \in Exts : x # f => KeepsRelations(x)
    BY <1>3, EffectQueryDeviceRelations DEF KeepsRelations
  <1>6. Hooks(t)' <=> Hooks(t)
    BY <1>1 DEF Hooks
  <1> QED
    BY <1>1, <1>3, <1>4, <1>5, <1>6, CountsTake

LEMMA CountsFreeAllDeviceRelations ==
  ASSUME Typed, Typed', Formed, Held, Held', Living, Living', Sound, Sound', Counts, NEW t \in Threads, OthersRest(t), FreeAllDeviceRelations(t)
  PROVE  Counts'
  <1>1. /\ th[t].pc = "free" /\ Op(t).do \in {"remove", "detach"} /\ th'[t].pc \in Exchanging /\ th'[t].ret = th[t].ret
        /\ KeepsUse(t) /\ KeepsDel(t) /\ KeepsOp(t) /\ th'[t].new = th[t].new /\ th'[t].todo = th[t].todo
    BY EffectFreeAllDeviceRelations, Holding DEF Exchanging
  <1>2. Removes(t)
    BY <1>1 DEF Removes, Does
  <1>3. PICK f \in Exts : f = th[t].f /\ ext[f].life = "live"
    BY <1>2, Working DEF Living, Removal
  <1>4. /\ th'[t].old = ext[f].rels /\ th'[t].shadow = ext[f].shadow /\ ext'[f].shadow = Null
        /\ \A x \in Exts : KeepsMake(x) /\ KeepsLife(x) /\ KeepsMark(x) /\ KeepsCounts(x)
    BY <1>3, EffectFreeAllDeviceRelations
  <1>5. \A x \in Exts : x # f => KeepsRelations(x)
    BY <1>3, EffectFreeAllDeviceRelations DEF KeepsRelations
  <1>6. Hooks(t)' <=> Hooks(t)
    BY <1>1 DEF Hooks
  <1> QED
    BY <1>1, <1>3, <1>4, <1>5, <1>6, CountsTake
LEMMA CountsRecordShadow ==
  ASSUME Typed, Typed', Formed, Held, Held', Living, Living', Sound, Sound', Counts, NEW t \in Threads, OthersRest(t), RecordShadow(t)
  PROVE  Counts'
  <1>1. /\ th[t].pc = "record" /\ Op(t).do = "query" /\ th[t].ret = "unlock" /\ th'[t].pc = "release" /\ th'[t].ret = th[t].ret
        /\ KeepsUse(t) /\ KeepsDel(t) /\ KeepsOp(t) /\ th'[t].old = th[t].old /\ th'[t].shadow = th[t].shadow
        /\ th'[t].new = Null /\ th'[t].todo = th[t].todo
    BY EffectRecordShadow, Holding
  <1>2. Asks(t) /\ Does(t, {"query", "pass"})
    BY <1>1 DEF Asks, Does
  <1>3. PICK f \in Exts : f = th[t].f /\ ext[f].life = "live"
    BY <1>2, LockedLives
  <1>4. ext[f].shadow = Null /\ ext[f].rels = Op(t).rels
    BY <1>3, EffectRecordShadow DEF Sound
  <1>5. \A x \in Exts : /\ KeepsMake(x) /\ KeepsLife(x) /\ KeepsMark(x) /\ KeepsCounts(x) /\ ext'[x].rels = ext[x].rels
                        /\ ext'[x].shadow = (IF x = f THEN th[t].new ELSE ext[x].shadow)
    BY <1>3, EffectRecordShadow
  <1>6. Exchanged(t)' = Exchanged(t) /\ Op(t)' = Op(t)
    BY <1>1 DEF Exchanged, Op, KeepsOp
  <1>7. Passes(t)
    <2>1. \A g \in Exts : \/ ext'[g].shadow = ext[g].shadow /\ ext'[g].rels = ext[g].rels
                          \/ ext'[g].shadow = th[t].new /\ ext'[g].rels = Op(t).rels
      BY <1>4, <1>5
    <2> QED
      BY <1>1, <1>6, <2>1 DEF Passes
  <1>8. SameDrop(t) /\ \A x \in Exts : SameUse(t, x)
    <2>1. ~Owns(t) /\ ~Owns(t)' /\ (Hooks(t)' <=> Hooks(t))
      BY <1>1 DEF Owns, Adds, Hooks
    <2> QED
      BY <1>1, <2>1, UseRests
  <1>9. Kept(f) = Null /\ Kept(f)' = th[t].new
    BY <1>3, <1>4, <1>5 DEF Kept, KeepsLife
  <1>10. \A g \in Exts : g # f => Kept(g)' = Kept(g)
    BY <1>5 DEF Kept, KeepsLife
  <1>11. ASSUME NEW x \in Exts, Physical(x)
         PROVE  IsFiniteSet(ByRelations(x)') /\ Cardinality(ByRelations(x)') = Cardinality(ByRelations(x))
    <2>1. KeyPlaces("new", t, x)' = KeyPlaces("kept", f, x)
      BY <1>1, <1>9 DEF KeyPlaces
    <2>2. KeyPlaces("kept", f, x)' = KeyPlaces("new", t, x)
      BY <1>9 DEF KeyPlaces
    <2>3. IsFiniteSet(KeyPlaces("kept", f, x)) /\ IsFiniteSet(KeyPlaces("new", t, x))
      BY KeysFinite DEF KeyOf
    <2>4. ASSUME NEW p, NEW q, KeyOf(p, q), <<p, q>> # <<"new", t>>, <<p, q>> # <<"kept", f>>
          PROVE  KeyPlaces(p, q, x)' = KeyPlaces(p, q, x)
      <3>1. p = "kept" => Kept(q)' = Kept(q)
        BY <1>10, <2>4 DEF KeyOf
      <3> QED
        BY <1>1, <1>6, <2>4, <3>1, OtherKeys
    <2>5. IsFiniteSet(ByRelations(x))
      BY <1>11 DEF Counts, Exact
    <2> QED
      BY <2>1, <2>2, <2>3, <2>4, <2>5, RelationsKeep
  <1>12. ASSUME NEW x \in Exts, Physical(x)
         PROVE  \E r \in Int : /\ IsFiniteSet(ByRelations(x)')
                               /\ Cardinality(ByRelations(x)') = Cardinality(ByRelations(x)) + r
                               /\ ext'[x].refs = ext[x].refs + r /\ ext'[x].rel = ext[x].rel + r
    <2>1. Cardinality(ByRelations(x)) \in Int /\ ext[x].refs \in Int /\ ext[x].rel \in Int
      BY <1>12, FS_CardinalityType, ExtNumbers DEF Counts, Exact, Typed, Types
    <2>2. ext'[x].refs = ext[x].refs + 0 /\ ext'[x].rel = ext[x].rel + 0
      BY <1>5, <2>1 DEF KeepsCounts
    <2>3. Cardinality(ByRelations(x)') = Cardinality(ByRelations(x)) + 0
      BY <1>11, <1>12, <2>1
    <2>4. 0 \in Int
      OBVIOUS
    <2> QED
      BY <1>11, <1>12, <2>2, <2>3, <2>4, Zenon
  <1>13. th'[t].del = th[t].del /\ \A x \in Exts : ext'[x].refs = ext[x].refs
    BY <1>1, <1>5 DEF KeepsDel, KeepsCounts
  <1> QED
    BY <1>5, <1>7, <1>8, <1>12, <1>13, CountsRelate

LEMMA CountsProcessNewRelations ==
  ASSUME Typed, Typed', Formed, Held, Held', Living, Living', Sound, Sound', Counts, NEW t \in Threads, OthersRest(t), ProcessNewRelations(t)
  PROVE  Counts'
  <1>1. /\ th[t].pc = "process" /\ th'[t].pc \in {"release", "record", "spin"} /\ th'[t].ret = th[t].ret
        /\ KeepsUse(t) /\ KeepsDel(t) /\ KeepsOp(t)
    BY EffectProcessNewRelations DEF Sound
  <1>2. CASE ext' = ext /\ KeepsFound(t)
    <2>1. Lull(t)
      BY <1>1, <1>2, LullExchanging DEF Exchanging, KeepsDel
    <2> QED
      BY <1>2, <2>1, Still, CountsCalm
  <1>3. CASE ~(ext' = ext /\ KeepsFound(t))
    <2>1. PICK v : v = Visit(ext, list, Only(Op(t).rels)).found
      OBVIOUS
    <2>2. /\ th'[t].pc = "record" /\ th'[t].old = th[t].old /\ th'[t].shadow = th[t].shadow /\ th'[t].new = {v}
          /\ th'[t].todo = th[t].todo /\ list' = list
          /\ \A x \in Exts : /\ KeepsMake(x) /\ KeepsLife(x) /\ KeepsMark(x) /\ KeepsRelations(x)
                             /\ ext'[x].refs = ext[x].refs + 1 * Times(v, x)
                             /\ ext'[x].rel = ext[x].rel + 1 * Times(v, x)
      BY <1>3, <2>1, EffectProcessNewRelations, Zenon
    <2>3. th[t].ops # <<>> /\ Op(t).rels # Null /\ th[t].new = Null
      BY <1>1 DEF Typed, Control, Standing, Op
    <2>4. v \in Seq(Exts) /\ \A i \in DOMAIN v : Listed(v[i])
      <3>1. list \in Seq(Exts) /\ Op(t).rels \in Reported
        BY <2>3, RelationFields DEF Typed, Types
      <3>2. Only(Op(t).rels) \in Seq(Devices)
        BY <2>3, <3>1 DEF Only, Null, Reported
      <3>3. Len(Only(Op(t).rels)) \in Nat
        BY <3>2
      <3>4. FoundIn(ext, list, v)
        BY <2>1, <3>1, <3>3, VisitFinds
      <3> QED
        BY <3>4 DEF FoundIn, Listed
    <2>5. Exchanged(t)' = Exchanged(t) /\ Op(t)' = Op(t)
      BY <1>1, <2>2 DEF Exchanged, Op, KeepsOp
    <2>6. Passes(t)
      <3>1. \A g \in Exts : ext'[g].shadow = ext[g].shadow /\ ext'[g].rels = ext[g].rels
        BY <2>2 DEF KeepsRelations
      <3> QED
        BY <2>1, <2>2, <2>3, <2>5, <3>1 DEF Passes
    <2>7. SameDrop(t) /\ \A x \in Exts : SameUse(t, x)
      <3>1. ~Owns(t) /\ ~Owns(t)' /\ (Hooks(t)' <=> Hooks(t))
        BY <1>1 DEF Owns, Adds, Hooks
      <3> QED
        BY <1>1, <3>1, UseRests
    <2>8. \A g \in Exts : Kept(g)' = Kept(g)
      BY <2>2 DEF Kept, KeepsLife, KeepsRelations
    <2>9. ASSUME NEW x \in Exts, Physical(x)
          PROVE  \E r \in Int : /\ IsFiniteSet(ByRelations(x)')
                                /\ Cardinality(ByRelations(x)') = Cardinality(ByRelations(x)) + r
                                /\ ext'[x].refs = ext[x].refs + r /\ ext'[x].rel = ext[x].rel + r
      <3>1. KeyPlaces("new", t, x) = {} /\ KeyPlaces("new", t, x)' = Places(v, x)
        BY <2>2, <2>3, PlacesInIs DEF KeyPlaces
      <3>2. IsFiniteSet(Places(v, x)) /\ Times(v, x) \in Nat
        BY <2>4, PlacesFinite
      <3>3. IsFiniteSet(KeyPlaces("new", t, x)) /\ IsFiniteSet(KeyPlaces("old", t, x)) /\ IsFiniteSet(KeyPlaces("new", t, x)')
        BY <3>1, <3>2, KeysFinite DEF KeyOf
      <3>4. ASSUME NEW p, NEW q, KeyOf(p, q), <<p, q>> # <<"new", t>>
            PROVE  KeyPlaces(p, q, x)' = KeyPlaces(p, q, x)
        <4>1. p = "kept" => Kept(q)' = Kept(q)
          BY <2>8, <3>4 DEF KeyOf
        <4> QED
          BY <2>2, <2>5, <3>4, <4>1, OtherKeys
      <3>5. IsFiniteSet(ByRelations(x))
        BY <2>9 DEF Counts, Exact
      <3>6. /\ IsFiniteSet(ByRelations(x)')
            /\ Cardinality(ByRelations(x)') =
                 Cardinality(ByRelations(x)) + (Cardinality(KeyPlaces("new", t, x)') - Cardinality(KeyPlaces("new", t, x)))
        BY <3>3, <3>4, <3>5, RelationsGain
      <3>7. PICK n \in Nat : n = Times(v, x)
        BY <3>2
      <3>8. Cardinality(KeyPlaces("new", t, x)') = n /\ Cardinality(KeyPlaces("new", t, x)) = 0
        BY <3>1, <3>7, FS_EmptySet DEF Times
      <3>9. Cardinality(ByRelations(x)) \in Int /\ ext[x].refs \in Int /\ ext[x].rel \in Int
        BY <3>5, FS_CardinalityType, ExtNumbers DEF Typed, Types
      <3>10. Cardinality(ByRelations(x)') = Cardinality(ByRelations(x)) + n
        BY <3>6, <3>8, <3>9
      <3>11. ext'[x].refs = ext[x].refs + n /\ ext'[x].rel = ext[x].rel + n
        <4>1. ext'[x].refs = ext[x].refs + 1 * n /\ ext'[x].rel = ext[x].rel + 1 * n
          BY <2>2, <3>7
        <4> QED
          BY <3>9, <4>1
      <3>12. n \in Int
        OBVIOUS
      <3> QED
        BY <3>6, <3>10, <3>11, <3>12, Zenon
    <2>10. ASSUME NEW x \in Exts, Physical(x), ext[x].refs = 0
           PROVE  ext'[x].refs = 0
      <3>1. ext[x].marked
        BY <2>10, Bare DEF Counts
      <3>2. ~Listed(x)
        BY <3>1 DEF Living, Lasting
      <3>3. Times(v, x) = 0
        BY <2>4, <3>2, PlacesFinite
      <3>4. ext'[x].refs = 0 + 1 * 0
        BY <2>2, <2>10, <3>3
      <3> QED
        BY <3>4
    <2>11. th'[t].del = th[t].del
      BY <1>1 DEF KeepsDel
    <2>12. \A x \in Exts : KeepsMake(x) /\ KeepsLife(x) /\ KeepsMark(x)
      BY <2>2
    <2> QED
      BY <2>6, <2>7, <2>9, <2>10, <2>11, <2>12, CountsRelate
  <1> QED
    BY <1>2, <1>3

LEMMA CountsReleaseOne ==
  ASSUME Typed, Typed', Formed, Held, Held', Living, Living', Sound, Sound', Counts, NEW t \in Threads, OthersRest(t), ReleaseOne(t)
  PROVE  Counts'
  <1>1. /\ th[t].pc = "releasing" /\ th[t].todo # <<>> /\ th'[t].pc = th[t].pc /\ th'[t].ret = th[t].ret
        /\ KeepsUse(t) /\ KeepsOp(t) /\ th'[t].new = th[t].new /\ th'[t].todo = Tail(th[t].todo)
    BY EffectReleaseOne
  <1>2. th[t].todo \in Seq(Exts)
    BY RelationFields
  <1>3. PICK d \in Exts : d = Head(th[t].todo)
    BY <1>1, <1>2
  <1>4. /\ th'[t].del = (IF ext[d].refs = 1 THEN d ELSE 0)
        /\ \A x \in Exts : /\ KeepsMake(x) /\ KeepsLife(x) /\ KeepsMark(x) /\ KeepsRelations(x)
                           /\ ext'[x].refs = (IF x = d THEN ext[x].refs - 1 ELSE ext[x].refs)
                           /\ ext'[x].rel = (IF x = d THEN ext[x].rel - 1 ELSE ext[x].rel)
    BY <1>3, EffectReleaseOne
  <1>5. th[t].new = Null
    BY <1>1 DEF Typed, Control, Standing
  <1>6. Exchanged(t)' = Null /\ Exchanged(t) = Null
    BY <1>1 DEF Exchanged
  <1>7. Passes(t)
    <2>1. \A g \in Exts : ext'[g].shadow = ext[g].shadow /\ ext'[g].rels = ext[g].rels
      BY <1>4 DEF KeepsRelations
    <2> QED
      BY <1>1, <1>5, <1>6, <2>1 DEF Passes
  <1>8. SameDrop(t) /\ \A x \in Exts : SameUse(t, x)
    <2>1. ~Owns(t) /\ ~Owns(t)' /\ (Hooks(t)' <=> Hooks(t))
      BY <1>1 DEF Owns, Adds, Hooks
    <2> QED
      BY <1>1, <2>1, UseRests
  <1>9. \A g \in Exts : Kept(g)' = Kept(g)
    BY <1>4 DEF Kept, KeepsLife, KeepsRelations
  <1>10. ASSUME NEW x \in Exts, Physical(x)
         PROVE  \E r \in Int : /\ IsFiniteSet(ByRelations(x)')
                               /\ Cardinality(ByRelations(x)') = Cardinality(ByRelations(x)) + r
                               /\ ext'[x].refs = ext[x].refs + r /\ ext'[x].rel = ext[x].rel + r
    <2>1. KeyPlaces("todo", t, x) = Places(th[t].todo, x) /\ KeyPlaces("todo", t, x)' = Places(Tail(th[t].todo), x)
      BY <1>1 DEF KeyPlaces
    <2>2. Tail(th[t].todo) \in Seq(Exts)
      BY <1>1, <1>2
    <2>3. IsFiniteSet(KeyPlaces("todo", t, x)) /\ IsFiniteSet(KeyPlaces("old", t, x)) /\ IsFiniteSet(KeyPlaces("todo", t, x)')
      BY <1>2, <2>1, <2>2, PlacesFinite, KeysFinite DEF KeyOf
    <2>4. ASSUME NEW p, NEW q, KeyOf(p, q), <<p, q>> # <<"todo", t>>
          PROVE  KeyPlaces(p, q, x)' = KeyPlaces(p, q, x)
      <3>1. p = "kept" => Kept(q)' = Kept(q)
        BY <1>9, <2>4 DEF KeyOf
      <3> QED
        BY <1>1, <1>6, <2>4, <3>1, OtherKeys
    <2>5. IsFiniteSet(ByRelations(x))
      BY <1>10 DEF Counts, Exact
    <2>6. /\ IsFiniteSet(ByRelations(x)')
          /\ Cardinality(ByRelations(x)') =
               Cardinality(ByRelations(x)) + (Cardinality(KeyPlaces("todo", t, x)') - Cardinality(KeyPlaces("todo", t, x)))
      BY <2>3, <2>4, <2>5, RelationsGain
    <2>7. PICK m, n \in Nat : m = Times(th[t].todo, x) /\ n = Times(Tail(th[t].todo), x)
      BY <1>2, <2>2, PlacesFinite
    <2>8. Cardinality(KeyPlaces("todo", t, x)') = n /\ Cardinality(KeyPlaces("todo", t, x)) = m
      BY <2>1, <2>7 DEF Times
    <2>9. PICK r \in Int : r = IF x = d THEN 0 - 1 ELSE 0
      OBVIOUS
    <2>10. n = m + r
      <3>1. n = m - (IF d = x THEN 1 ELSE 0)
        BY <1>1, <1>2, <1>3, <2>7, TimesTail
      <3> QED
        BY <2>9, <3>1
    <2>11. Cardinality(ByRelations(x)) \in Int /\ ext[x].refs \in Int /\ ext[x].rel \in Int
      BY <2>5, FS_CardinalityType, ExtNumbers DEF Typed, Types
    <2>12. Cardinality(ByRelations(x)') = Cardinality(ByRelations(x)) + r
      BY <2>6, <2>8, <2>10, <2>11
    <2>13. ext'[x].refs = ext[x].refs + r /\ ext'[x].rel = ext[x].rel + r
      BY <1>4, <2>9, <2>11
    <2> QED
      BY <2>6, <2>12, <2>13, Zenon
  <1>11. ASSUME NEW x \in Exts, Physical(x), ext[x].refs = 0
         PROVE  ext'[x].refs = 0
    <2>1. ByRelations(x) = {}
      BY <1>11, Bare DEF Counts
    <2>2. CASE x = d
      <3>1. 1 \in Places(th[t].todo, x)
        <4>1. 1 \in DOMAIN th[t].todo /\ th[t].todo[1] = d
          BY <1>1, <1>2, <1>3
        <4> QED
          BY <2>2, <4>1 DEF Places
      <3>2. <<"todo", t, 1>> \in ByRelations(x)
        BY <3>1 DEF ByRelations
      <3> QED
        BY <2>1, <3>2
    <2>3. CASE x # d
      BY <1>4, <1>11, <2>3
    <2> QED
      BY <2>2, <2>3
  <1>12. th'[t].del = 0 \/ ext'[th'[t].del].refs = 0
    BY <1>3, <1>4
  <1>13. \A x \in Exts : KeepsMake(x) /\ KeepsLife(x) /\ KeepsMark(x)
    BY <1>4
  <1> QED
    BY <1>7, <1>8, <1>10, <1>11, <1>12, <1>13, CountsRelate

LEMMA CountsReleaseOldRelations ==
  ASSUME Typed, Typed', Formed, Held, Held', Living, Living', Sound, Sound', Counts, NEW t \in Threads, OthersRest(t), ReleaseOldRelations(t)
  PROVE  Counts'
  <1>1. /\ th[t].pc = "release" /\ th'[t].ret = th[t].ret /\ KeepsUse(t) /\ KeepsDel(t) /\ KeepsOp(t)
        /\ th[t].ret \in {"unlock", "hook", "cleared"}
    BY EffectReleaseOldRelations, Holding
  <1>2. th[t].new = Null /\ th[t].todo = <<>>
    BY <1>1 DEF Typed, Control, Standing
  <1>3. Exchanged(t) = th[t].shadow
    BY <1>1 DEF Exchanged
  <1>4. CASE th'[t].pc = "spin"
    <2>1. ext' = ext /\ KeepsFound(t)
      BY <1>1, <1>4, EffectReleaseOldRelations
    <2>2. Lull(t)
      BY <1>1, <1>4, <2>1, LullExchanging DEF Exchanging, KeepsDel
    <2> QED
      BY <2>1, <2>2, Still, CountsCalm
  <1>5. CASE th'[t].pc = "crash"
    BY <1>1, <1>5, EffectReleaseOldRelations DEF Sound
  <1>6. CASE th'[t].pc \in {"unlock", "hook", "cleared"}
    <2>1. /\ th[t].shadow = Null /\ KeepsFound(t)
          /\ \/ ext' = ext
             \/ /\ Visit(ext, list, Only(th[t].old)).found = <<>>
                /\ \A x \in Exts :
                     /\ KeepsMake(x) /\ KeepsLife(x) /\ KeepsMark(x) /\ KeepsRelations(x)
                     /\ ext'[x].refs = (ext[x].refs + (0 - 1) * Times(Visit(ext, list, Only(th[t].old)).found, x))
                     /\ ext'[x].rel = (ext[x].rel + (0 - 1) * Times(Visit(ext, list, Only(th[t].old)).found, x))
      BY <1>6, EffectReleaseOldRelations DEF Sound
    <2>2. \A x \in Exts : KeepsMake(x) /\ KeepsLife(x) /\ KeepsMark(x) /\ KeepsRelations(x) /\ KeepsCounts(x)
      <3>1. CASE ext' = ext
        BY <3>1, Still
      <3>2. CASE ext' # ext
        <4>1. PICK v : v = Visit(ext, list, Only(th[t].old)).found
          OBVIOUS
        <4>2. v = <<>> /\ \A x \in Exts : /\ KeepsMake(x) /\ KeepsLife(x) /\ KeepsMark(x) /\ KeepsRelations(x)
                                          /\ ext'[x].refs = ext[x].refs + (0 - 1) * Times(v, x)
                                          /\ ext'[x].rel = ext[x].rel + (0 - 1) * Times(v, x)
          BY <2>1, <3>2, <4>1
        <4>3. \A x : Times(v, x) = 0
          BY <4>2, PlacesInIs, FS_EmptySet DEF Times
        <4>4. ASSUME NEW x \in Exts
              PROVE  KeepsCounts(x)
          <5>1. ext'[x].refs = ext[x].refs + (0 - 1) * 0 /\ ext'[x].rel = ext[x].rel + (0 - 1) * 0
            BY <4>2, <4>3
          <5>2. ext[x].refs \in Int /\ ext[x].rel \in Int
            BY ExtNumbers DEF Typed, Types
          <5> QED
            BY <5>1, <5>2 DEF KeepsCounts
        <4> QED
          BY <4>2, <4>4
      <3> QED
        BY <3>1, <3>2
    <2>3. Lull(t)
      <3>1. Exchanged(t)' = Null /\ Exchanged(t) = Null
        BY <1>3, <1>6, <2>1 DEF Exchanged
      <3>2. SameDrop(t) /\ \A x \in Exts : SameUse(t, x)
        <4>1. ~Owns(t) /\ ~Owns(t)' /\ (Hooks(t)' <=> Hooks(t))
          BY <1>1, <1>6 DEF Owns, Adds, Hooks
        <4> QED
          BY <1>1, <4>1, UseRests
      <3> QED
        BY <1>1, <1>2, <2>1, <3>1, <3>2 DEF Lull, SameKeys, KeepsFound, KeepsDel
    <2> QED
      BY <2>2, <2>3, CountsCalm
  <1>7. CASE th'[t].pc = "releasing"
    <2>1. /\ th[t].old # Null /\ th[t].shadow # Null /\ th'[t].old = th[t].old /\ th'[t].shadow = th[t].shadow
          /\ th'[t].new = th[t].new /\ th'[t].todo = Visit(ext, Only(th[t].shadow), Only(th[t].old)).found /\ ext' = ext
      BY <1>1, <1>7, EffectReleaseOldRelations
    <2>2. th[t].shadow = {Only(th[t].shadow)} /\ Only(th[t].shadow) \in th[t].shadow
      BY <2>1, RelationFields, SinglePointer DEF Related
    <2>3. PICK seq : seq = Only(th[t].shadow)
      OBVIOUS
    <2>4. th[t].shadow = {seq}
      BY <2>2, <2>3
    <2>5. Replays(seq, Only(th[t].old))
      BY <1>3, <2>2, <2>3 DEF Counts, Relational, Replayed
    <2>6. th'[t].todo = seq
      BY <2>1, <2>3, <2>5 DEF Replays
    <2>7. Exchanged(t)' = Null /\ Exchanged(t) = {seq}
      BY <1>3, <1>7, <2>4 DEF Exchanged
    <2>8. Passes(t)
      BY <1>2, <2>1, <2>7 DEF Passes
    <2>9. SameDrop(t) /\ \A x \in Exts : SameUse(t, x)
      <3>1. ~Owns(t) /\ ~Owns(t)' /\ (Hooks(t)' <=> Hooks(t))
        BY <1>1, <1>7 DEF Owns, Adds, Hooks
      <3> QED
        BY <1>1, <3>1, UseRests
    <2>10. \A x \in Exts : KeepsMake(x) /\ KeepsLife(x) /\ KeepsMark(x) /\ KeepsRelations(x) /\ KeepsCounts(x)
      BY <2>1, Still
    <2>11. \A g \in Exts : Kept(g)' = Kept(g)
      BY <2>1 DEF Kept
    <2>12. ASSUME NEW x \in Exts, Physical(x)
           PROVE  IsFiniteSet(ByRelations(x)') /\ Cardinality(ByRelations(x)') = Cardinality(ByRelations(x))
      <3>1. KeyPlaces("old", t, x)' = KeyPlaces("todo", t, x)
        BY <1>2, <2>7, PlacesInIs DEF KeyPlaces
      <3>2. KeyPlaces("todo", t, x)' = KeyPlaces("old", t, x)
        BY <2>6, <2>7, PlacesInIs DEF KeyPlaces
      <3>3. IsFiniteSet(KeyPlaces("old", t, x)) /\ IsFiniteSet(KeyPlaces("todo", t, x))
        BY KeysFinite DEF KeyOf
      <3>4. ASSUME NEW p, NEW q, KeyOf(p, q), <<p, q>> # <<"old", t>>, <<p, q>> # <<"todo", t>>
            PROVE  KeyPlaces(p, q, x)' = KeyPlaces(p, q, x)
        <4>1. p = "kept" => Kept(q)' = Kept(q)
          BY <2>11, <3>4 DEF KeyOf
        <4> QED
          BY <2>1, <3>4, <4>1, OtherKeys
      <3>5. IsFiniteSet(ByRelations(x))
        BY <2>12 DEF Counts, Exact
      <3> QED
        BY <3>1, <3>2, <3>3, <3>4, <3>5, RelationsDrop
    <2>13. ASSUME NEW x \in Exts, Physical(x)
           PROVE  \E r \in Int : /\ IsFiniteSet(ByRelations(x)')
                                 /\ Cardinality(ByRelations(x)') = Cardinality(ByRelations(x)) + r
                                 /\ ext'[x].refs = ext[x].refs + r /\ ext'[x].rel = ext[x].rel + r
      <3>1. Cardinality(ByRelations(x)) \in Int /\ ext[x].refs \in Int /\ ext[x].rel \in Int
        BY <2>13, FS_CardinalityType, ExtNumbers DEF Counts, Exact, Typed, Types
      <3>2. ext'[x].refs = ext[x].refs + 0 /\ ext'[x].rel = ext[x].rel + 0
        BY <2>1, <3>1
      <3>3. Cardinality(ByRelations(x)') = Cardinality(ByRelations(x)) + 0
        BY <2>12, <2>13, <3>1
      <3>4. 0 \in Int
        OBVIOUS
      <3> QED
        BY <2>12, <2>13, <3>2, <3>3, <3>4, Zenon
    <2>14. th'[t].del = th[t].del
      BY <1>1 DEF KeepsDel
    <2> QED
      BY <2>1, <2>8, <2>9, <2>10, <2>13, <2>14, CountsRelate
  <1>8. th'[t].pc \in {"spin", "crash", "unlock", "hook", "cleared", "releasing"}
    BY <1>1, EffectReleaseOldRelations
  <1> QED
    BY <1>4, <1>5, <1>6, <1>7, <1>8
-----------------------------------------------------------------------------
(* The counts: extensions that are made, and a filter device that goes *)

\* Nobody has anything to do with what is not made.
LEMMA Unpointed ==
  ASSUME Typed, Formed, NEW n \in Exts, ~Made(n)
  PROVE  /\ Users(n) = {} /\ Filters(n) = {} /\ ByRelations(n) = {}
         /\ \A t \in Threads : ~(Owns(t) /\ th[t].x = n)
  <1>1. \A t \in Threads : ~(Owns(t) /\ th[t].x = n) /\ ~(Hooks(t) /\ th[t].h = n)
    <2> TAKE t \in Threads
    <2>1. Pointers(t) /\ n # 0
      BY Numerals DEF Formed
    <2> QED
      BY <2>1 DEF Pointers, Physical
  <1>2. Users(n) = {}
    BY <1>1 DEF Users
  <1>3. Filters(n) = {}
    BY DEF Filters, Formed, Extension, Filter, Made, Physical
  <1>4. ASSUME NEW s, Related(s)
        PROVE  PlacesIn(s, n) = {}
    BY <1>4 DEF PlacesIn, Places, Related, Pdos
  <1>5. Related(Null)
    BY DEF Null, Related, Single
  <1>6. \A f \in Exts : PlacesIn(Kept(f), n) = {}
    BY <1>4, <1>5 DEF Kept, Formed, Extension
  <1>7. \A t \in Threads : PlacesIn(Exchanged(t), n) = {} /\ PlacesIn(th[t].new, n) = {}
    BY <1>4, RelationFields
  <1>8. \A t \in Threads : Places(th[t].todo, n) = {}
    BY DEF Formed, Pointers, Pdos, Places
  <1>9. ByRelations(n) = {}
    BY <1>6, <1>7, <1>8 DEF ByRelations
  <1> QED
    BY <1>1, <1>2, <1>3, <1>9

\* A virtual PDO is made, with the initial reference.
LEMMA CountsNewVirtual ==
  ASSUME Typed, Typed', Formed, Counts, NEW t \in Threads, OthersRest(t), Lull(t),
         NEW n \in Exts, ~Made(n), NEW d, ext'[n] = NewVirtual(d), \A x \in Exts : x # n => ext'[x] = ext[x]
  PROVE  Counts'
  <1>1. \A x \in Exts : x # n => /\ KeepsMake(x) /\ KeepsLife(x) /\ KeepsMark(x) /\ KeepsRelations(x) /\ KeepsCounts(x)
    BY DEF KeepsMake, KeepsLife, KeepsMark, KeepsRelations, KeepsCounts
  <1>2. PICK p : p = ext'[n]
    OBVIOUS
  <1>3. /\ p.life = "live" /\ p.kind \in {"pdo", "lower"} /\ ~p.marked /\ p.shadow = Null /\ p.refs = 1
        /\ p.rel = (IF p.kind = "pdo" THEN 1 ELSE 0)
    BY <1>2, NewVirtualIs
  <1>4. Virtual(n)' /\ ext'[n].life = "live" /\ ext'[n].shadow = Null /\ ext[n].life = "none"
    BY <1>2, <1>3 DEF Virtual, Made
  <1>5. \A x \in Exts : Made(x) => x # n
    OBVIOUS
  <1>6. Passes(t)
    <2>1. Exchanged(t)' = Null \/ (Exchanged(t)' = Exchanged(t) /\ th'[t].old = th[t].old)
      BY DEF Lull, SameKeys
    <2>2. th'[t].new = Null \/ (th'[t].new = th[t].new /\ Op(t)' = Op(t))
      BY DEF Lull, SameKeys
    <2>3. \A f \in Exts : ext'[f].shadow = Null \/ (ext'[f].shadow = ext[f].shadow /\ ext'[f].rels = ext[f].rels)
      BY <1>1, <1>4 DEF KeepsRelations
    <2> QED
      BY <2>1, <2>2, <2>3 DEF Passes
  <1>7. Relational'
    BY <1>1, <1>5, <1>6, RelationalMoves DEF Counts
  <1>8. Zero'
    <2>1. ASSUME NEW x \in Exts, Physical(x)', ext'[x].life = "freed"
          PROVE  Physical(x) /\ ext[x].life = "freed"
      <3>1. x # n
        BY <1>4, <2>1
      <3> QED
        BY <1>1, <2>1, <3>1 DEF Physical, Made, Virtual, KeepsMake, KeepsLife
    <2>2. \A x \in Exts : Physical(x) /\ ext[x].refs = 0 => ext'[x].refs = 0
      BY <1>1, <1>5 DEF KeepsCounts, Physical
    <2> QED
      BY <2>1, <2>2, ZeroMoves DEF Counts, Lull
  <1>9. \A f \in Exts : Kept(f)' = Kept(f)
    BY <1>1, <1>4 DEF Kept, KeepsLife, KeepsRelations
  <1>10. \A x \in Exts : ByRelations(x)' = ByRelations(x) /\ Cardinality(Users(x)') = Cardinality(Users(x))
    BY <1>9, RelationsStay, UsersStay DEF Lull
  <1>11. \A x \in Exts : Filters(x)' = Filters(x)
    <2>1. \A f \in Exts : \/ KeepsMake(f) /\ KeepsLife(f)
                          \/ (Virtual(f) \/ ext[f].life # "live") /\ (Virtual(f)' \/ ext'[f].life # "live")
      BY <1>1, <1>4
    <2> QED
      BY <2>1, FiltersStay
  <1>12. ASSUME NEW x \in Exts, x # n, Physical(x)'
         PROVE  Exact(x)'
    <2>1. Exact(x)
      BY <1>1, <1>12 DEF Counts, Physical, Made, Virtual, KeepsMake, KeepsLife
    <2>2. Initial(x)' = Initial(x)
      BY <1>1, <1>12, InitialStays DEF Lull
    <2>3. ext'[x].kind = ext[x].kind /\ KeepsCounts(x)
      BY <1>1, <1>12 DEF KeepsMake
    <2> QED
      BY <1>10, <1>11, <2>1, <2>2, <2>3, ExactStays
  <1>13. Exact(n)'
    <2>1. Initial(n)' = 1
      BY <1>2, <1>3 DEF Initial
    <2>2. Users(n) = {} /\ Filters(n)' = {} /\ ByRelations(n)' = {}
      BY <1>10, <1>11, Unpointed
    <2>3. Cardinality(Users(n)') = 0 /\ Cardinality(Filters(n)') = 0 /\ Cardinality(ByRelations(n)') = 0 /\ IsFiniteSet(ByRelations(n)')
      BY <1>10, <2>2, FS_EmptySet
    <2>4. ext'[n].refs = 1 /\ ext'[n].rel = (IF ext'[n].kind = "pdo" THEN 1 ELSE 0)
      BY <1>2, <1>3
    <2>5. ext'[n].refs = Initial(n)' + 0 + 0 + 0 /\ ext'[n].rel = (IF ext'[n].kind = "pdo" THEN 1 ELSE 0) + 0 + 0
      BY <2>1, <2>4
    <2> QED
      BY <2>3, <2>5 DEF Exact
  <1> QED
    BY <1>7, <1>8, <1>12, <1>13 DEF Counts

LEMMA CountsAddDeviceFTI ==
  ASSUME Typed, Typed', Formed, Held, Held', Living, Living', Sound, Sound', Counts, NEW t \in Threads, OthersRest(t), AddDeviceFTI(t)
  PROVE  Counts'
  <1>1. /\ th[t].pc = "next" /\ th'[t].pc \in {"find", "done"} /\ th'[t].ret = th[t].ret
        /\ KeepsUse(t) /\ KeepsDel(t) /\ KeepsFound(t)
    BY EffectAddDeviceFTI
  <1>2. Lull(t)
    BY <1>1, LullIf DEF Owns, Adds, Hooks, Drops, Exchanging, KeepsUse, KeepsFound, KeepsDel
  <1>3. CASE ext' = ext
    BY <1>2, <1>3, Still, CountsCalm
  <1>4. CASE ext' # ext
    <2>1. PICK n \in Exts : n = Fresh
      BY <1>4, EffectAddDeviceFTI
    <2>2. ext[n].life = "none" /\ ext'[n] = NewVirtual(Op(t).dev) /\ \A x \in Exts : x # n => ext'[x] = ext[x]
      BY <1>4, <2>1, EffectAddDeviceFTI
    <2> QED
      BY <1>2, <2>2, CountsNewVirtual DEF Made
  <1> QED
    BY <1>3, <1>4

LEMMA CountsAddVirtualDeviceForPdo ==
  ASSUME Typed, Typed', Formed, Held, Held', Living, Living', Sound, Sound', Counts, NEW t \in Threads, OthersRest(t), AddVirtualDeviceForPdo(t)
  PROVE  Counts'
  <1>1. /\ th[t].pc = "virtual" /\ th'[t].pc \in {"find", "done", "hookstate"} /\ th'[t].ret = th[t].ret
        /\ KeepsUse(t) /\ KeepsDel(t) /\ KeepsFound(t)
    BY EffectAddVirtualDeviceForPdo, Holding
  <1>2. Lull(t)
    BY <1>1, LullIf DEF Owns, Adds, Hooks, Drops, Exchanging, KeepsUse, KeepsFound, KeepsDel
  <1>3. CASE ext' = ext
    BY <1>2, <1>3, Still, CountsCalm
  <1>4. CASE ext' # ext
    <2>1. PICK n \in Exts : n = Fresh
      BY <1>4, EffectAddVirtualDeviceForPdo
    <2>2. ext[n].life = "none" /\ ext'[n] = NewVirtual(Op(t).dev) /\ \A x \in Exts : x # n => ext'[x] = ext[x]
      BY <1>4, <2>1, EffectAddVirtualDeviceForPdo
    <2> QED
      BY <1>2, <2>2, CountsNewVirtual DEF Made
  <1> QED
    BY <1>3, <1>4

LEMMA CountsAttachFilterDevice ==
  ASSUME Typed, Typed', Formed, Held, Held', Living, Living', Sound, Sound', Counts, NEW t \in Threads, OthersRest(t), AttachFilterDevice(t)
  PROVE  Counts'
  <1>1. PICK n \in Exts : n = Fresh
    BY EffectAttachFilterDevice
  <1>2. /\ th[t].pc = "create" /\ th'[t].pc = "report" /\ th'[t].ret = th[t].ret /\ th'[t].x = th[t].x /\ th'[t].h = th[t].h
        /\ KeepsDel(t) /\ KeepsFound(t) /\ KeepsOp(t) /\ ext[n].life = "none"
        /\ ext'[n] = [Added(Op(t).dev, "filter") EXCEPT !.vpdo = th[t].x]
    BY <1>1, EffectAttachFilterDevice
  <1>3. PICK d \in Exts : d = th[t].x /\ Physical(d)
    BY <1>2, Working DEF Owns, Adds
  <1>4. \A x \in Exts : x # n => /\ KeepsMake(x) /\ KeepsLife(x) /\ KeepsMark(x) /\ KeepsRelations(x)
                                 /\ ext'[x].refs = (IF x = d THEN ext[x].refs + 1 ELSE ext[x].refs)
                                 /\ ext'[x].rel = (IF x = d THEN ext[x].rel + 1 ELSE ext[x].rel)
    BY <1>1, <1>3, EffectAttachFilterDevice
  <1>5. ext'[n].life = "live" /\ ~Virtual(n)' /\ ext'[n].vpdo = d /\ ext'[n].shadow = Null /\ ~Made(n) /\ d # n
    <2>1. PICK p : p = ext'[n]
      OBVIOUS
    <2>2. p.life = "live" /\ p.kind = "filter" /\ p.vpdo = d /\ p.shadow = Null
      BY <1>2, <1>3, <2>1, NewFilterIs
    <2>3. ~Made(n) /\ Made(d)
      BY <1>2, <1>3 DEF Made, Physical
    <2> QED
      BY <2>1, <2>2, <2>3 DEF Virtual
  <1>6. Lull(t)
    <2>1. Owns(t) /\ Owns(t)' /\ (Hooks(t)' <=> Hooks(t)) /\ ~Drops(t) /\ ~Drops(t)'
      BY <1>2 DEF Owns, Adds, Hooks, Drops
    <2> QED
      BY <1>2, <2>1, LullIf DEF Exchanging, KeepsFound, KeepsDel
  <1>7. Passes(t)
    <2>1. Exchanged(t)' = Null \/ (Exchanged(t)' = Exchanged(t) /\ th'[t].old = th[t].old)
      BY <1>6 DEF Lull, SameKeys
    <2>2. th'[t].new = Null \/ (th'[t].new = th[t].new /\ Op(t)' = Op(t))
      BY <1>6 DEF Lull, SameKeys
    <2>3. \A f \in Exts : ext'[f].shadow = Null \/ (ext'[f].shadow = ext[f].shadow /\ ext'[f].rels = ext[f].rels)
      BY <1>4, <1>5 DEF KeepsRelations
    <2> QED
      BY <2>1, <2>2, <2>3 DEF Passes
  <1>8. Relational'
    BY <1>4, <1>5, <1>7, RelationalMoves DEF Counts
  <1>9. \A x \in Exts : Physical(x)' => x # n /\ Physical(x)
    <2> SUFFICES ASSUME NEW x \in Exts, Physical(x)'
                 PROVE  x # n /\ Physical(x)
      OBVIOUS
    <2>1. x # n
      BY <1>5 DEF Physical
    <2> QED
      BY <1>4, <2>1 DEF Physical, Made, Virtual, KeepsMake, KeepsLife
  <1>10. ASSUME NEW x \in Exts, Physical(x), ext[x].refs = 0
         PROVE  ext'[x].refs = 0
    <2>1. UsesBy("own", t, d)
      BY <1>2, <1>3 DEF UsesBy, Owns, Adds
    <2>2. x # d
      BY <1>10, <2>1, Bare DEF Counts, UseKinds
    <2>3. x # n
      BY <1>5, <1>10 DEF Physical
    <2> QED
      BY <1>4, <1>10, <2>2, <2>3
  <1>11. Zero'
    <2>1. \A x \in Exts : Physical(x)' /\ ext'[x].life = "freed" =>
                            Physical(x) /\ (ext[x].life = "freed" \/ x = th[t].del)
      BY <1>4, <1>9 DEF KeepsLife
    <2> QED
      BY <1>6, <1>10, <2>1, ZeroMoves DEF Counts, Lull
  <1>12. \A f \in Exts : Kept(f)' = Kept(f)
    BY <1>2, <1>4, <1>5 DEF Kept, KeepsLife, KeepsRelations
  <1>13. \A x \in Exts : ByRelations(x)' = ByRelations(x) /\ Cardinality(Users(x)') = Cardinality(Users(x))
    BY <1>6, <1>12, RelationsStay, UsersStay DEF Lull
  <1>14. \A x \in Exts : \A f \in Exts : f \in Filters(x)' <=> f \in Filters(x) \/ (f = n /\ x = d)
    <2> SUFFICES ASSUME NEW x \in Exts, NEW f \in Exts
                 PROVE  f \in Filters(x)' <=> f \in Filters(x) \/ (f = n /\ x = d)
      OBVIOUS
    <2>1. f \in Filters(x)' <=> ext'[f].life = "live" /\ ~Virtual(f)' /\ ext'[f].vpdo = x
      BY DEF Filters
    <2>2. f \in Filters(x) <=> ext[f].life = "live" /\ ~Virtual(f) /\ ext[f].vpdo = x
      BY DEF Filters
    <2>3. CASE f = n
      BY <1>2, <1>5, <2>1, <2>2, <2>3
    <2>4. CASE f # n
      BY <1>4, <2>1, <2>2, <2>4 DEF KeepsMake, KeepsLife, Virtual
    <2> QED
      BY <2>3, <2>4
  <1>15. ASSUME NEW x \in Exts, Physical(x)'
         PROVE  Exact(x)'
    <2>1. x # n /\ Exact(x)
      BY <1>9, <1>15 DEF Counts
    <2>2. Initial(x)' = Initial(x)
      BY <1>4, <1>6, <2>1, InitialStays DEF Lull
    <2>3. Initial(x) \in Int /\ Cardinality(Users(x)) \in Int /\ Cardinality(ByRelations(x)) \in Int /\ ext[x].refs \in Int
          /\ ext[x].rel \in Int /\ Cardinality(Filters(x)) \in Int /\ IsFiniteSet(Filters(x)) /\ IsFiniteSet(ByRelations(x))
      BY <2>1, HoldsFinite, FS_CardinalityType, ExtNumbers DEF Initial, Exact, Typed, Types
    <2>4. ext'[x].kind = ext[x].kind
      BY <1>4, <2>1 DEF KeepsMake
    <2>5. PICK i \in Int : i = IF x = d THEN 1 ELSE 0
      OBVIOUS
    <2>6. Cardinality(Filters(x)') = Cardinality(Filters(x)) + i
      <3>1. Filters(x)' \subseteq Exts /\ Filters(x) \subseteq Exts
        BY DEF Filters
      <3>2. CASE x = d
        <4>1. Filters(x)' = Filters(x) \cup {n}
          BY <1>14, <3>1, <3>2
        <4>2. n \notin Filters(x)
          BY <1>2 DEF Filters
        <4> QED
          BY <2>3, <2>5, <3>2, <4>1, <4>2, OneMore
      <3>3. CASE x # d
        <4>1. Filters(x)' = Filters(x)
          BY <1>14, <3>1, <3>3
        <4> QED
          BY <2>3, <2>5, <3>3, <4>1
      <3> QED
        BY <3>2, <3>3
    <2>7. Initial(x)' = Initial(x) + 0
      BY <2>2, <2>3
    <2>8. Cardinality(Users(x)') = Cardinality(Users(x)) + 0
      BY <1>13, <2>3
    <2>9. IsFiniteSet(ByRelations(x)') /\ Cardinality(ByRelations(x)') = Cardinality(ByRelations(x)) + 0
      BY <1>13, <2>3
    <2>10. ext'[x].refs = ext[x].refs + i /\ ext'[x].rel = ext[x].rel + i
      BY <1>4, <2>1, <2>3, <2>5
    <2>11. i = 0 + i + 0 + 0 /\ i = i + 0 /\ 0 \in Int
      OBVIOUS
    <2>12. Delta(x, 0, i, 0, 0)
      BY <2>6, <2>7, <2>8, <2>9, <2>10, <2>11, Zenon DEF Delta
    <2> QED
      BY <2>1, <2>4, <2>11, <2>12, ExactDelta
  <1> QED
    BY <1>8, <1>11, <1>15 DEF Counts

LEMMA CountsClearFilterDeviceExtension ==
  ASSUME Typed, Typed', Formed, Held, Held', Living, Living', Sound, Sound', Counts, NEW t \in Threads, OthersRest(t), ClearFilterDeviceExtension(t)
  PROVE  Counts'
  <1>1. /\ th[t].pc = "cleared" /\ Op(t).do \in {"remove", "detach"} /\ th[t].ret \in {"hook", "cleared"}
        /\ th'[t].pc = "delete" /\ th'[t].ret = "done" /\ th'[t].x = ext[th[t].f].vpdo /\ th'[t].h = th[t].h
        /\ KeepsDel(t) /\ KeepsFound(t) /\ KeepsOp(t)
    BY EffectClearFilterDeviceExtension, Holding
  <1>2. Removes(t)
    BY <1>1 DEF Removes, Does
  <1>3. PICK f \in Exts : f = th[t].f /\ ext[f].life = "live" /\ ext[f].shadow = Null /\ Filter(f)
    BY <1>1, <1>2, Working DEF Living, Removal
  <1>4. PICK d \in Exts : d = ext[f].vpdo /\ Physical(d)
    <2>1. ext[f].vpdo # 0 /\ Physical(ext[f].vpdo)
      BY <1>3 DEF Formed, Extension
    <2>2. ext[f].vpdo \in 0..MaxExts
      <3>1. PICK p \in ExtTypes : p = ext[f]
        BY DEF Typed, Types
      <3> QED
        BY <3>1 DEF ExtTypes
    <2> QED
      BY <2>1, <2>2, Numerals
  <1>5. \A x \in Exts : /\ KeepsMake(x) /\ ext'[x].life = (IF x = f THEN "freed" ELSE ext[x].life)
                        /\ KeepsMark(x) /\ KeepsRelations(x) /\ ext'[x].refs = ext[x].refs
                        /\ ext'[x].rel = (IF x = d THEN ext[x].rel - 1 ELSE ext[x].rel)
    BY <1>3, <1>4, EffectClearFilterDeviceExtension
  <1>6. SameKeys(t) /\ Exchanged(t) = Null /\ th[t].new = Null
    BY <1>1, KeysRest DEF Exchanging
  <1>7. Passes(t)
    <2>1. \A g \in Exts : ext'[g].shadow = ext[g].shadow /\ ext'[g].rels = ext[g].rels
      BY <1>5 DEF KeepsRelations
    <2> QED
      BY <1>6, <2>1 DEF Passes, SameKeys
  <1>8. Relational'
    BY <1>5, <1>7, RelationalMoves DEF Counts
  <1>9. \A x \in Exts : Physical(x)' => x # f /\ Physical(x)
    BY <1>3, <1>5 DEF Physical, Filter, Made, Virtual, KeepsMake
  <1>10. Zero'
    <2>1. \A x \in Exts : Physical(x)' /\ ext'[x].life = "freed" =>
                            Physical(x) /\ (ext[x].life = "freed" \/ x = th[t].del)
      BY <1>5, <1>9
    <2>2. \A x \in Exts : Physical(x) /\ ext[x].refs = 0 => ext'[x].refs = 0
      BY <1>5
    <2>3. th'[t].del = th[t].del
      BY <1>1 DEF KeepsDel
    <2> QED
      BY <2>1, <2>2, <2>3, ZeroMoves DEF Counts
  <1>11. \A g \in Exts : Kept(g)' = Kept(g)
    BY <1>3, <1>5 DEF Kept, KeepsRelations
  <1>12. \A x \in Exts : ByRelations(x)' = ByRelations(x)
    BY <1>6, <1>11, RelationsStay
  <1>13. SameDrop(t)
    BY <1>1 DEF SameDrop, Drops
  <1>14. \A x \in Exts : \A g \in Exts : g \in Filters(x)' <=> g \in Filters(x) /\ g # f
    <2> SUFFICES ASSUME NEW x \in Exts, NEW g \in Exts
                 PROVE  g \in Filters(x)' <=> g \in Filters(x) /\ g # f
      OBVIOUS
    <2>1. g \in Filters(x)' <=> ext'[g].life = "live" /\ ~Virtual(g)' /\ ext'[g].vpdo = x
      BY DEF Filters
    <2>2. g \in Filters(x) <=> ext[g].life = "live" /\ ~Virtual(g) /\ ext[g].vpdo = x
      BY DEF Filters
    <2> QED
      BY <1>5, <2>1, <2>2 DEF KeepsMake, Virtual
  <1>15. ASSUME NEW x \in Exts
         PROVE  UsesBy("own", t, x)' <=> x = d
    BY <1>1, <1>3, <1>4 DEF UsesBy, Owns
  <1>16. ASSUME NEW x \in Exts, Physical(x)'
         PROVE  Exact(x)'
    <2>1. x # f /\ Exact(x)
      BY <1>9, <1>16 DEF Counts
    <2>2. Initial(x)' = Initial(x)
      BY <1>5, <1>13, InitialStays
    <2>3. Initial(x) \in Int /\ Cardinality(Users(x)) \in Int /\ Cardinality(ByRelations(x)) \in Int /\ ext[x].refs \in Int
          /\ ext[x].rel \in Int /\ Cardinality(Filters(x)) \in Int /\ IsFiniteSet(Filters(x)) /\ IsFiniteSet(ByRelations(x))
      BY <2>1, HoldsFinite, FS_CardinalityType, ExtNumbers DEF Initial, Exact, Typed, Types
    <2>4. ext'[x].kind = ext[x].kind
      BY <1>5 DEF KeepsMake
    <2>5. PICK i, j \in Int : i = (IF x = d THEN 0 - 1 ELSE 0) /\ j = (IF x = d THEN 1 ELSE 0)
      OBVIOUS
    <2>6. Cardinality(Filters(x)') = Cardinality(Filters(x)) + i
      <3>1. Filters(x)' \subseteq Exts /\ Filters(x) \subseteq Exts
        BY DEF Filters
      <3>2. Filters(x)' = Filters(x) \ {f}
        BY <1>14, <3>1
      <3>3. f \in Filters(x) <=> x = d
        BY <1>3, <1>4 DEF Filters, Filter
      <3>4. CASE x = d
        BY <2>3, <2>5, <3>2, <3>3, <3>4, OneLess
      <3>5. CASE x # d
        <4>1. Filters(x)' = Filters(x)
          BY <3>2, <3>3, <3>5
        <4> QED
          BY <2>3, <2>5, <3>5, <4>1
      <3> QED
        BY <3>4, <3>5
    <2>7. Initial(x)' = Initial(x) + 0
      BY <2>2, <2>3
    <2>8. Cardinality(Users(x)') = Cardinality(Users(x)) + j
      <3>1. ~UsesBy("own", t, x)
        BY <1>1 DEF UsesBy, Owns, Adds
      <3>2. \A g \in UseKinds \ {"own"} : UsesBy(g, t, x)' = UsesBy(g, t, x)
        <4>1. ~Hooks(t) /\ ~Hooks(t)'
          BY <1>1 DEF Hooks
        <4> QED
          BY <4>1, Zenon DEF UseKinds, UsesBy
      <3>3. Cardinality(Users(x)') = Cardinality(Users(x)) + (IF UsesBy("own", t, x)' THEN 1 ELSE 0)
                                                          - (IF UsesBy("own", t, x) THEN 1 ELSE 0)
        BY <3>2, UsersMove DEF UseKinds
      <3>4. CASE x = d
        BY <1>15, <2>3, <2>5, <3>1, <3>3, <3>4
      <3>5. CASE x # d
        BY <1>15, <2>3, <2>5, <3>1, <3>3, <3>5
      <3> QED
        BY <3>4, <3>5
    <2>9. IsFiniteSet(ByRelations(x)') /\ Cardinality(ByRelations(x)') = Cardinality(ByRelations(x)) + 0
      BY <1>12, <2>3
    <2>10. ext'[x].refs = ext[x].refs + (0 + i + 0 + j) /\ ext'[x].rel = ext[x].rel + (i + 0)
      <3>1. ext'[x].refs = ext[x].refs /\ ext'[x].rel = (IF x = d THEN ext[x].rel - 1 ELSE ext[x].rel)
        BY <1>5
      <3>2. 0 + i + 0 + j = 0
        BY <2>5
      <3> QED
        BY <2>3, <2>5, <3>1, <3>2
    <2>11. 0 \in Int
      OBVIOUS
    <2>12. Delta(x, 0, i, 0, j)
      BY <2>6, <2>7, <2>8, <2>9, <2>10, Zenon DEF Delta
    <2> QED
      BY <2>1, <2>4, <2>11, <2>12, ExactDelta
  <1> QED
    BY <1>8, <1>10, <1>16 DEF Counts


-----------------------------------------------------------------------------
(* The counts are exact until a defect is met *)

LEMMA CountsStep ==
  ASSUME Typed, Typed', Formed, Held, Held', Living, Living', Sound, Sound', Counts, NEW t \in Threads, OthersRest(t), Step(t)
  PROVE  Counts'
  <1>1. CASE Deletion(t)
    BY <1>1, CountsRender, CountsCloseVirtualPdo, CountsDeleteVirtualPdoByExtensionInternal, CountsDeleteVirtualPdoByExtension, CountsDropInitialReference, CountsDereferenceVirtualPdo, Zenon DEF Deletion
  <1>2. CASE Relations(t)
    BY <1>2, CountsProcessNewRelations, CountsRecordShadow, CountsReleaseOldRelations, CountsReleaseOne, CountsReleasedAll, Zenon DEF Relations
  <1>3. CASE Requests(t)
    BY <1>3, CountsDispatchRequest, CountsFilterPass, CountsQueryDeviceRelations, CountsQueryCompleted, CountsStartDevice, CountsStarted, CountsRemoveDevice, CountsFastIoDetachDevice, CountsRemoveDeviceFromTheList, CountsFreeAllDeviceRelations, CountsClearFilterDeviceExtension, Zenon DEF Requests
  <1>4. CASE Hook(t)
    BY <1>4, CountsPnPMajorHookDispatch, CountsSetPdoState, CountsCallOriginal, CountsDriverUnloadHook, Zenon DEF Hook
  <1>5. CASE Adding(t)
    BY <1>5, CountsAddDevice, CountsAddDeviceFTI, CountsFindVirtualPdo, CountsAddVirtualDeviceForPdo, CountsAddFails, CountsAttachFilterDevice, CountsReportAddedDevice, CountsInsertInList, CountsAddedDevice, Zenon DEF Adding
  <1>6. CASE Reporting(t)
    BY <1>6, CountsReportExisitingDevices, CountsNextReportedDevice, CountsReportExistingDevice, CountsReadState, CountsReportExistingState, Zenon DEF Reporting
  <1>7. CASE Done(t)
    BY <1>7, CountsDone, Zenon
  <1> QED
    BY <1>1, <1>2, <1>3, <1>4, <1>5, <1>6, <1>7 DEF Step

\* A defect that was met stays on record.
LEMMA BrokenStep ==
  ASSUME Typed, NEW t \in Threads, Step(t)
  PROVE  broken \subseteq broken'
  <1>1. CASE Deletion(t)
    BY <1>1, EffectRender, EffectCloseVirtualPdo, EffectDeleteVirtualPdoByExtensionInternal, EffectDeleteVirtualPdoByExtension, EffectDropInitialReference, EffectDereferenceVirtualPdo, Zenon DEF Deletion
  <1>2. CASE Relations(t)
    BY <1>2, EffectProcessNewRelations, EffectRecordShadow, EffectReleaseOldRelations, EffectReleaseOne, EffectReleasedAll, Zenon DEF Relations
  <1>3. CASE Requests(t)
    BY <1>3, EffectDispatchRequest, EffectFilterPass, EffectQueryDeviceRelations, EffectQueryCompleted, EffectStartDevice, EffectStarted, EffectRemoveDevice, EffectFastIoDetachDevice, EffectRemoveDeviceFromTheList, EffectFreeAllDeviceRelations, EffectClearFilterDeviceExtension, Zenon DEF Requests
  <1>4. CASE Hook(t)
    BY <1>4, EffectPnPMajorHookDispatch, EffectSetPdoState, EffectCallOriginal, EffectDriverUnloadHook, Zenon DEF Hook
  <1>5. CASE Adding(t)
    BY <1>5, EffectAddDevice, EffectAddDeviceFTI, EffectFindVirtualPdo, EffectAddVirtualDeviceForPdo, EffectAddFails, EffectAttachFilterDevice, EffectReportAddedDevice, EffectInsertInList, EffectAddedDevice, Zenon DEF Adding
  <1>6. CASE Reporting(t)
    BY <1>6, EffectReportExisitingDevices, EffectNextReportedDevice, EffectReportExistingDevice, EffectReadState, EffectReportExistingState, Zenon DEF Reporting
  <1>7. CASE Done(t)
    BY <1>7, EffectDone, Zenon
  <1> QED
    BY <1>1, <1>2, <1>3, <1>4, <1>5, <1>6, <1>7 DEF Step

LEMMA CountsRest ==
  ASSUME Counts, UNCHANGED vars
  PROVE  Counts'
  <1>1. \A x \in Exts : Filters(x)' = Filters(x) /\ ByRelations(x)' = ByRelations(x) /\ Users(x)' = Users(x)
                        /\ Initial(x)' = Initial(x) /\ (Physical(x)' <=> Physical(x))
    BY DEF vars, Filters, ByRelations, Users, Initial, Physical, Made, Virtual, PlacesIn, Kept, Exchanged, Owns, Adds, Hooks
  <1>2. Relational'
    BY DEF vars, Counts, Relational, Replayed, Replays, Exchanged, Op
  <1>3. Zero'
    BY DEF vars, Counts, Zero, Physical, Made, Virtual
  <1>4. \A x \in Exts : ext'[x] = ext[x]
    BY DEF vars
  <1>5. \A x \in Exts : Physical(x)' => Exact(x)'
    BY <1>1, <1>4 DEF Counts, Exact
  <1> QED
    BY <1>2, <1>3, <1>5 DEF Counts

LEMMA CountingSteps ==
  /\ Typed /\ Typed' /\ Formed /\ Held /\ Held' /\ Living /\ Living' /\ Counting
  /\ [Next]_vars
  => Counting'
  <1> SUFFICES ASSUME Typed, Typed', Formed, Held, Held', Living, Living', Counting, [Next]_vars, Sound'
               PROVE  Counts'
    BY DEF Counting
  <1>1. CASE UNCHANGED vars
    BY <1>1, CountsRest DEF Counting, Sound, vars
  <1>2. CASE Next
    <2>1. PICK t \in Threads : Step(t)
      BY <1>2 DEF Next, Step
    <2>2. OthersRest(t)
      BY <2>1, TypedStep
    <2>3. Sound
      BY <2>1, BrokenStep DEF Sound
    <2> QED
      BY <2>1, <2>2, <2>3, CountsStep DEF Counting
  <1> QED
    BY <1>1, <1>2

\* At first a virtual PDO has its initial reference and that of its filter
\* device, which is the next extension.
LEMMA BeginsCounts ==
  ASSUME Init
  PROVE  Counts
  <1>0. Len(Boot) \in Nat /\ 2 * Len(Boot) <= MaxExts /\ MaxExts \in Nat
    BY PnPFilterAssumption
  <1>1. ASSUME NEW x \in Exts
        PROVE  ext[x].shadow = Null /\ ~ext[x].marked /\ ext[x].life # "freed"
    <2>1. x \in Nat
      BY Numerals
    <2>2. CASE x <= 2 * Len(Boot)
      BY <2>2, BootIs, BootFields
    <2>3. CASE x > 2 * Len(Boot)
      BY <2>3, BootIs, NoFields
    <2> QED
      BY <1>0, <2>1, <2>2, <2>3
  <1>2. Relational
    <2>1. \A t \in Threads : Exchanged(t) = Null /\ th[t].new = Null
      BY InitThread DEF Exchanged, Null
    <2> QED
      BY <1>1, <2>1 DEF Relational, Replayed, Null
  <1>3. Zero
    BY <1>1, InitThread DEF Zero
  <1>4. ASSUME NEW x \in Exts
        PROVE  ByRelations(x) = {} /\ Users(x) = {} /\ Initial(x) = 1
    <2>1. \A f \in Exts : Kept(f) = Null
      BY <1>1 DEF Kept
    <2>2. \A t \in Threads : Exchanged(t) = Null /\ th[t].new = Null /\ th[t].todo = <<>>
      BY InitThread DEF Exchanged, Null
    <2>3. PlacesIn(Null, x) = {} /\ Places(<<>>, x) = {}
      BY DEF PlacesIn, Places, Null
    <2>4. ByRelations(x) = {}
      BY <2>1, <2>2, <2>3 DEF ByRelations
    <2>5. \A t \in Threads : ~Owns(t) /\ ~Hooks(t)
      BY InitThread DEF Owns, Adds, Hooks
    <2>6. Users(x) = {}
      BY <2>5 DEF Users
    <2> QED
      BY <1>1, <2>4, <2>6 DEF Initial
  <1>5. ASSUME NEW x \in Exts, Physical(x)
        PROVE  /\ x % 2 = 1 /\ x + 1 \in Exts /\ Filters(x) = {x + 1}
               /\ ext[x].refs = 2 /\ ext[x].rel = 2 /\ ext[x].kind = "pdo"
    <2>1. x \in Nat /\ x # 0
      BY Numerals
    <2>2. x <= 2 * Len(Boot)
      <3>1. ~(x > 2 * Len(Boot))
        BY <1>5, BootIs, NoFields DEF Physical, Made
      <3> QED
        BY <1>0, <2>1, <3>1
    <2>3. x % 2 = 1
      BY <1>5, <2>2, BootIs, BootFields DEF Physical, Virtual
    <2>4. x + 1 <= 2 * Len(Boot) /\ x + 1 \in Exts /\ (x + 1) % 2 # 1 /\ (x + 1) - 1 = x
      BY <1>0, <2>1, <2>2, <2>3 DEF Exts
    <2>5. /\ ext[x + 1].life = "live" /\ ext[x + 1].kind = "filter" /\ ext[x + 1].vpdo = x
      BY <2>4, BootIs, BootFields
    <2>6. ASSUME NEW f \in Exts, ext[f].life = "live", ~Virtual(f), ext[f].vpdo = x
          PROVE  f = x + 1
      <3>1. f \in Nat
        BY Numerals
      <3>2. f <= 2 * Len(Boot)
        <4>1. ~(f > 2 * Len(Boot))
          BY <2>6, BootIs, NoFields
        <4> QED
          BY <1>0, <3>1, <4>1
      <3>3. f % 2 # 1 /\ f - 1 = x
        BY <2>6, <3>2, BootIs, BootFields DEF Virtual
      <3> QED
        BY <2>1, <3>1, <3>3
    <2>7. Filters(x) = {x + 1}
      BY <2>4, <2>5, <2>6 DEF Filters, Virtual
    <2>8. ext[x].refs = 2 /\ ext[x].rel = 2 /\ ext[x].kind = "pdo"
      BY <2>2, <2>3, BootIs, BootFields
    <2> QED
      BY <2>3, <2>4, <2>7, <2>8
  <1>6. ASSUME NEW x \in Exts, Physical(x)
        PROVE  Exact(x)
    <2>1. PICK f \in Exts : Filters(x) = {f}
      BY <1>6, <1>5
    <2>2. Cardinality(Filters(x)) = 1
      BY <2>1, FS_Singleton
    <2>3. Cardinality(ByRelations(x)) = 0 /\ Cardinality(Users(x)) = 0 /\ IsFiniteSet(ByRelations(x))
      BY <1>4, FS_EmptySet
    <2> QED
      BY <1>4, <1>5, <1>6, <2>2, <2>3 DEF Exact
  <1> QED
    BY <1>2, <1>3, <1>6 DEF Counts

\* Until a defect is met the counts of every virtual PDO are exact, relations
\* are found once more as they were found first, and what is deleted has no
\* reference: OcFilterReferenceVirtualPdoExtension and the InterlockedDecrement
\* of every path are balanced.
THEOREM AlwaysCounting == Spec => []Counting
  <1>1. Init => Counting
    BY BeginsCounts DEF Counting
  <1> QED
    BY <1>1, CountingSteps, AlwaysTyped, AlwaysFormed, AlwaysHeld, AlwaysLiving, PTL DEF Spec


-----------------------------------------------------------------------------
(* What the core driver is told: something new of what lives only, and of what *)
(* is freed that it is deleted                                                *)

Speaks(k) == \/ known'[k] = known[k] \/ known'[k] \in Gone
             \/ \E y \in Exts : ext[y].life = "live" /\ k \in {Key(y), ext[y].dev}
Fate(x) ==
  /\ Made(x) => KeepsMake(x)
  /\ \/ ext'[x].life = ext[x].life
     \/ Made(x) /\ ext'[x].life = "freed" /\ known'[Key(x)] \in Gone
     \/ ~Made(x) /\ ext'[x].life = "live"
Passing == /\ \A k \in Devices \cup Exts : Speaks(k)
           /\ \A x \in Exts : Fate(x)

LEMMA Quiet ==
  ASSUME known' = known, \A x \in Exts : KeepsMake(x) /\ KeepsLife(x)
  PROVE  Passing
  BY DEF Passing, Speaks, Fate, KeepsLife

LEMMA QuietFresh ==
  ASSUME known' = known, NEW n \in Exts, ext[n].life = "none", ext'[n].life = "live",
         \A x \in Exts : x # n => KeepsMake(x) /\ KeepsLife(x)
  PROVE  Passing
  BY DEF Passing, Speaks, Fate, KeepsLife, Made

\* What is locked lives.
LEMMA HeldLives ==
  ASSUME Typed, Held, Living, NEW x \in Exts, Made(x), NEW g \in HoldKinds, NEW t \in Threads, HoldsBy(g, t, x)
  PROVE  ext[x].life = "live"
  <1>1. <<g, t>> \in Holds(x)
    BY HoldMembers
  <1>2. ext[x].holders # 0
    BY <1>1, Holder
  <1>3. ext[x].life # "freed"
    BY <1>2 DEF Living, Lasting
  <1>4. PICK p \in ExtTypes : p = ext[x]
    BY DEF Typed, Types
  <1> QED
    BY <1>3, <1>4 DEF ExtTypes, Made

LEMMA KeysKnown ==
  ASSUME Typed, Formed, NEW x \in Exts, Made(x)
  PROVE  Key(x) \in Devices \cup Exts /\ ext[x].dev \in Devices /\ DOMAIN known = Devices \cup Exts
  BY DEF Typed, Types, Formed, Extension, Key

LEMMA Told ==
  ASSUME NEW y \in Exts, ext[y].life = "live",
         \A k \in Devices \cup Exts : k \notin {Key(y), ext[y].dev} => known'[k] = known[k],
         \A x \in Exts : KeepsMake(x) /\ KeepsLife(x)
  PROVE  Passing
  <1>1. \A k \in Devices \cup Exts : Speaks(k)
    BY DEF Speaks
  <1> QED
    BY <1>1 DEF Passing, Fate, KeepsLife

LEMMA Standings ==
  ASSUME Typed, NEW t \in Threads
  PROVE  /\ th[t].pc \in {"tell", "read", "state"} => th[t].request # 0
         /\ th[t].pc \in {"hookstate", "hooked"} => th[t].ret = "hookstate"
         /\ th[t].ret = "hookstate" => th[t].h # 0
  BY DEF Typed, Control, Standing

LEMMA Pointed ==
  ASSUME Typed, Formed, NEW t \in Threads
  PROVE  /\ th[t].request # 0 => th[t].request \in Exts /\ Made(th[t].request)
         /\ th[t].h # 0 => th[t].h \in Exts /\ Physical(th[t].h)
  <1>1. PICK q \in ThreadTypes : q = th[t]
    BY DEF Typed, Types
  <1>2. q.request \in 0..MaxExts /\ q.h \in 0..MaxExts
    BY DEF ThreadTypes
  <1> QED
    BY <1>1, <1>2, Numerals DEF Formed, Pointers

LEMMA PassingRender ==
  ASSUME Typed, Formed, Held, Living, NEW t \in Threads, Render(t)
  PROVE  Passing
  <1>1. known' = known /\ \A x \in Exts : KeepsMake(x) /\ KeepsLife(x)
    BY EffectRender, Still
  <1> QED
    BY <1>1, Quiet

LEMMA PassingCloseVirtualPdo ==
  ASSUME Typed, Formed, Held, Living, NEW t \in Threads, CloseVirtualPdo(t)
  PROVE  Passing
  <1>1. known' = known /\ \A x \in Exts : KeepsMake(x) /\ KeepsLife(x)
    BY EffectCloseVirtualPdo, Still
  <1> QED
    BY <1>1, Quiet

LEMMA PassingDeleteVirtualPdoByExtensionInternal ==
  ASSUME Typed, Formed, Held, Living, NEW t \in Threads, DeleteVirtualPdoByExtensionInternal(t)
  PROVE  Passing
  <1>1. PICK f \in Exts : f = th[t].del /\ Made(f)
    BY EffectDeleteVirtualPdoByExtensionInternal, Working DEF Physical
  <1>2. /\ known' = [known EXCEPT ![Key(f)] = "Deleted"]
        /\ \A x \in Exts : KeepsMake(x) /\ ext'[x].life = (IF x = f THEN "freed" ELSE ext[x].life)
    BY <1>1, EffectDeleteVirtualPdoByExtensionInternal
  <1>3. Key(f) \in DOMAIN known /\ DOMAIN known = Devices \cup Exts
    BY <1>1, KeysKnown
  <1>4. known'[Key(f)] = "Deleted" /\ \A k \in Devices \cup Exts : k # Key(f) => known'[k] = known[k]
    BY <1>2, <1>3
  <1>5. ASSUME NEW k \in Devices \cup Exts
        PROVE  Speaks(k)
    BY <1>4 DEF Speaks, Gone
  <1>6. ASSUME NEW x \in Exts
        PROVE  Fate(x)
    <2>1. CASE x = f
      BY <1>1, <1>2, <1>4, <2>1 DEF Fate, Gone
    <2>2. CASE x # f
      BY <1>2, <2>2 DEF Fate
    <2> QED
      BY <2>1, <2>2
  <1> QED
    BY <1>5, <1>6 DEF Passing

LEMMA PassingDeleteVirtualPdoByExtension ==
  ASSUME Typed, Formed, Held, Living, NEW t \in Threads, DeleteVirtualPdoByExtension(t)
  PROVE  Passing
  <1>1. known' = known /\ \A x \in Exts : KeepsMake(x) /\ KeepsLife(x)
    BY EffectDeleteVirtualPdoByExtension, Still
  <1> QED
    BY <1>1, Quiet

LEMMA PassingDropInitialReference ==
  ASSUME Typed, Formed, Held, Living, NEW t \in Threads, DropInitialReference(t)
  PROVE  Passing
  <1>1. known' = known /\ \A x \in Exts : KeepsMake(x) /\ KeepsLife(x)
    BY EffectDropInitialReference, Still
  <1> QED
    BY <1>1, Quiet

LEMMA PassingDereferenceVirtualPdo ==
  ASSUME Typed, Formed, Held, Living, NEW t \in Threads, DereferenceVirtualPdo(t)
  PROVE  Passing
  <1>1. known' = known /\ \A x \in Exts : KeepsMake(x) /\ KeepsLife(x)
    BY EffectDereferenceVirtualPdo, Still
  <1> QED
    BY <1>1, Quiet

LEMMA PassingProcessNewRelations ==
  ASSUME Typed, Formed, Held, Living, NEW t \in Threads, ProcessNewRelations(t)
  PROVE  Passing
  <1>1. known' = known /\ \A x \in Exts : KeepsMake(x) /\ KeepsLife(x)
    BY EffectProcessNewRelations, Still
  <1> QED
    BY <1>1, Quiet

LEMMA PassingRecordShadow ==
  ASSUME Typed, Formed, Held, Living, NEW t \in Threads, RecordShadow(t)
  PROVE  Passing
  <1>1. known' = known /\ \A x \in Exts : KeepsMake(x) /\ KeepsLife(x)
    BY EffectRecordShadow, Still
  <1> QED
    BY <1>1, Quiet

LEMMA PassingReleaseOldRelations ==
  ASSUME Typed, Formed, Held, Living, NEW t \in Threads, ReleaseOldRelations(t)
  PROVE  Passing
  <1>1. known' = known /\ \A x \in Exts : KeepsMake(x) /\ KeepsLife(x)
    BY EffectReleaseOldRelations, Still
  <1> QED
    BY <1>1, Quiet

LEMMA PassingReleaseOne ==
  ASSUME Typed, Formed, Held, Living, NEW t \in Threads, ReleaseOne(t)
  PROVE  Passing
  <1>1. known' = known /\ \A x \in Exts : KeepsMake(x) /\ KeepsLife(x)
    BY EffectReleaseOne, Still
  <1> QED
    BY <1>1, Quiet

LEMMA PassingReleasedAll ==
  ASSUME Typed, Formed, Held, Living, NEW t \in Threads, ReleasedAll(t)
  PROVE  Passing
  <1>1. known' = known /\ \A x \in Exts : KeepsMake(x) /\ KeepsLife(x)
    BY EffectReleasedAll, Still
  <1> QED
    BY <1>1, Quiet

LEMMA PassingDispatchRequest ==
  ASSUME Typed, Formed, Held, Living, NEW t \in Threads, DispatchRequest(t)
  PROVE  Passing
  <1>1. known' = known /\ \A x \in Exts : KeepsMake(x) /\ KeepsLife(x)
    BY EffectDispatchRequest, Still
  <1> QED
    BY <1>1, Quiet

LEMMA PassingFilterPass ==
  ASSUME Typed, Formed, Held, Living, NEW t \in Threads, FilterPass(t)
  PROVE  Passing
  <1>1. known' = known /\ \A x \in Exts : KeepsMake(x) /\ KeepsLife(x)
    BY EffectFilterPass, Still
  <1> QED
    BY <1>1, Quiet

LEMMA PassingQueryDeviceRelations ==
  ASSUME Typed, Formed, Held, Living, NEW t \in Threads, QueryDeviceRelations(t)
  PROVE  Passing
  <1>1. known' = known /\ \A x \in Exts : KeepsMake(x) /\ KeepsLife(x)
    BY EffectQueryDeviceRelations, Still
  <1> QED
    BY <1>1, Quiet

LEMMA PassingQueryCompleted ==
  ASSUME Typed, Formed, Held, Living, NEW t \in Threads, QueryCompleted(t)
  PROVE  Passing
  <1>1. known' = known /\ \A x \in Exts : KeepsMake(x) /\ KeepsLife(x)
    BY EffectQueryCompleted, Still
  <1> QED
    BY <1>1, Quiet

LEMMA PassingStartDevice ==
  ASSUME Typed, Formed, Held, Living, NEW t \in Threads, StartDevice(t)
  PROVE  Passing
  <1>1. known' = known /\ \A x \in Exts : KeepsMake(x) /\ KeepsLife(x)
    BY EffectStartDevice, Still
  <1> QED
    BY <1>1, Quiet

LEMMA PassingStarted ==
  ASSUME Typed, Formed, Held, Living, NEW t \in Threads, Started(t)
  PROVE  Passing
  <1>1. CASE th[t].f = 0
    <2>1. known' = known /\ ext' = ext
      BY <1>1, EffectStarted
    <2> QED
      BY <2>1, Still, Quiet
  <1>2. CASE th[t].f # 0
    <2>1. Asks(t)
      BY EffectStarted, Holding DEF Asks, Does
    <2>2. PICK y \in Exts : y = th[t].f /\ Made(y)
      BY <1>2, <2>1, Working DEF Filter
    <2>3. HoldsBy("filter", t, y)
      BY <2>1, <2>2 DEF HoldsBy
    <2>4. ext[y].life = "live"
      BY <2>2, <2>3, HeldLives DEF HoldKinds
    <2>5. /\ known' = [known EXCEPT ![Key(y)] = "Started"]
          /\ \A x \in Exts : KeepsMake(x) /\ KeepsLife(x)
      BY <1>2, <2>2, EffectStarted
    <2>6. \A k \in Devices \cup Exts : k # Key(y) => known'[k] = known[k]
      BY <2>2, <2>5, KeysKnown
    <2> QED
      BY <2>4, <2>5, <2>6, Told
  <1> QED
    BY <1>1, <1>2

LEMMA PassingRemoveDevice ==
  ASSUME Typed, Formed, Held, Living, NEW t \in Threads, RemoveDevice(t)
  PROVE  Passing
  <1>1. known' = known /\ \A x \in Exts : KeepsMake(x) /\ KeepsLife(x)
    BY EffectRemoveDevice, Still
  <1> QED
    BY <1>1, Quiet

LEMMA PassingFastIoDetachDevice ==
  ASSUME Typed, Formed, Held, Living, NEW t \in Threads, FastIoDetachDevice(t)
  PROVE  Passing
  <1>1. known' = known /\ \A x \in Exts : KeepsMake(x) /\ KeepsLife(x)
    BY EffectFastIoDetachDevice, Still
  <1> QED
    BY <1>1, Quiet

LEMMA PassingRemoveDeviceFromTheList ==
  ASSUME Typed, Formed, Held, Living, NEW t \in Threads, RemoveDeviceFromTheList(t)
  PROVE  Passing
  <1>1. known' = known /\ \A x \in Exts : KeepsMake(x) /\ KeepsLife(x)
    BY EffectRemoveDeviceFromTheList, Still
  <1> QED
    BY <1>1, Quiet

LEMMA PassingFreeAllDeviceRelations ==
  ASSUME Typed, Formed, Held, Living, NEW t \in Threads, FreeAllDeviceRelations(t)
  PROVE  Passing
  <1>1. known' = known /\ \A x \in Exts : KeepsMake(x) /\ KeepsLife(x)
    BY EffectFreeAllDeviceRelations, Still
  <1> QED
    BY <1>1, Quiet

LEMMA PassingClearFilterDeviceExtension ==
  ASSUME Typed, Formed, Held, Living, NEW t \in Threads, ClearFilterDeviceExtension(t)
  PROVE  Passing
  <1>1. PICK f \in Exts : f = th[t].f /\ Made(f)
    <2>1. Removes(t)
      BY EffectClearFilterDeviceExtension, Holding DEF Removes, Does
    <2> QED
      BY <2>1, Working DEF Filter
  <1>2. /\ known' = [known EXCEPT ![Key(f)] = "Deleted"]
        /\ \A x \in Exts : KeepsMake(x) /\ ext'[x].life = (IF x = f THEN "freed" ELSE ext[x].life)
    BY <1>1, EffectClearFilterDeviceExtension
  <1>3. Key(f) \in DOMAIN known /\ DOMAIN known = Devices \cup Exts
    BY <1>1, KeysKnown
  <1>4. known'[Key(f)] = "Deleted" /\ \A k \in Devices \cup Exts : k # Key(f) => known'[k] = known[k]
    BY <1>2, <1>3
  <1>5. ASSUME NEW k \in Devices \cup Exts
        PROVE  Speaks(k)
    BY <1>4 DEF Speaks, Gone
  <1>6. ASSUME NEW x \in Exts
        PROVE  Fate(x)
    <2>1. CASE x = f
      BY <1>1, <1>2, <1>4, <2>1 DEF Fate, Gone
    <2>2. CASE x # f
      BY <1>2, <2>2 DEF Fate
    <2> QED
      BY <2>1, <2>2
  <1> QED
    BY <1>5, <1>6 DEF Passing

LEMMA PassingPnPMajorHookDispatch ==
  ASSUME Typed, Formed, Held, Living, NEW t \in Threads, PnPMajorHookDispatch(t)
  PROVE  Passing
  <1>1. known' = known /\ \A x \in Exts : KeepsMake(x) /\ KeepsLife(x)
    BY EffectPnPMajorHookDispatch, Still
  <1> QED
    BY <1>1, Quiet

LEMMA PassingSetPdoState ==
  ASSUME Typed, Formed, Held, Living, NEW t \in Threads, SetPdoState(t)
  PROVE  Passing
  <1>1. Hooks(t) /\ th[t].h # 0
    BY EffectSetPdoState, Standings DEF Hooks
  <1>2. PICK y \in Exts : y = th[t].h /\ Made(y)
    BY <1>1, Pointed DEF Physical
  <1>2a. HoldsBy("hook", t, y)
    BY <1>1, <1>2 DEF HoldsBy
  <1>3. ext[y].life = "live"
    BY <1>2, <1>2a, HeldLives DEF HoldKinds
  <1>4. /\ \A k \in Devices \cup Exts : k # Key(y) => known'[k] = known[k]
        /\ \A x \in Exts : KeepsMake(x) /\ KeepsLife(x)
    BY <1>2, EffectSetPdoState, Still
  <1> QED
    BY <1>3, <1>4, Told

LEMMA PassingCallOriginal ==
  ASSUME Typed, Formed, Held, Living, NEW t \in Threads, CallOriginal(t)
  PROVE  Passing
  <1>1. known' = known /\ \A x \in Exts : KeepsMake(x) /\ KeepsLife(x)
    BY EffectCallOriginal, Still
  <1> QED
    BY <1>1, Quiet

LEMMA PassingDriverUnloadHook ==
  ASSUME Typed, Formed, Held, Living, NEW t \in Threads, DriverUnloadHook(t)
  PROVE  Passing
  <1>1. known' = known /\ \A x \in Exts : KeepsMake(x) /\ KeepsLife(x)
    BY EffectDriverUnloadHook, Still
  <1> QED
    BY <1>1, Quiet

LEMMA PassingAddDevice ==
  ASSUME Typed, Formed, Held, Living, NEW t \in Threads, AddDevice(t)
  PROVE  Passing
  <1>1. known' = known /\ \A x \in Exts : KeepsMake(x) /\ KeepsLife(x)
    BY EffectAddDevice, Still
  <1> QED
    BY <1>1, Quiet

LEMMA PassingAddDeviceFTI ==
  ASSUME Typed, Formed, Held, Living, NEW t \in Threads, AddDeviceFTI(t)
  PROVE  Passing
  <1>1. PICK n : n = Fresh
    OBVIOUS
  <1>2. (NewVirtual(Op(t).dev)).life = "live"
    BY NewVirtualIs
  <1>3. \/ known' = known /\ ext' = ext
        \/ /\ known' = known /\ n \in Exts /\ ext[n].life = "none" /\ ext'[n] = NewVirtual(Op(t).dev)
           /\ \A x \in Exts : x # n => ext'[x] = ext[x]
    BY <1>1, EffectAddDeviceFTI
  <1>4. CASE known' = known /\ ext' = ext
    BY <1>4, Still, Quiet
  <1>5. CASE /\ known' = known /\ n \in Exts /\ ext[n].life = "none" /\ ext'[n] = NewVirtual(Op(t).dev)
             /\ \A x \in Exts : x # n => ext'[x] = ext[x]
    <2>1. ext'[n].life = "live"
      BY <1>2, <1>5
    <2>2. \A x \in Exts : x # n => KeepsMake(x) /\ KeepsLife(x)
      BY <1>5 DEF KeepsMake, KeepsLife
    <2> QED
      BY <1>5, <2>1, <2>2, QuietFresh
  <1> QED
    BY <1>3, <1>4, <1>5

LEMMA PassingFindVirtualPdo ==
  ASSUME Typed, Formed, Held, Living, NEW t \in Threads, FindVirtualPdo(t)
  PROVE  Passing
  <1>1. known' = known /\ \A x \in Exts : KeepsMake(x) /\ KeepsLife(x)
    BY EffectFindVirtualPdo, Still
  <1> QED
    BY <1>1, Quiet

LEMMA PassingAddVirtualDeviceForPdo ==
  ASSUME Typed, Formed, Held, Living, NEW t \in Threads, AddVirtualDeviceForPdo(t)
  PROVE  Passing
  <1>1. PICK n : n = Fresh
    OBVIOUS
  <1>2. (NewVirtual(Op(t).dev)).life = "live"
    BY NewVirtualIs
  <1>3. \/ known' = known /\ ext' = ext
        \/ /\ known' = known /\ n \in Exts /\ ext[n].life = "none" /\ ext'[n] = NewVirtual(Op(t).dev)
           /\ \A x \in Exts : x # n => ext'[x] = ext[x]
    BY <1>1, EffectAddVirtualDeviceForPdo
  <1>4. CASE known' = known /\ ext' = ext
    BY <1>4, Still, Quiet
  <1>5. CASE /\ known' = known /\ n \in Exts /\ ext[n].life = "none" /\ ext'[n] = NewVirtual(Op(t).dev)
             /\ \A x \in Exts : x # n => ext'[x] = ext[x]
    <2>1. ext'[n].life = "live"
      BY <1>2, <1>5
    <2>2. \A x \in Exts : x # n => KeepsMake(x) /\ KeepsLife(x)
      BY <1>5 DEF KeepsMake, KeepsLife
    <2> QED
      BY <1>5, <2>1, <2>2, QuietFresh
  <1> QED
    BY <1>3, <1>4, <1>5

LEMMA PassingAddFails ==
  ASSUME Typed, Formed, Held, Living, NEW t \in Threads, AddFails(t)
  PROVE  Passing
  <1>1. known' = known /\ \A x \in Exts : KeepsMake(x) /\ KeepsLife(x)
    BY EffectAddFails, Still
  <1> QED
    BY <1>1, Quiet

LEMMA PassingAttachFilterDevice ==
  ASSUME Typed, Formed, Held, Living, NEW t \in Threads, AttachFilterDevice(t)
  PROVE  Passing
  <1>1. PICK n : n = Fresh
    OBVIOUS
  <1>2. ([Added(Op(t).dev, "filter") EXCEPT !.vpdo = th[t].x]).life = "live"
    BY NewFilterIs
  <1>3. /\ known' = known /\ n \in Exts /\ ext[n].life = "none" /\ ext'[n] = [Added(Op(t).dev, "filter") EXCEPT !.vpdo = th[t].x]
        /\ \A x \in Exts : x # n => KeepsMake(x) /\ KeepsLife(x)
    BY <1>1, EffectAttachFilterDevice
  <1>4. ext'[n].life = "live"
    BY <1>2, <1>3
  <1> QED
    BY <1>3, <1>4, QuietFresh

LEMMA PassingReportAddedDevice ==
  ASSUME Typed, Formed, Held, Living, NEW t \in Threads, ReportAddedDevice(t)
  PROVE  Passing
  <1>1. th[t].pc \in {"report", "insert", "added"}
    BY EffectReportAddedDevice
  <1>2. PICK y \in Exts : y = th[t].n /\ Made(y)
    BY <1>1, Working DEF Filter
  <1>3. ext[y].life = "live"
    BY <1>1, <1>2 DEF Living, Addition
  <1>4. /\ known' = [k \in DOMAIN known |-> IF k \in {Key(y), ext[y].dev} THEN New(k) ELSE known[k]]
        /\ ext' = ext
    BY <1>2, EffectReportAddedDevice
  <1>5. \A k \in Devices \cup Exts : k \notin {Key(y), ext[y].dev} => known'[k] = known[k]
    BY <1>2, <1>4, KeysKnown
  <1> QED
    BY <1>3, <1>4, <1>5, Still, Told

LEMMA PassingInsertInList ==
  ASSUME Typed, Formed, Held, Living, NEW t \in Threads, InsertInList(t)
  PROVE  Passing
  <1>1. known' = known /\ \A x \in Exts : KeepsMake(x) /\ KeepsLife(x)
    BY EffectInsertInList, Still
  <1> QED
    BY <1>1, Quiet

LEMMA PassingAddedDevice ==
  ASSUME Typed, Formed, Held, Living, NEW t \in Threads, AddedDevice(t)
  PROVE  Passing
  <1>1. th[t].pc \in {"report", "insert", "added"}
    BY EffectAddedDevice
  <1>2. PICK y \in Exts : y = th[t].n /\ Made(y)
    BY <1>1, Working DEF Filter
  <1>3. ext[y].life = "live"
    BY <1>1, <1>2 DEF Living, Addition
  <1>4. /\ \A k \in Devices \cup Exts : k # Key(y) => known'[k] = known[k]
        /\ \A x \in Exts : KeepsMake(x) /\ KeepsLife(x)
    BY <1>2, EffectAddedDevice, Still
  <1> QED
    BY <1>3, <1>4, Told

LEMMA PassingReportExisitingDevices ==
  ASSUME Typed, Formed, Held, Living, NEW t \in Threads, ReportExisitingDevices(t)
  PROVE  Passing
  <1>1. known' = known /\ \A x \in Exts : KeepsMake(x) /\ KeepsLife(x)
    BY EffectReportExisitingDevices, Still
  <1> QED
    BY <1>1, Quiet

LEMMA PassingNextReportedDevice ==
  ASSUME Typed, Formed, Held, Living, NEW t \in Threads, NextReportedDevice(t)
  PROVE  Passing
  <1>1. known' = known /\ \A x \in Exts : KeepsMake(x) /\ KeepsLife(x)
    BY EffectNextReportedDevice, Still
  <1> QED
    BY <1>1, Quiet

LEMMA PassingReportExistingDevice ==
  ASSUME Typed, Formed, Held, Living, NEW t \in Threads, ReportExistingDevice(t)
  PROVE  Passing
  <1>1. Walks(t) /\ th[t].request # 0
    BY EffectReportExistingDevice, Standings DEF Walks
  <1>2. PICK y \in Exts : y = th[t].request /\ Made(y)
    BY <1>1, Pointed DEF Physical
  <1>2a. HoldsBy("report", t, y)
    BY <1>1, <1>2 DEF HoldsBy
  <1>3. ext[y].life = "live"
    BY <1>2, <1>2a, HeldLives DEF HoldKinds
  <1>4. /\ known' = [k \in DOMAIN known |-> IF k \in {Key(y), ext[y].dev} THEN New(k) ELSE known[k]]
        /\ ext' = ext
    BY <1>2, EffectReportExistingDevice
  <1>5. \A k \in Devices \cup Exts : k \notin {Key(y), ext[y].dev} => known'[k] = known[k]
    BY <1>2, <1>4, KeysKnown
  <1> QED
    BY <1>3, <1>4, <1>5, Still, Told

LEMMA PassingReadState ==
  ASSUME Typed, Formed, Held, Living, NEW t \in Threads, ReadState(t)
  PROVE  Passing
  <1>1. known' = known /\ \A x \in Exts : KeepsMake(x) /\ KeepsLife(x)
    BY EffectReadState, Still
  <1> QED
    BY <1>1, Quiet

LEMMA PassingReportExistingState ==
  ASSUME Typed, Formed, Held, Living, NEW t \in Threads, ReportExistingState(t)
  PROVE  Passing
  <1>1. Walks(t) /\ th[t].request # 0
    BY EffectReportExistingState, Standings DEF Walks
  <1>2. PICK y \in Exts : y = th[t].request /\ Made(y)
    BY <1>1, Pointed DEF Physical
  <1>2a. HoldsBy("report", t, y)
    BY <1>1, <1>2 DEF HoldsBy
  <1>3. ext[y].life = "live"
    BY <1>2, <1>2a, HeldLives DEF HoldKinds
  <1>4. /\ \A k \in Devices \cup Exts : k # Key(y) => known'[k] = known[k]
        /\ \A x \in Exts : KeepsMake(x) /\ KeepsLife(x)
    BY <1>2, EffectReportExistingState, Still
  <1> QED
    BY <1>3, <1>4, Told

LEMMA PassingDone ==
  ASSUME Typed, Formed, Held, Living, NEW t \in Threads, Done(t)
  PROVE  Passing
  <1>1. known' = known /\ \A x \in Exts : KeepsMake(x) /\ KeepsLife(x)
    BY EffectDone, Still
  <1> QED
    BY <1>1, Quiet

LEMMA PassingStep ==
  ASSUME Typed, Formed, Held, Living, NEW t \in Threads, Step(t)
  PROVE  Passing
  <1>1. CASE Deletion(t)
    BY <1>1, PassingRender, PassingCloseVirtualPdo, PassingDeleteVirtualPdoByExtensionInternal, PassingDeleteVirtualPdoByExtension, PassingDropInitialReference, PassingDereferenceVirtualPdo, Zenon DEF Deletion
  <1>2. CASE Relations(t)
    BY <1>2, PassingProcessNewRelations, PassingRecordShadow, PassingReleaseOldRelations, PassingReleaseOne, PassingReleasedAll, Zenon DEF Relations
  <1>3. CASE Requests(t)
    BY <1>3, PassingDispatchRequest, PassingFilterPass, PassingQueryDeviceRelations, PassingQueryCompleted, PassingStartDevice, PassingStarted, PassingRemoveDevice, PassingFastIoDetachDevice, PassingRemoveDeviceFromTheList, PassingFreeAllDeviceRelations, PassingClearFilterDeviceExtension, Zenon DEF Requests
  <1>4. CASE Hook(t)
    BY <1>4, PassingPnPMajorHookDispatch, PassingSetPdoState, PassingCallOriginal, PassingDriverUnloadHook, Zenon DEF Hook
  <1>5. CASE Adding(t)
    BY <1>5, PassingAddDevice, PassingAddDeviceFTI, PassingFindVirtualPdo, PassingAddVirtualDeviceForPdo, PassingAddFails, PassingAttachFilterDevice, PassingReportAddedDevice, PassingInsertInList, PassingAddedDevice, Zenon DEF Adding
  <1>6. CASE Reporting(t)
    BY <1>6, PassingReportExisitingDevices, PassingNextReportedDevice, PassingReportExistingDevice, PassingReadState, PassingReportExistingState, Zenon DEF Reporting
  <1>7. CASE Done(t)
    BY <1>7, PassingDone, Zenon
  <1> QED
    BY <1>1, <1>2, <1>3, <1>4, <1>5, <1>6, <1>7 DEF Step

LEMMA PassingSteps ==
  ASSUME Typed, Formed, Held, Living, [Next]_vars
  PROVE  Passing
  <1>1. CASE UNCHANGED vars
    BY <1>1, Still, Quiet DEF vars
  <1>2. CASE Next
    <2>1. PICK t \in Threads : Step(t)
      BY <1>2 DEF Next, Step
    <2> QED
      BY <2>1, PassingStep
  <1> QED
    BY <1>1, <1>2


-----------------------------------------------------------------------------
(* The last word on a device *)

\* What is counted lives.
LEMMA CountedLives ==
  ASSUME Typed, Counts, NEW x \in Exts, Physical(x), Filters(x) # {} \/ ByRelations(x) # {} \/ Users(x) # {}
  PROVE  ext[x].life = "live"
  <1>1. /\ IsFiniteSet(Filters(x)) /\ Cardinality(Filters(x)) \in Nat
        /\ IsFiniteSet(Users(x)) /\ Cardinality(Users(x)) \in Nat
        /\ IsFiniteSet(ByRelations(x)) /\ Cardinality(ByRelations(x)) \in Nat /\ Initial(x) \in {0, 1}
    BY HoldsFinite, FS_CardinalityType DEF Counts, Exact, Initial
  <1>2. Cardinality(Filters(x)) # 0 \/ Cardinality(ByRelations(x)) # 0 \/ Cardinality(Users(x)) # 0
    BY <1>1, FS_EmptySet
  <1>3. ext[x].refs = Initial(x) + Cardinality(Filters(x)) + Cardinality(ByRelations(x)) + Cardinality(Users(x))
    BY DEF Counts, Exact
  <1>4. ext[x].refs # 0
    BY <1>1, <1>2, <1>3
  <1>5. ext[x].life # "freed"
    BY <1>4 DEF Counts, Zero
  <1>6. PICK q \in ExtTypes : q = ext[x]
    BY DEF Typed, Types
  <1> QED
    BY <1>5, <1>6 DEF ExtTypes, Physical, Made

\* The virtual PDO of a filter device that lives has a reference.
LEMMA VpdoLives ==
  ASSUME Typed, Formed, Counts, NEW f \in Exts, ext[f].life = "live", ~Virtual(f)
  PROVE  /\ ext[f].vpdo \in Exts /\ Physical(ext[f].vpdo) /\ ext[ext[f].vpdo].life = "live"
         /\ ext[ext[f].vpdo].dev = ext[f].dev
  <1>1. PICK p \in ExtTypes : p = ext[f]
    BY DEF Typed, Types
  <1>2. PICK v \in Exts : v = ext[f].vpdo /\ Physical(v) /\ ext[v].dev = ext[f].dev
    <2>1. Filter(f)
      BY DEF Filter, Made
    <2>2. /\ ext[f].vpdo # 0 /\ Physical(ext[f].vpdo) /\ ext[ext[f].vpdo].dev = ext[f].dev
      BY <2>1 DEF Formed, Extension
    <2>3. p.vpdo \in 0..MaxExts
      BY DEF ExtTypes
    <2> QED
      BY <1>1, <2>2, <2>3, Numerals
  <1>3. Filters(v) # {}
    BY <1>2 DEF Filters
  <1> QED
    BY <1>2, <1>3, CountedLives

LEMMA LastWordsSteps ==
  Typed /\ Formed /\ Held /\ Living /\ LastWords /\ [Next]_vars => LastWords'
  <1> SUFFICES ASSUME Typed, Formed, Held, Living, LastWords, [Next]_vars,
                      NEW f \in Exts, Filter(f)', ext'[f].life = "freed"
               PROVE  known'[f] \in Gone
    BY DEF LastWords
  <1>1. Passing
    BY PassingSteps
  <1>2. Speaks(f) /\ Fate(f)
    BY <1>1 DEF Passing
  <1>3. Filter(f)
    BY <1>2 DEF Fate, Filter, Made, Virtual, KeepsMake
  <1>4. CASE ext[f].life = "freed"
    <2>1. known[f] \in Gone
      BY <1>3, <1>4 DEF LastWords
    <2>2. ASSUME NEW y \in Exts, ext[y].life = "live", f \in {Key(y), ext[y].dev}
          PROVE  FALSE
      <3>1. ext[y].dev \in Devices
        BY <2>2 DEF Formed, Extension, Made
      <3>2. f \notin Devices
        BY Numerals
      <3> QED
        BY <1>4, <2>2, <3>1, <3>2 DEF Key
    <2> QED
      BY <1>2, <2>1, <2>2 DEF Speaks
  <1>5. CASE ext[f].life # "freed"
    BY <1>2, <1>3, <1>5 DEF Fate, Filter, Key
  <1> QED
    BY <1>4, <1>5

LEMMA DeparturesSteps ==
  Typed /\ Formed /\ Held /\ Living /\ Counting /\ Departures /\ [Next]_vars => Departures'
  <1> SUFFICES ASSUME Typed, Formed, Held, Living, Counting, Departures, [Next]_vars, Sound',
                      NEW d \in Devices, Departed(d)'
               PROVE  known'[d] \in Gone
    BY DEF Departures
  <1>1. Passing
    BY PassingSteps
  <1>2. Speaks(d) /\ \A x \in Exts : Fate(x)
    BY <1>1 DEF Passing
  <1>3. Sound /\ Counts
    <2>1. CASE UNCHANGED vars
      BY <2>1 DEF vars, Sound, Counting
    <2>2. CASE Next
      <3>1. PICK t \in Threads : Step(t)
        BY <2>2 DEF Next, Step
      <3> QED
        BY <3>1, BrokenStep DEF Sound, Counting
    <2> QED
      BY <2>1, <2>2
  <1>4. PICK x \in Exts : /\ Physical(x)' /\ ext'[x].life = "freed" /\ ext'[x].dev = d
                          /\ ~\E y \in Exts : Virtual(y)' /\ ext'[y].life = "live" /\ ext'[y].dev = d
    BY DEF Departed
  <1>5. Physical(x) /\ ext[x].dev = d /\ Fate(x)
    BY <1>2, <1>4 DEF Fate, Physical, Made, Virtual, KeepsMake
  <1>6. CASE ext[x].life # "freed"
    BY <1>4, <1>5, <1>6 DEF Fate, Physical, Key
  <1>7. CASE ext[x].life = "freed"
    <2>1. CASE \E y \in Exts : Virtual(y) /\ ext[y].life = "live" /\ ext[y].dev = d
      <3>1. PICK y \in Exts : Virtual(y) /\ ext[y].life = "live" /\ ext[y].dev = d
        BY <2>1
      <3>2. Fate(y) /\ Made(y)
        BY <1>2, <3>1 DEF Made
      <3>3. Virtual(y)' /\ ext'[y].dev = d
        BY <3>1, <3>2 DEF Fate, KeepsMake, Virtual
      <3>4. ext'[y].life # "live"
        BY <1>4, <3>3
      <3> QED
        BY <3>1, <3>2, <3>4 DEF Fate, Key
    <2>2. CASE ~\E y \in Exts : Virtual(y) /\ ext[y].life = "live" /\ ext[y].dev = d
      <3>1. known[d] \in Gone
        BY <1>3, <1>5, <1>7, <2>2 DEF Departures, Departed
      <3>2. ASSUME NEW y \in Exts, ext[y].life = "live", d \in {Key(y), ext[y].dev}
            PROVE  FALSE
        <4>1. CASE Virtual(y)
          BY <2>2, <3>2, <4>1 DEF Key
        <4>2. CASE ~Virtual(y)
          <5>1. y # d
            BY Numerals
          <5>2. ext[y].dev = d
            BY <3>2, <4>2, <5>1 DEF Key
          <5>3. PICK v \in Exts : v = ext[y].vpdo /\ Physical(v) /\ ext[v].life = "live" /\ ext[v].dev = ext[y].dev
            BY <1>3, <3>2, <4>2, VpdoLives
          <5> QED
            BY <2>2, <5>2, <5>3 DEF Physical
        <4> QED
          BY <4>1, <4>2
      <3> QED
        BY <1>2, <3>1, <3>2 DEF Speaks
    <2> QED
      BY <2>1, <2>2
  <1> QED
    BY <1>6, <1>7

LEMMA BeginsLast ==
  Init => LastWords /\ Departures
  <1> SUFFICES ASSUME Init
               PROVE  LastWords /\ Departures
    OBVIOUS
  <1>1. \A k \in Devices \cup Exts : known[k] \in Gone
    BY DEF Init, Gone
  <1> QED
    BY <1>1 DEF LastWords, Departures

\* Whatever is reported of it in the meantime, of a filter device that is freed
\* the core driver is told last that it is deleted (OcFilterClearFilterDeviceExtension).
THEOREM AlwaysLastWords == Spec => []LastWords
  BY BeginsLast, LastWordsSteps, AlwaysTyped, AlwaysFormed, AlwaysHeld, AlwaysLiving, PTL DEF Spec

\* And of a physical device whose virtual PDOs are all freed.
THEOREM AlwaysDepartures == Spec => []Departures
  BY BeginsLast, DeparturesSteps, AlwaysTyped, AlwaysFormed, AlwaysHeld, AlwaysLiving, AlwaysCounting, PTL DEF Spec

-----------------------------------------------------------------------------
(* What the runs check *)

LEMMA SoundTypes ==
  Typed /\ Held /\ Living => TypeOK
  <1> SUFFICES ASSUME Typed, Held, Living
               PROVE  TypeOK
    OBVIOUS
  <1>1. list \in Seq(Exts) /\ hooked \subseteq Devices /\ owner \in Threads \cup {Nobody}
    BY DEF Typed, Types
  <1>2. ASSUME NEW x \in Exts
        PROVE  /\ ext[x].life \in {"none", "live", "freed"} /\ ext[x].kind \in {"pdo", "lower", "filter"}
               /\ ext[x].refs \in Int /\ ext[x].holders \in Nat
    <2>1. PICK p \in ExtTypes : p = ext[x]
      BY DEF Typed, Types
    <2>2. p.life \in {"none", "live", "freed"} /\ p.kind \in {"pdo", "lower", "filter"} /\ p.refs \in Int
      BY DEF ExtTypes
    <2>3. ext[x].holders \in Nat
      BY HoldsFinite DEF Held
    <2> QED
      BY <2>1, <2>2, <2>3
  <1>3. ASSUME NEW i \in DOMAIN list
        PROVE  ext[list[i]].life = "live"
    <2>1. PICK x \in Exts : x = list[i]
      BY <1>1
    <2>2. Listed(x)
      BY <2>1 DEF Listed
    <2> QED
      BY <2>1, <2>2 DEF Living, Lasting
  <1>4. \A i, j \in DOMAIN list : list[i] = list[j] => i = j
    BY DEF Living, Order
  <1> QED
    BY <1>1, <1>2, <1>3, <1>4 DEF TypeOK

LEMMA SoundCounts ==
  Counting => CountsAreExact
  <1> SUFFICES ASSUME Counting, "shadow" \notin broken, NEW x \in Exts, ext[x].life = "live", Virtual(x)
               PROVE  /\ ext[x].refs = Initial(x) + Cardinality(Filters(x)) + Cardinality(ByRelations(x))
                                        + Cardinality(Users(x))
                      /\ ext[x].rel = (IF ext[x].kind = "pdo" THEN 1 ELSE 0)
                                       + Cardinality(Filters(x)) + Cardinality(ByRelations(x))
    BY DEF CountsAreExact
  <1>1. Counts /\ Physical(x)
    BY DEF Counting, Sound, Physical, Made
  <1> QED
    BY <1>1 DEF Counts, Exact

\* Relations are of PDOs.
LEMMA OnlyPdos ==
  ASSUME Typed, Formed, NEW x \in Exts, ByRelations(x) # {}
  PROVE  Physical(x)
  <1>1. ASSUME NEW ptr, Related(ptr), NEW i \in PlacesIn(ptr, x)
        PROVE  Physical(x)
    <2>1. PICK seq \in ptr : i \in Places(seq, x)
      BY <1>1 DEF PlacesIn
    <2>2. i \in DOMAIN seq /\ seq[i] = x /\ Pdos(seq)
      BY <1>1, <2>1 DEF Places, Related
    <2> QED
      BY <2>2 DEF Pdos, Physical, Made, Virtual
  <1>2. Related(Null)
    BY DEF Related, Single, Null
  <1>3. \A f \in Exts : Related(Kept(f))
    BY <1>2 DEF Formed, Extension, Kept
  <1>4. \A t \in Threads : Related(Exchanged(t)) /\ Related(th[t].new) /\ Pdos(th[t].todo)
    BY <1>2 DEF Formed, Pointers, Exchanged
  <1>5. CASE \E f \in Exts : PlacesIn(Kept(f), x) # {}
    BY <1>1, <1>3, <1>5
  <1>6. CASE \E t \in Threads : PlacesIn(Exchanged(t), x) # {} \/ PlacesIn(th[t].new, x) # {}
    BY <1>1, <1>4, <1>6
  <1>7. CASE \E t \in Threads : Places(th[t].todo, x) # {}
    BY <1>4, <1>7 DEF Places, Pdos, Physical, Made, Virtual
  <1>8. \/ \E f \in Exts : PlacesIn(Kept(f), x) # {}
        \/ \E t \in Threads : PlacesIn(Exchanged(t), x) # {} \/ PlacesIn(th[t].new, x) # {}
        \/ \E t \in Threads : Places(th[t].todo, x) # {}
    BY DEF ByRelations
  <1> QED
    BY <1>5, <1>6, <1>7, <1>8

LEMMA UsedLives ==
  ASSUME Typed, Formed, Held, Living, Counts, NEW t \in Threads, NEW x \in Uses(t)
  PROVE  ext[x].life = "live"
  <1>1. CASE Owns(t) /\ x = th[t].x
    <2>1. x \in Exts /\ Physical(x)
      BY <1>1, Working
    <2>2. <<"own", t>> \in Users(x)
      BY <1>1 DEF Users
    <2> QED
      BY <2>1, <2>2, CountedLives
  <1>2. CASE Hooks(t) /\ x = th[t].h
    <2>1. x \in Exts /\ Physical(x)
      BY <1>2, Standings, Pointed DEF Hooks
    <2>2. <<"hook", t>> \in Users(x)
      BY <1>2 DEF Users
    <2> QED
      BY <2>1, <2>2, CountedLives
  <1>3. CASE th[t].pc \in {"tell", "read", "state"} /\ x = th[t].request
    <2>1. x \in Exts /\ Made(x) /\ Walks(t)
      BY <1>3, Standings, Pointed DEF Walks
    <2>2. HoldsBy("report", t, x)
      BY <1>3, <2>1 DEF HoldsBy
    <2> QED
      BY <2>1, <2>2, HeldLives DEF HoldKinds
  <1>4. CASE th[t].pc \in {"sent", "process", "record", "unlock"} /\ x = th[t].f
    <2>1. Asks(t) /\ Does(t, {"query", "pass"})
      BY <1>4, Holding DEF Asks, Does
    <2> QED
      BY <1>4, <2>1, LockedLives
  <1>5. CASE th[t].pc \in {"closing", "free", "cleared"} /\ x = th[t].f
    <2>1. Removes(t)
      BY <1>5, Holding DEF Removes, Does
    <2> QED
      BY <1>5, <2>1 DEF Living, Removal
  <1> QED
    BY <1>1, <1>2, <1>3, <1>4, <1>5 DEF Uses

LEMMA SoundUsers ==
  Typed /\ Formed /\ Held /\ Living /\ Counting => ExtensionsOutliveTheirUsers
  <1> SUFFICES ASSUME Typed, Formed, Held, Living, Counting, broken = {}
               PROVE  /\ \A t \in Threads : \A x \in Uses(t) : ext[x].life = "live"
                      /\ \A x \in Exts : ext[x].life = "freed" =>
                           /\ ~Listed(x)
                           /\ ByRelations(x) = {} /\ Filters(x) = {}
    BY DEF ExtensionsOutliveTheirUsers
  <1>1. Counts
    BY DEF Counting, Sound
  <1>2. ASSUME NEW x \in Exts, ext[x].life = "freed"
        PROVE  ~Listed(x) /\ ByRelations(x) = {} /\ Filters(x) = {}
    <2>1. ~Listed(x)
      BY <1>2 DEF Living, Lasting
    <2>2. Filters(x) # {} => Physical(x)
      <3>1. ASSUME NEW f \in Filters(x)
            PROVE  Physical(x)
        BY <1>1, <3>1, VpdoLives DEF Filters
      <3> QED
        BY <3>1
    <2> QED
      BY <1>1, <1>2, <2>1, <2>2, OnlyPdos, CountedLives
  <1> QED
    BY <1>1, <1>2, UsedLives

LEMMA SoundLast ==
  Formed /\ LastWords /\ Departures => (Sound => DeletionIsTheLastWord)
  <1> SUFFICES ASSUME Formed, LastWords, Departures, Sound, NEW x \in Exts, ext[x].life = "freed",
                      Virtual(x) => ~\E y \in Exts : Virtual(y) /\ ext[y].life = "live" /\ ext[y].dev = ext[x].dev
               PROVE  known[Key(x)] \in {"none", "Deleted"}
    BY DEF DeletionIsTheLastWord
  <1>1. CASE Virtual(x)
    <2>1. ext[x].dev \in Devices
      BY DEF Formed, Extension, Made
    <2>2. Departed(ext[x].dev)
      BY <1>1 DEF Departed, Physical, Made
    <2> QED
      BY <1>1, <2>1, <2>2 DEF Departures, Key, Gone
  <1>2. CASE ~Virtual(x)
    BY <1>2 DEF LastWords, Filter, Made, Key, Gone
  <1> QED
    BY <1>1, <1>2

\* The extensions are well formed, and the reference count and the count of
\* relations of every virtual PDO are exact until a defect upsets them.
THEOREM CountsStayExact == Spec => []FilterInvariant
  BY AlwaysTyped, AlwaysHeld, AlwaysLiving, AlwaysCounting, SoundTypes, SoundCounts, PTL DEF FilterInvariant

\* No extension is freed while a thread uses it, while a filter device or the
\* relations of one have it, or while it is in the list.
THEOREM UsersOutlived == Spec => []ExtensionsOutliveTheirUsers
  BY AlwaysTyped, AlwaysFormed, AlwaysHeld, AlwaysLiving, AlwaysCounting, SoundUsers, PTL

\* As long as the counts are exact the deletion of a device is the last thing
\* the core driver is told of it.
THEOREM LastWordKept == Spec => [](Sound => DeletionIsTheLastWord)
  BY AlwaysFormed, AlwaysLastWords, AlwaysDepartures, SoundLast, PTL

=============================================================================
