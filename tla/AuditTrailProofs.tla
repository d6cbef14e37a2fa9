-------------------------- MODULE AuditTrailProofs --------------------------
(* Proofs about AuditTrail, for any number of writers and forwarders, any  *)
(* retention and any skew of the clocks.  AuditInv is the inductive        *)
(* invariant: what holds of the rows always, what holds of them as long as *)
(* writers take turns on clocks that agree, and what the forwarder knows.  *)
EXTENDS AuditTrail, FiniteSetTheorems, WellFoundedInduction, TLAPS

-----------------------------------------------------------------------------
(* The inductive invariant.                                                *)

Writing(w) == writer[w].at # "idle"
Stamped(w) == writer[w].at = "commit"

\* One row an instant; a stamp is taken by nobody else until its row is there.
InstantsUnique ==
    /\ \A q, r \in log : q.at = r.at => q = r
    /\ \A w \in Writers : Stamped(w) =>
         /\ writer[w].stamp \in Times
         /\ \A r \in log : r.at # writer[w].stamp
         /\ \A v \in Writers \ {w} : Stamped(v) => writer[v].stamp # writer[w].stamp

\* No clock runs ahead.
NothingAhead ==
    /\ \A r \in log : r.at <= now
    /\ \A w \in Writers : Stamped(w) => writer[w].stamp <= now

\* A writer's tail stays in the chain: partitions are dropped while nobody writes.
TailsPresent ==
    \A w \in Writers : Writing(w) /\ writer[w].tail # Nothing => \E q \in Chained : q.at = writer[w].tail

\* A row whose predecessor has left was committed before any writer in flight began; so a
\* stamp that takes the predecessor's instant again is behind it in the chain.
OrphansOld ==
    \A w \in Writers, r \in Chained :
        /\ Writing(w) /\ r.prev # Nothing /\ (\A q \in log : q.at # r.prev) => r.at <= writer[w].tail
        /\ Stamped(w) /\ r.prev = writer[w].stamp => r.at <= writer[w].tail

\* Links that lead back in time lead back in the order of commits.
LinksLeadBack ==
    /\ \A r \in Chained : r.nth <= commits
    /\ \A q, r \in Chained :
         r.prev = q.at /\ r.prev < r.at /\ q.prev < q.at => q.nth < r.nth

\* t is where rows end, as far as a hash can tell.
Ends(t, rows) ==
    \/ rows = {} /\ t = Nothing
    \/ (\E q \in rows : q.at = t) /\ \A q \in rows : q.at <= t

\* Writers take turns on clocks that agree.
Calm == ~overlapped /\ ~skewed

TurnsTaken ==
    \A w \in Writers : Writing(w) =>
        /\ \A v \in Writers \ {w} : ~Writing(v)
        /\ Ends(writer[w].tail, Chained)
        /\ Stamped(w) => \A r \in Chained : r.at < writer[w].stamp

\* Then a row links to the one before it, or to one that left with its partition: a year that
\* goes may take the rows before a row that stays.
Cut(r) == r.prev # Nothing /\ r.prev < r.at /\ \A q \in log : q.at # r.prev
LinkedOrCut == \A r \in Chained : Ends(r.prev, {q \in Chained : q.at < r.at}) \/ Cut(r)

\* All that the chain's rows and its writers keep.
ChainInv ==
    /\ InstantsUnique /\ NothingAhead /\ TailsPresent /\ OrphansOld /\ LinksLeadBack
    /\ Calm => TurnsTaken /\ LinkedOrCut

\* The forwarder marks what it has sent.
SentFirst == \A k \in Workers : worker[k].at = "mark" => worker[k].batch \subseteq received

AuditInv == TypeOK /\ ChainInv /\ SentFirst /\ MarkedIsReceived

-----------------------------------------------------------------------------
(* The last of some rows.                                                  *)

\* Instants are bounded, so some row is the last.
LEMMA SomeRowIsLast ==
    ASSUME MaxTime \in Nat, NEW rows, rows \subseteq Row, rows # {}
    PROVE  \E r \in rows : \A q \in rows : q.at <= r.at
  <1> DEFINE R == OpToRel(<, Nat)
             T == {MaxTime - r.at : r \in rows}
  <1>1. \A r \in rows : r.at \in Nat /\ r.at <= MaxTime  BY DEF Row, Times
  <1>2. T \subseteq Nat /\ T # {}  BY <1>1
  <1>3. \E x \in T : \A y \in T : ~(<<y, x>> \in R)
    <2>1. IsWellFoundedOn(R, Nat)  BY NatLessThanWellFounded
    <2> HIDE DEF R, T
    <2>2. QED  BY <1>2, <2>1, WFMin
  <1>4. PICK x \in T : \A y \in T : ~(<<y, x>> \in R)  BY <1>3
  <1>5. \A y \in T : ~(y < x)
    <2>1. \A y \in T : y < x => <<y, x>> \in R  BY <1>2 DEF OpToRel
    <2>2. QED  BY <1>4, <2>1
  <1>6. PICK r \in rows : x = MaxTime - r.at  OBVIOUS
  <1>7. ASSUME NEW q \in rows PROVE q.at <= r.at
    <2>1. MaxTime - q.at \in T  OBVIOUS
    <2>2. ~(MaxTime - q.at < MaxTime - r.at)  BY <1>5, <1>6, <2>1
    <2> HIDE DEF T
    <2>3. QED  BY <1>1, <2>2
  <1>8. QED  BY <1>7

\* ORDER BY created_at DESC LIMIT 1 finds where the rows end.
LEMMA LastOfEnds ==
    ASSUME NEW rows, rows \subseteq Row
    PROVE  Ends(LastOf(rows), rows)
  <1>1. CASE rows = {}  BY <1>1 DEF LastOf, Ends
  <1>2. CASE rows # {}
    <2>1. \E r \in rows : \A q \in rows : q.at <= r.at  BY <1>2, SomeRowIsLast, AuditAssumption
    <2> DEFINE last == CHOOSE r \in rows : \A q \in rows : q.at <= r.at
    <2>2. last \in rows /\ \A q \in rows : q.at <= last.at  BY <2>1
    <2>3. LastOf(rows) = last.at  BY <1>2 DEF LastOf
    <2>4. QED  BY <2>2, <2>3 DEF Ends
  <1>3. QED  BY <1>1, <1>2

\* Rows end in one place.
LEMMA EndsOnce ==
    ASSUME NEW rows, rows \subseteq Row, NEW t, NEW u, Ends(t, rows), Ends(u, rows)
    PROVE  t = u
  BY DEF Ends, Row, Times

\* Where they end is no instant or one of them.
LEMMA EndsType ==
    ASSUME NEW rows, rows \subseteq Row, NEW t, Ends(t, rows)
    PROVE  t \in Times \cup {Nothing}
  BY DEF Ends, Row

\* The writer's tail is where the chain ends.
LEMMA TailEnds == ASSUME TypeOK PROVE Ends(Tail, Chained)
  <1>1. {r \in Chained : r.at < MaxTime + 1} = Chained
    BY AuditAssumption DEF TypeOK, Chained, Row, Times
  <1>2. Chained \subseteq Row  BY DEF TypeOK, Chained
  <1>3. QED  BY <1>1, <1>2, LastOfEnds DEF Tail, ChainedBefore

-----------------------------------------------------------------------------
(* Steps that leave the chain alone.                                       *)

chainVars == <<now, log, writer, commits, overlapped, skewed>>

LEMMA ChainUntouched == ASSUME ChainInv, UNCHANGED chainVars PROVE ChainInv'
  BY DEF chainVars, ChainInv, InstantsUnique, NothingAhead, TailsPresent, OrphansOld, LinksLeadBack,
         Calm, TurnsTaken, LinkedOrCut, Cut, Ends, Writing, Stamped, Chained

\* Nor do they touch the rows the SIEM has received.
LEMMA ReceivedGrows ==
    ASSUME MarkedIsReceived, log' = log, received \subseteq received'
    PROVE  MarkedIsReceived'
  BY DEF MarkedIsReceived

\* The bound on failures is kept by whoever fails.
LEMMA FaultsCounted ==
    ASSUME faults \in 0..MaxFaults, Fails \/ faults' = faults
    PROVE  faults' \in 0..MaxFaults
  BY AuditAssumption DEF Fails

\* Some instants are left while the guard says so.
LEMMA TimeLeft ==
    ASSUME now \in 0..MaxTime, NEW W \in SUBSET Writers, Cardinality(W) + now < MaxTime
    PROVE  now + 1 \in Times
  <1>1. Cardinality(W) \in Nat  BY AuditAssumption, FS_Subset, FS_CardinalityType
  <1>2. QED  BY <1>1, AuditAssumption DEF Times

\* Time passes.
LEMMA TickKeeps ==
    ASSUME AuditInv, Tick
    PROVE  AuditInv'
  <1> USE DEF AuditInv, Tick
  <1>1. now + 1 \in Times  BY TimeLeft DEF TypeOK
  <1>2. TypeOK'  BY <1>1, AuditAssumption DEF TypeOK, Times
  <1>3. NothingAhead'
    BY AuditAssumption DEF ChainInv, NothingAhead, InstantsUnique, Stamped, TypeOK, Row, Times
  <1>4. ChainInv'
    BY <1>3 DEF ChainInv, InstantsUnique, TailsPresent, OrphansOld, LinksLeadBack,
                Calm, TurnsTaken, LinkedOrCut, Cut, Ends, Writing, Stamped, Chained
  <1>5. SentFirst' /\ MarkedIsReceived'  BY ReceivedGrows DEF SentFirst
  <1>6. QED  BY <1>2, <1>4, <1>5

-----------------------------------------------------------------------------
(* The forwarder.                                                          *)

\* forwardOrgPending up to its marks: it reads and sends, and may fail.
LEMMA ForwarderKeeps ==
    ASSUME AuditInv, NEW k \in Workers, ForwardRead(k) \/ ForwardSend(k) \/ ForwardFails(k)
    PROVE  AuditInv'
  <1> USE DEF AuditInv
  <1>1. UNCHANGED chainVars /\ received \subseteq received'
    BY DEF ForwardRead, ForwardSend, ForwardFails, chainVars
  <1>2. ChainInv' /\ MarkedIsReceived'
    BY <1>1, ChainUntouched, ReceivedGrows DEF chainVars
  <1>3. CASE ForwardRead(k)
    <2>1. {r.at : r \in Oldest(Pending)} \subseteq Times  BY DEF Oldest, Pending, TypeOK, Row
    <2>2. TypeOK'  BY <1>3, <2>1 DEF ForwardRead, TypeOK, WorkerState
    <2>3. SentFirst'  BY <1>3 DEF ForwardRead, SentFirst, TypeOK
    <2>4. QED  BY <1>2, <2>2, <2>3
  <1>4. CASE ForwardSend(k)
    <2>1. TypeOK'  BY <1>4 DEF ForwardSend, TypeOK, WorkerState
    <2>2. SentFirst'  BY <1>4 DEF ForwardSend, SentFirst, TypeOK, WorkerState
    <2>3. QED  BY <1>2, <2>1, <2>2
  <1>5. CASE ForwardFails(k)
    <2>1. faults' \in 0..MaxFaults  BY <1>5, FaultsCounted DEF ForwardFails, TypeOK
    <2>2. TypeOK'  BY <1>5, <2>1 DEF ForwardFails, TypeOK, WorkerState, IdleWorker
    <2>3. SentFirst'  BY <1>5 DEF ForwardFails, SentFirst, TypeOK, IdleWorker
    <2>4. QED  BY <1>2, <2>2, <2>3
  <1>6. QED  BY <1>3, <1>4, <1>5

-----------------------------------------------------------------------------
(* Steps that touch rows in columns no hash covers.                        *)

Alike(q, r) == q.at = r.at /\ q.chained = r.chained /\ q.prev = r.prev /\ q.nth = r.nth

SameChain ==
    /\ \A r \in log' : \E q \in log : Alike(q, r)
    /\ \A q \in log : \E r \in log' : Alike(q, r)
    /\ \A q, r \in log' : q.at = r.at => q = r

LEMMA SameChainKeeps ==
    ASSUME TypeOK, ChainInv, SameChain, log' \subseteq Row,
           UNCHANGED <<now, writer, commits, overlapped, skewed>>
    PROVE  ChainInv'
  <1> USE DEF ChainInv
  <1>1. /\ \A r \in Chained' : \E q \in Chained : Alike(q, r)
        /\ \A q \in Chained : \E r \in Chained' : Alike(q, r)
    BY DEF SameChain, Chained, Alike
  <1>2. ASSUME NEW t, NEW b PROVE Ends(t, {q \in Chained : q.at < b}) => Ends(t, {q \in Chained' : q.at < b})
    BY <1>1 DEF Ends, Alike
  <1>3. ASSUME NEW t PROVE Ends(t, Chained) => Ends(t, Chained')
    BY <1>1 DEF Ends, Alike
  <1>4. InstantsUnique'  BY DEF SameChain, Alike, InstantsUnique, Stamped
  <1>5. NothingAhead'  BY DEF SameChain, Alike, NothingAhead, Stamped
  <1>6. TailsPresent'  BY <1>1 DEF Alike, TailsPresent, Writing
  <1>7. OrphansOld'
    <2> SUFFICES ASSUME NEW w \in Writers, NEW r \in Chained'
                 PROVE  /\ Writing(w) /\ r.prev # Nothing /\ (\A q \in log' : q.at # r.prev) => r.at <= writer[w].tail
                        /\ Stamped(w) /\ r.prev = writer[w].stamp => r.at <= writer[w].tail
      BY DEF OrphansOld, Writing, Stamped
    <2>1. PICK p \in Chained : Alike(p, r)  BY <1>1
    <2>2. (\A q \in log' : q.at # r.prev) => \A q \in log : q.at # p.prev  BY <2>1 DEF SameChain, Alike
    <2>3. QED  BY <2>1, <2>2 DEF OrphansOld, Alike
  <1>8. LinksLeadBack'
    <2>1. \A r \in Chained' : r.nth <= commits  BY <1>1 DEF LinksLeadBack, Alike
    <2>2. ASSUME NEW q \in Chained', NEW r \in Chained', r.prev = q.at, r.prev < r.at, q.prev < q.at
          PROVE  q.nth < r.nth
      <3>1. PICK p \in Chained, s \in Chained : Alike(p, q) /\ Alike(s, r)  BY <1>1
      <3>2. QED  BY <2>2, <3>1 DEF LinksLeadBack, Alike
    <2>3. QED  BY <2>1, <2>2 DEF LinksLeadBack
  <1>9. ASSUME Calm' PROVE TurnsTaken' /\ LinkedOrCut'
    <2>1. TurnsTaken /\ LinkedOrCut  BY <1>9 DEF Calm
    <2>2. TurnsTaken'
      <3>1. \A w \in Writers : Stamped(w) /\ Writing(w) => \A r \in Chained' : r.at < writer[w].stamp
        BY <1>1, <2>1 DEF TurnsTaken, Alike
      <3>2. QED  BY <1>3, <2>1, <3>1 DEF TurnsTaken, Writing, Stamped
    <2>3. ASSUME NEW r \in Chained' PROVE Ends(r.prev, {q \in Chained' : q.at < r.at}) \/ Cut(r)'
      <3>1. PICK p \in Chained : Alike(p, r)  BY <1>1
      <3>2. CASE Ends(p.prev, {q \in Chained : q.at < p.at})  BY <1>2, <3>1, <3>2 DEF Alike
      <3>3. CASE Cut(p)  BY <3>1, <3>3 DEF Cut, SameChain, Alike
      <3>4. QED  BY <2>1, <3>2, <3>3 DEF LinkedOrCut
    <2>4. LinkedOrCut'  BY <2>3 DEF LinkedOrCut
    <2>5. QED  BY <2>2, <2>4
  <1>10. QED  BY <1>4, <1>5, <1>6, <1>7, <1>8, <1>9

\* RunRetention: a row that is soft-deleted keeps its place in the chain.
LEMMA RunRetentionKeeps ==
    ASSUME AuditInv, RunRetention
    PROVE  AuditInv'
  <1> USE DEF AuditInv, RunRetention
  <1> DEFINE swept(r) == [r EXCEPT !.deleted = @ \/ Expired(r)]
  <1>1. \A r \in log : swept(r) \in Row /\ Alike(r, swept(r)) /\ swept(r).forwarded = r.forwarded
    BY DEF TypeOK, Row, Alike
  <1>2. log' = {swept(r) : r \in log}  OBVIOUS
  <1> HIDE DEF swept
  <1>3. log' \subseteq Row  BY <1>1, <1>2
  <1>4. SameChain
    <2>1. \A r \in log' : \E q \in log : r = swept(q)  BY <1>2
    <2>2. \A q \in log : swept(q) \in log'  BY <1>2
    <2>3. \A q, r \in log' : q.at = r.at => q = r
      BY <1>1, <2>1 DEF ChainInv, InstantsUnique, Alike
    <2>4. \A r \in log' : \E q \in log : Alike(q, r)  BY <1>1, <2>1
    <2>5. \A q \in log : \E r \in log' : Alike(q, r)  BY <1>1, <2>2
    <2>6. QED  BY <2>3, <2>4, <2>5 DEF SameChain
  <1>5. TypeOK'  BY <1>3 DEF TypeOK
  <1>6. ChainInv'  BY <1>3, <1>4, SameChainKeeps
  <1>7. SentFirst'  BY DEF SentFirst
  <1>8. MarkedIsReceived'  BY <1>1, <1>2 DEF MarkedIsReceived, Alike
  <1>9. QED  BY <1>5, <1>6, <1>7, <1>8

\* MarkForwarded: a row is marked behind its delivery.
LEMMA ForwardMarkKeeps ==
    ASSUME AuditInv, NEW k \in Workers, ForwardMark(k)
    PROVE  AuditInv'
  <1> USE DEF AuditInv
  <1>1. PICK t \in worker[k].batch :
          /\ (log' = MarkedOne(k, t) /\ faults' = faults) \/ (log' = log /\ Fails)
          /\ worker' = [worker EXCEPT ![k] = IF @.batch = {t} THEN IdleWorker ELSE [at |-> "mark", batch |-> @.batch \ {t}]]
    BY DEF ForwardMark
  <1>2. /\ worker[k].at = "mark" /\ worker[k] \in WorkerState
        /\ UNCHANGED <<now, writer, received, commits, overlapped, skewed>>
    BY DEF ForwardMark, TypeOK
  <1>3. worker[k].batch \subseteq received  BY <1>2 DEF SentFirst
  <1> DEFINE marked(r) == IF r.at = t THEN [r EXCEPT !.forwarded = TRUE] ELSE r
  <1>4. \A r \in log : /\ marked(r) \in Row /\ Alike(r, marked(r))
                       /\ marked(r).forwarded => r.forwarded \/ r.at = t
    BY DEF TypeOK, Row, Alike
  <1>5. log' = {marked(r) : r \in log} \/ log' = log  BY <1>1 DEF MarkedOne
  <1> HIDE DEF marked
  <1>6. log' \subseteq Row  BY <1>4, <1>5 DEF TypeOK
  <1>7. SameChain
    <2>1. CASE log' = {marked(r) : r \in log}
      <3>1. \A r \in log' : \E q \in log : r = marked(q)  BY <2>1
      <3>2. \A q \in log : marked(q) \in log'  BY <2>1
      <3>3. \A q, r \in log' : q.at = r.at => q = r
        BY <1>4, <3>1 DEF ChainInv, InstantsUnique, Alike
      <3>4. QED  BY <1>4, <3>1, <3>2, <3>3 DEF SameChain
    <2>2. CASE log' = log  BY <2>2 DEF SameChain, Alike, ChainInv, InstantsUnique
    <2>3. QED  BY <1>5, <2>1, <2>2
  <1> DEFINE rest == IF worker[k].batch = {t} THEN IdleWorker
                     ELSE [at |-> "mark", batch |-> worker[k].batch \ {t}]
  <1>8. worker' = [worker EXCEPT ![k] = rest]  BY <1>1 DEF TypeOK
  <1>9. rest \in WorkerState /\ (rest.at = "mark" => rest.batch \subseteq worker[k].batch)
    BY <1>2 DEF WorkerState, IdleWorker
  <1> HIDE DEF rest
  <1>10. TypeOK'
    <2>1. faults' \in 0..MaxFaults  BY <1>1, FaultsCounted DEF TypeOK
    <2>2. worker' \in [Workers -> WorkerState]  BY <1>8, <1>9 DEF TypeOK
    <2>3. QED  BY <1>2, <1>6, <2>1, <2>2 DEF TypeOK
  <1>11. ChainInv'  BY <1>2, <1>6, <1>7, SameChainKeeps
  <1>12. SentFirst'
    <2>1. worker'[k].at = "mark" => worker'[k].batch \subseteq received
      BY <1>2, <1>3, <1>8, <1>9 DEF TypeOK
    <2>2. QED  BY <1>2, <1>8, <2>1 DEF SentFirst, TypeOK
  <1>13. MarkedIsReceived'
    BY <1>2, <1>3, <1>4, <1>5 DEF MarkedIsReceived, Alike
  <1>14. QED  BY <1>10, <1>11, <1>12, <1>13

-----------------------------------------------------------------------------
(* Rows that come without a hash, rows that go.                            *)

\* Logger.Log: the chain passes over the row.
LEMMA LogUnchainedKeeps ==
    ASSUME AuditInv, LogUnchained
    PROVE  AuditInv'
  <1> USE DEF AuditInv
  <1> DEFINE n == [at |-> now + 1, chained |-> FALSE, prev |-> Nothing, nth |-> 0,
                   deleted |-> FALSE, forwarded |-> FALSE]
  <1>1. /\ now' = now + 1 /\ now + 1 \notin Used /\ log' = log \cup {n} /\ now + 1 \in Times
        /\ UNCHANGED <<writer, worker, received, faults, commits, overlapped, skewed>>
    BY TimeLeft DEF LogUnchained, TypeOK
  <1>2. n \in Row /\ ~n.chained /\ ~n.forwarded /\ n.at = now + 1  BY <1>1 DEF Row
  <1> HIDE DEF n
  <1>3. Chained' = Chained  BY <1>1, <1>2 DEF Chained
  <1>4. (\A r \in log : r.at # n.at) /\ \A w \in Writers : writer[w].stamp # n.at
    BY <1>1, <1>2 DEF Used
  <1>5. TypeOK'  BY <1>1, <1>2, AuditAssumption DEF TypeOK, Times
  <1>6. InstantsUnique'  BY <1>1, <1>4 DEF ChainInv, InstantsUnique, Stamped
  <1>7. NothingAhead'
    BY <1>1, <1>2, AuditAssumption DEF ChainInv, NothingAhead, InstantsUnique, Stamped, TypeOK, Row, Times
  <1>8. TailsPresent' /\ OrphansOld' /\ LinksLeadBack'
    BY <1>1, <1>3 DEF ChainInv, TailsPresent, OrphansOld, LinksLeadBack, Writing, Stamped
  <1>9. ASSUME Calm' PROVE TurnsTaken' /\ LinkedOrCut'
    <2>1. TurnsTaken /\ LinkedOrCut  BY <1>1, <1>9 DEF ChainInv, Calm
    <2>2. TurnsTaken'  BY <1>1, <1>3, <2>1 DEF TurnsTaken, Ends, Writing, Stamped
    <2>3. ASSUME NEW r \in Chained, Cut(r) PROVE Cut(r)'
      <3>1. r.prev < now + 1
        BY <2>3 DEF Cut, ChainInv, NothingAhead, TypeOK, Chained, Row, Times, Nothing
      <3>2. QED  BY <1>1, <1>2, <2>3, <3>1 DEF Cut, TypeOK, Chained, Row, Times, Nothing
    <2>4. LinkedOrCut'  BY <1>3, <2>1, <2>3 DEF LinkedOrCut
    <2>5. QED  BY <2>2, <2>4
  <1>10. SentFirst' /\ MarkedIsReceived'  BY <1>1, <1>2 DEF SentFirst, MarkedIsReceived
  <1>11. QED  BY <1>5, <1>6, <1>7, <1>8, <1>9, <1>10 DEF ChainInv

\* MaintainPartitions: nobody writes; a row that stays keeps the row before it or is cut off.
LEMMA DropPartitionsKeeps ==
    ASSUME AuditInv, DropPartitions
    PROVE  AuditInv'
  <1> USE DEF AuditInv
  <1>1. /\ log' \subseteq log /\ \A w \in Writers : ~Writing(w)
        /\ UNCHANGED <<now, writer, worker, received, faults, commits, overlapped, skewed>>
    BY DEF DropPartitions, Writing
  <1>2. Chained' \subseteq Chained  BY <1>1 DEF Chained
  <1>3. TypeOK'  BY <1>1 DEF TypeOK
  <1>4. InstantsUnique' /\ NothingAhead' /\ TailsPresent' /\ OrphansOld' /\ LinksLeadBack'
    BY <1>1, <1>2 DEF ChainInv, InstantsUnique, NothingAhead, TailsPresent, OrphansOld, LinksLeadBack,
                      Writing, Stamped
  <1>5. ASSUME Calm' PROVE TurnsTaken' /\ LinkedOrCut'
    <2>1. LinkedOrCut  BY <1>1, <1>5 DEF ChainInv, Calm
    <2>2. TurnsTaken'  BY <1>1 DEF TurnsTaken, Writing
    <2>3. ASSUME NEW r \in Chained' PROVE Ends(r.prev, {q \in Chained' : q.at < r.at}) \/ Cut(r)'
      <3>1. r \in Chained  BY <1>2
      <3>2. CASE Cut(r)  BY <1>1, <3>2 DEF Cut
      <3>3. CASE Ends(r.prev, {q \in Chained : q.at < r.at})
        <4>1. CASE r.prev = Nothing
          <5>1. {q \in Chained : q.at < r.at} = {}
            BY <3>3, <4>1 DEF Ends, TypeOK, Chained, Row, Times, Nothing
          <5>2. {q \in Chained' : q.at < r.at} = {}  BY <1>2, <5>1
          <5>3. QED  BY <4>1, <5>2 DEF Ends
        <4>2. CASE r.prev # Nothing
          <5>1. PICK p \in Chained : p.at = r.prev /\ p.at < r.at  BY <3>3, <4>2 DEF Ends
          <5>2. CASE p \in Chained'  BY <1>2, <3>3, <5>1, <5>2 DEF Ends
          <5>3. CASE p \notin Chained'
            <6>1. \A q \in log : q.at = r.prev => q = p
              BY <5>1 DEF ChainInv, InstantsUnique, Chained
            <6>2. p \notin log'  BY <5>1, <5>3 DEF Chained
            <6>3. QED  BY <1>1, <4>2, <5>1, <6>1, <6>2 DEF Cut
          <5>4. QED  BY <5>2, <5>3
        <4>3. QED  BY <4>1, <4>2
      <3>4. QED  BY <2>1, <3>1, <3>2, <3>3 DEF LinkedOrCut
    <2>4. LinkedOrCut'  BY <2>3 DEF LinkedOrCut
    <2>5. QED  BY <2>2, <2>4
  <1>6. SentFirst' /\ MarkedIsReceived'  BY <1>1 DEF SentFirst, MarkedIsReceived
  <1>7. QED  BY <1>3, <1>4, <1>5, <1>6 DEF ChainInv

-----------------------------------------------------------------------------
(* audit.Write                                                             *)

\* A writer's step that adds no row leaves the forwarder's knowledge as it is.
LEMMA WriterAlone ==
    ASSUME SentFirst, MarkedIsReceived, UNCHANGED <<log, worker, received>>
    PROVE  SentFirst' /\ MarkedIsReceived'
  BY DEF SentFirst, MarkedIsReceived

\* The snapshot of the tail.
LEMMA WriteBeginKeeps ==
    ASSUME AuditInv, NEW w \in Writers, WriteBegin(w)
    PROVE  AuditInv'
  <1> USE DEF AuditInv, ChainInv
  <1> DEFINE begun == [IdleWriter EXCEPT !.at = "lock", !.tail = Tail]
  <1>1. /\ writer' = [writer EXCEPT ![w] = begun] /\ ~Writing(w)
        /\ overlapped' = (overlapped \/ \E v \in Writers : Writing(v))
        /\ UNCHANGED <<now, log, worker, received, faults, commits, skewed>>
    BY DEF WriteBegin, Writing
  <1>2. Ends(Tail, Chained)  BY TailEnds
  <1>3. Tail \in Times \cup {Nothing}  BY <1>2, EndsType DEF TypeOK, Chained
  <1> DEFINE t == Tail
  <1>4. begun.at = "lock" /\ begun.tail = t /\ begun \in WriterState
    BY <1>3 DEF WriterState, IdleWriter
  <1>5. Ends(t, Chained)  BY <1>2
  <1> HIDE DEF begun, t
  <1>6. writer'[w] = begun /\ \A v \in Writers \ {w} : writer'[v] = writer[v]  BY <1>1 DEF TypeOK
  <1>7. TypeOK'
    <2>1. overlapped' \in BOOLEAN  BY <1>1 DEF TypeOK
    <2>2. QED  BY <1>1, <1>4, <2>1 DEF TypeOK
  <1>8. InstantsUnique' /\ NothingAhead'
    BY <1>1, <1>4, <1>6 DEF InstantsUnique, NothingAhead, Stamped
  <1>9. TailsPresent'
    BY <1>1, <1>4, <1>5, <1>6 DEF TailsPresent, Writing, Chained, Ends
  <1>10. OrphansOld'
    BY <1>1, <1>4, <1>5, <1>6 DEF OrphansOld, Writing, Stamped, Chained, Ends
  <1>11. LinksLeadBack'  BY <1>1 DEF LinksLeadBack, Chained
  <1>12. ASSUME Calm' PROVE TurnsTaken' /\ LinkedOrCut'
    <2>1. LinkedOrCut /\ \A v \in Writers : ~Writing(v)  BY <1>1, <1>12 DEF Calm
    <2>2. \A v \in Writers \ {w} : ~Writing(v)'  BY <1>6, <2>1 DEF Writing
    <2>3. TurnsTaken'
      BY <1>1, <1>4, <1>5, <1>6, <2>2 DEF TurnsTaken, Writing, Stamped, Chained, Ends
    <2>4. LinkedOrCut'  BY <1>1, <2>1 DEF LinkedOrCut, Cut, Chained, Ends
    <2>5. QED  BY <2>3, <2>4
  <1>13. QED  BY <1>1, <1>7, <1>8, <1>9, <1>10, <1>11, <1>12, WriterAlone

\* FOR UPDATE
LEMMA WriteLockKeeps ==
    ASSUME AuditInv, NEW w \in Writers, WriteLock(w)
    PROVE  AuditInv'
  <1> USE DEF AuditInv, ChainInv
  <1>1. /\ writer[w].at = "lock" /\ writer' = [writer EXCEPT ![w].at = "insert"]
        /\ UNCHANGED <<now, log, worker, received, faults, commits, overlapped, skewed>>
    BY DEF WriteLock
  <1>2. /\ writer'[w].at = "insert" /\ writer'[w].tail = writer[w].tail
        /\ \A v \in Writers \ {w} : writer'[v] = writer[v]
    BY <1>1 DEF TypeOK, WriterState
  <1>3. TypeOK'  BY <1>1 DEF TypeOK, WriterState
  <1>4. InstantsUnique' /\ NothingAhead'
    BY <1>1, <1>2 DEF InstantsUnique, NothingAhead, Stamped
  <1>5. TailsPresent' /\ OrphansOld' /\ LinksLeadBack'
    BY <1>1, <1>2 DEF TailsPresent, OrphansOld, LinksLeadBack, Writing, Stamped, Chained
  <1>6. ASSUME Calm' PROVE TurnsTaken' /\ LinkedOrCut'
    <2>1. TurnsTaken /\ LinkedOrCut  BY <1>1, <1>6 DEF Calm
    <2>2. TurnsTaken'  BY <1>1, <1>2, <2>1 DEF TurnsTaken, Writing, Stamped, Chained, Ends
    <2>3. LinkedOrCut'  BY <1>1, <2>1 DEF LinkedOrCut, Cut, Chained, Ends
    <2>4. QED  BY <2>2, <2>3
  <1>7. QED  BY <1>1, <1>3, <1>4, <1>5, <1>6, WriterAlone

\* The clock is read under the lock: an instant nobody has used.
LEMMA WriteStampKeeps ==
    ASSUME AuditInv, NEW w \in Writers, WriteStamp(w)
    PROVE  AuditInv'
  <1> USE DEF AuditInv, ChainInv
  <1>1. PICK lag \in 0..MaxSkew :
          /\ now' - lag \in Times \ Used
          /\ writer' = [writer EXCEPT ![w].at = "commit", ![w].stamp = now' - lag]
          /\ skewed' = (skewed \/ lag # 0)
    BY DEF WriteStamp
  <1>2. /\ writer[w].at = "insert" /\ now < MaxTime /\ now' = now + 1
        /\ UNCHANGED <<log, worker, received, faults, commits, overlapped>>
    BY DEF WriteStamp
  <1> DEFINE s == now' - lag
  <1>3. /\ s \in Times /\ (\A r \in log : r.at # s) /\ \A v \in Writers : writer[v].stamp # s
        /\ s # Nothing /\ s <= now'
    <2>1. s \in Times /\ s \notin Used  BY <1>1
    <2>2. s <= now'  BY <1>2, AuditAssumption DEF TypeOK
    <2> HIDE DEF s
    <2>3. QED  BY <2>1, <2>2 DEF Used, Times, Nothing
  <1>4. lag = 0 => \A r \in log : r.at < s
    <2>1. \A r \in log : r.at <= now /\ r.at \in Nat  BY DEF NothingAhead, TypeOK, Row, Times
    <2>2. lag = 0 => s = now + 1  BY <1>2, AuditAssumption DEF TypeOK
    <2> HIDE DEF s
    <2>3. QED  BY <2>1, <2>2 DEF TypeOK
  <1>5. writer' = [writer EXCEPT ![w].at = "commit", ![w].stamp = s]  BY <1>1
  <1> HIDE DEF s
  <1>6. /\ writer'[w].at = "commit" /\ writer'[w].stamp = s /\ writer'[w].tail = writer[w].tail
        /\ \A v \in Writers \ {w} : writer'[v] = writer[v]
    BY <1>5 DEF TypeOK, WriterState
  <1>7. TypeOK'
    <2>1. writer' \in [Writers -> WriterState]  BY <1>3, <1>5 DEF TypeOK, WriterState
    <2>2. skewed' \in BOOLEAN  BY <1>1 DEF TypeOK
    <2>3. now' \in 0..MaxTime  BY <1>2, AuditAssumption DEF TypeOK
    <2>4. QED  BY <1>2, <2>1, <2>2, <2>3 DEF TypeOK
  <1>8. InstantsUnique'  BY <1>2, <1>3, <1>6 DEF InstantsUnique, Stamped
  <1>9. NothingAhead'
    <2>1. \A r \in log : r.at <= now'
      BY <1>2, AuditAssumption DEF NothingAhead, TypeOK, Row, Times
    <2>2. \A v \in Writers \ {w} : Stamped(v) => writer[v].stamp <= now'
      BY <1>2, AuditAssumption DEF NothingAhead, InstantsUnique, TypeOK, Times
    <2>3. QED  BY <1>2, <1>3, <1>6, <2>1, <2>2 DEF NothingAhead, Stamped
  <1>10. TailsPresent'  BY <1>2, <1>6 DEF TailsPresent, Writing, Chained
  <1>11. OrphansOld'
    <2>1. \A r \in Chained : r.prev = s => r.at <= writer[w].tail
      BY <1>2, <1>3 DEF OrphansOld, Writing
    <2>2. QED  BY <1>2, <1>6, <2>1 DEF OrphansOld, Writing, Stamped, Chained
  <1>12. LinksLeadBack'  BY <1>2 DEF LinksLeadBack, Chained
  <1>13. ASSUME Calm' PROVE TurnsTaken' /\ LinkedOrCut'
    <2>1. TurnsTaken /\ LinkedOrCut /\ lag = 0  BY <1>1, <1>2, <1>13 DEF Calm
    <2>2. TurnsTaken'
      BY <1>2, <1>4, <1>6, <2>1 DEF TurnsTaken, Writing, Stamped, Chained, Ends
    <2>3. LinkedOrCut'  BY <1>2, <2>1 DEF LinkedOrCut, Cut, Chained, Ends
    <2>4. QED  BY <2>2, <2>3
  <1>14. QED  BY <1>2, <1>7, <1>8, <1>9, <1>10, <1>11, <1>12, <1>13, WriterAlone

\* A rollback.
LEMMA WriteFailsKeeps ==
    ASSUME AuditInv, NEW w \in Writers, WriteFails(w)
    PROVE  AuditInv'
  <1> USE DEF AuditInv, ChainInv
  <1>1. /\ writer' = [writer EXCEPT ![w] = IdleWriter] /\ Fails
        /\ UNCHANGED <<now, log, worker, received, commits, overlapped, skewed>>
    BY DEF WriteFails
  <1>2. /\ writer'[w].at = "idle"
        /\ \A v \in Writers \ {w} : writer'[v] = writer[v]
    BY <1>1 DEF TypeOK, IdleWriter
  <1>3. TypeOK'
    <2>1. faults' \in 0..MaxFaults  BY <1>1, FaultsCounted DEF TypeOK
    <2>2. QED  BY <1>1, <2>1 DEF TypeOK, WriterState, IdleWriter
  <1>4. InstantsUnique' /\ NothingAhead'
    BY <1>1, <1>2 DEF InstantsUnique, NothingAhead, Stamped
  <1>5. TailsPresent' /\ OrphansOld' /\ LinksLeadBack'
    BY <1>1, <1>2 DEF TailsPresent, OrphansOld, LinksLeadBack, Writing, Stamped, Chained
  <1>6. ASSUME Calm' PROVE TurnsTaken' /\ LinkedOrCut'
    <2>1. TurnsTaken /\ LinkedOrCut  BY <1>1, <1>6 DEF Calm
    <2>2. TurnsTaken'  BY <1>1, <1>2, <2>1 DEF TurnsTaken, Writing, Stamped, Chained, Ends
    <2>3. LinkedOrCut'  BY <1>1, <2>1 DEF LinkedOrCut, Cut, Chained, Ends
    <2>4. QED  BY <2>2, <2>3
  <1>7. QED  BY <1>1, <1>3, <1>4, <1>5, <1>6, WriterAlone

\* The row is there, and the lock is gone.
LEMMA WriteCommitKeeps ==
    ASSUME AuditInv, NEW w \in Writers, WriteCommit(w)
    PROVE  AuditInv'
  <1> USE DEF AuditInv, ChainInv
  <1> DEFINE n == [at |-> writer[w].stamp, chained |-> TRUE, prev |-> writer[w].tail,
                   nth |-> commits + 1, deleted |-> FALSE, forwarded |-> FALSE]
  <1>1. /\ Stamped(w) /\ Writing(w) /\ log' = log \cup {n} /\ commits' = commits + 1
        /\ writer' = [writer EXCEPT ![w] = IdleWriter]
        /\ UNCHANGED <<now, worker, received, faults, overlapped, skewed>>
    BY DEF WriteCommit, Stamped, Writing
  <1>2. /\ n.at = writer[w].stamp /\ n.prev = writer[w].tail /\ n.nth = commits + 1
        /\ n.chained /\ ~n.forwarded
    OBVIOUS
  <1>3. n \in Row  BY <1>1 DEF InstantsUnique, TypeOK, Row, WriterState
  <1> HIDE DEF n
  <1>4. /\ writer'[w].at = "idle"
        /\ \A v \in Writers \ {w} : writer'[v] = writer[v]
    BY <1>1 DEF TypeOK, IdleWriter
  <1>5. Chained' = Chained \cup {n}  BY <1>1, <1>2 DEF Chained
  <1>6. n.at \in Times /\ n.at <= now /\ \A r \in log : r.at # n.at
    BY <1>1, <1>2 DEF InstantsUnique, NothingAhead
  <1>7. n.prev # Nothing => \E q \in Chained : q.at = n.prev
    BY <1>1, <1>2 DEF TailsPresent
  <1>8. TypeOK'  BY <1>1, <1>3 DEF TypeOK, WriterState, IdleWriter
  <1>9. InstantsUnique'
    BY <1>1, <1>2, <1>4, <1>6 DEF InstantsUnique, Stamped
  <1>10. NothingAhead'  BY <1>1, <1>4, <1>6 DEF NothingAhead, Stamped
  <1>11. TailsPresent'  BY <1>4, <1>5 DEF TailsPresent, Writing
  <1>12. OrphansOld'
    <2> SUFFICES ASSUME NEW v \in Writers \ {w}, NEW r \in Chained', Writing(v)
                 PROVE  /\ r.prev # Nothing /\ (\A q \in log' : q.at # r.prev) => r.at <= writer[v].tail
                        /\ Stamped(v) /\ r.prev = writer[v].stamp => r.at <= writer[v].tail
      BY <1>4 DEF OrphansOld, Writing, Stamped
    <2>1. CASE r = n
      <3>1. n.prev # Nothing => \E q \in log : q.at = n.prev  BY <1>7 DEF Chained
      <3>2. Stamped(v) => writer[v].stamp # n.prev
        BY <3>1 DEF InstantsUnique, Times, Nothing
      <3>3. QED  BY <1>1, <2>1, <3>1, <3>2
    <2>2. CASE r \in Chained  BY <1>1, <2>2 DEF OrphansOld
    <2>3. QED  BY <1>5, <2>1, <2>2
  <1>13. LinksLeadBack'
    <2>1. \A r \in Chained : r.nth \in Nat /\ r.at \in Nat /\ r.prev \in Nat /\ r.nth <= commits
      BY DEF LinksLeadBack, Chained, TypeOK, Row, Times, Nothing
    <2>2. n.nth = commits + 1 /\ n.at \in Nat /\ n.prev \in Nat /\ commits \in Nat
      BY <1>2, <1>3 DEF TypeOK, Row, Times, Nothing
    <2>3. \A r \in Chained : r.prev = n.at => r.at <= n.prev
      BY <1>1, <1>2 DEF OrphansOld
    <2>4. ASSUME NEW q \in Chained', NEW r \in Chained', r.prev = q.at, r.prev < r.at, q.prev < q.at
          PROVE  q.nth < r.nth
      <3>1. CASE q \in Chained /\ r \in Chained  BY <2>4, <3>1 DEF LinksLeadBack
      <3>2. CASE q \in Chained /\ r = n  BY <2>1, <2>2, <3>2
      <3>3. CASE q = n /\ r \in Chained  BY <2>1, <2>2, <2>3, <2>4, <3>3
      <3>4. CASE q = n /\ r = n  BY <2>2, <2>4, <3>4
      <3>5. QED  BY <1>5, <3>1, <3>2, <3>3, <3>4
    <2>5. \A r \in Chained' : r.nth <= commits'  BY <1>1, <1>5, <2>1, <2>2
    <2>6. QED  BY <2>4, <2>5 DEF LinksLeadBack
  <1>14. ASSUME Calm' PROVE TurnsTaken' /\ LinkedOrCut'
    <2>1. TurnsTaken /\ LinkedOrCut  BY <1>1, <1>14 DEF Calm
    <2>2. (\A v \in Writers \ {w} : ~Writing(v)) /\ Ends(n.prev, Chained) /\ \A r \in Chained : r.at < n.at
      BY <1>1, <1>2, <2>1 DEF TurnsTaken
    <2>3. \A v \in Writers : ~Writing(v)'  BY <1>4, <2>2 DEF Writing
    <2>4. TurnsTaken'  BY <2>3 DEF TurnsTaken
    <2>5. \A r \in Chained' : ~(n.at < r.at)
      BY <1>3, <1>5, <2>2 DEF Chained, TypeOK, Row, Times
    <2>6. ASSUME NEW r \in Chained PROVE Ends(r.prev, {q \in Chained' : q.at < r.at}) \/ Cut(r)'
      <3>1. {q \in Chained' : q.at < r.at} = {q \in Chained : q.at < r.at}  BY <1>5, <2>5
      <3>2. ASSUME Cut(r) PROVE Cut(r)'
        <4>1. r.prev # n.at
          BY <1>3, <2>2, <3>2 DEF Cut, Chained, TypeOK, Row, Times, Nothing
        <4>2. QED  BY <1>1, <3>2, <4>1 DEF Cut
      <3>3. QED  BY <2>1, <3>1, <3>2 DEF LinkedOrCut
    <2>7. Ends(n.prev, {q \in Chained' : q.at < n.at})
      <3>1. {q \in Chained' : q.at < n.at} = Chained  BY <1>5, <2>2, <2>5
      <3>2. QED  BY <2>2, <3>1
    <2>8. LinkedOrCut'  BY <1>5, <2>6, <2>7 DEF LinkedOrCut
    <2>9. QED  BY <2>4, <2>8
  <1>15. SentFirst' /\ MarkedIsReceived'  BY <1>1, <1>2 DEF SentFirst, MarkedIsReceived
  <1>16. QED  BY <1>8, <1>9, <1>10, <1>11, <1>12, <1>13, <1>14, <1>15

-----------------------------------------------------------------------------
(* Every step.                                                             *)

LEMMA AuditInit == ASSUME Init PROVE AuditInv
  <1> USE DEF Init
  <1>1. TypeOK
    <2>1. IdleWriter \in WriterState /\ IdleWorker \in WorkerState
      BY DEF WriterState, WorkerState, IdleWriter, IdleWorker
    <2>2. now \in 0..MaxTime /\ faults \in 0..MaxFaults  BY AuditAssumption
    <2>3. QED  BY <2>1, <2>2 DEF TypeOK
  <1>2. \A w \in Writers : ~Writing(w) /\ ~Stamped(w)  BY DEF Writing, Stamped, IdleWriter
  <1>3. Chained = {}  BY DEF Chained
  <1>4. ChainInv
    BY <1>2, <1>3 DEF ChainInv, InstantsUnique, NothingAhead, TailsPresent, OrphansOld, LinksLeadBack,
                      TurnsTaken, LinkedOrCut
  <1>5. SentFirst /\ MarkedIsReceived  BY DEF SentFirst, MarkedIsReceived, IdleWorker
  <1>6. QED  BY <1>1, <1>4, <1>5 DEF AuditInv

LEMMA AuditStep == ASSUME AuditInv, [Next]_vars PROVE AuditInv'
  <1>1. CASE UNCHANGED vars
    <2>1. UNCHANGED chainVars  BY <1>1 DEF vars, chainVars
    <2>2. TypeOK' /\ SentFirst' /\ MarkedIsReceived'
      BY <1>1 DEF AuditInv, TypeOK, SentFirst, MarkedIsReceived, vars
    <2>3. QED  BY <2>1, <2>2, ChainUntouched DEF AuditInv
  <1>2. ASSUME NEW w \in Writers,
               WriteBegin(w) \/ WriteLock(w) \/ WriteStamp(w) \/ WriteCommit(w) \/ WriteFails(w)
        PROVE  AuditInv'
    BY <1>2, WriteBeginKeeps, WriteLockKeeps, WriteStampKeeps, WriteCommitKeeps, WriteFailsKeeps
  <1>3. CASE LogUnchained \/ RunRetention \/ DropPartitions \/ Tick
    BY <1>3, LogUnchainedKeeps, RunRetentionKeeps, DropPartitionsKeeps, TickKeeps
  <1>4. ASSUME NEW k \in Workers, Forward(k) \/ ForwardFails(k)
        PROVE  AuditInv'
    BY <1>4, ForwarderKeeps, ForwardMarkKeeps DEF Forward
  <1>5. QED  BY <1>1, <1>2, <1>3, <1>4 DEF Next

LEMMA AuditInvHolds == Spec => []AuditInv
  BY AuditInit, AuditStep, PTL DEF Spec

-----------------------------------------------------------------------------
(* What the verifier's verdict says.                                       *)

\* Every row links to the one before it.
Linked == \A r \in Chained : Ends(r.prev, {q \in Chained : q.at < r.at})

\* VerifyOrgChain finds nothing exactly when every row does.
LEMMA NothingBadMeansLinked == ASSUME TypeOK PROVE BadRows = {} <=> Linked
  <1>1. ASSUME NEW r \in Chained PROVE r.prev = ChainedBefore(r.at) <=> Ends(r.prev, {q \in Chained : q.at < r.at})
    <2>1. {q \in Chained : q.at < r.at} \subseteq Row  BY DEF Chained, TypeOK
    <2>2. Ends(ChainedBefore(r.at), {q \in Chained : q.at < r.at})
      BY <2>1, LastOfEnds DEF ChainedBefore
    <2>3. QED  BY <2>1, <2>2, EndsOnce
  <1>2. QED  BY <1>1 DEF BadRows, Linked

\* Rows that link are in the order of their commits: the first row that is not would have a
\* predecessor that is.
LEMMA LinkedInOrder ==
    ASSUME TypeOK, InstantsUnique, LinksLeadBack, Linked
    PROVE  \A q, r \in Chained : q.at < r.at => q.nth < r.nth
  <1> DEFINE Wrong(r) == \E q \in Chained : q.at < r.at /\ ~(q.nth < r.nth)
             T == {r.at : r \in {p \in Chained : Wrong(p)}}
             R == OpToRel(<, Nat)
  <1>1. \A r \in Chained : r.at \in Nat /\ r.nth \in Nat /\ 0 < r.at
    BY DEF Chained, TypeOK, Row, Times
  <1>2. SUFFICES ASSUME T # {} PROVE FALSE
    <2>1. \A r \in Chained : ~Wrong(r)  BY <1>2
    <2>2. QED  BY <2>1
  <1>3. T \subseteq Nat  BY <1>1
  <1>4. \E x \in T : \A y \in T : ~(<<y, x>> \in R)
    <2>1. IsWellFoundedOn(R, Nat)  BY NatLessThanWellFounded
    <2> HIDE DEF R, T
    <2>2. QED  BY <1>2, <1>3, <2>1, WFMin
  <1>5. PICK x \in T : \A y \in T : ~(<<y, x>> \in R)  BY <1>4
  <1>6. \A y \in T : ~(y < x)
    <2>1. \A y \in T : y < x => <<y, x>> \in R  BY <1>3 DEF OpToRel
    <2>2. QED  BY <1>5, <2>1
  <1>7. PICK r \in Chained : Wrong(r) /\ x = r.at  OBVIOUS
  <1>8. PICK q \in Chained : q.at < r.at /\ ~(q.nth < r.nth)  BY <1>7
  <1>9. PICK p \in Chained : /\ p.at = r.prev /\ p.at < r.at
                             /\ \A s \in Chained : s.at < r.at => s.at <= p.at
    <2>1. Ends(r.prev, {s \in Chained : s.at < r.at})  BY DEF Linked
    <2>2. QED  BY <1>8, <2>1 DEF Ends
  <1>10. p.prev < p.at
    <2>1. Ends(p.prev, {s \in Chained : s.at < p.at})  BY DEF Linked
    <2>2. QED  BY <1>1, <2>1 DEF Ends, Nothing
  <1>11. p.nth < r.nth  BY <1>9, <1>10 DEF LinksLeadBack
  <1>12. ~Wrong(p)
    <2>1. Wrong(p) => p.at \in T  OBVIOUS
    <2>2. p.at < x  BY <1>7, <1>9
    <2> HIDE DEF T, Wrong
    <2>3. QED  BY <1>6, <2>1, <2>2
  <1>13. CASE q.at = p.at
    <2>1. q = p  BY <1>13 DEF InstantsUnique, Chained
    <2>2. QED  BY <1>8, <1>11, <2>1
  <1>14. CASE q.at < p.at
    <2>1. q.nth < p.nth  BY <1>12, <1>14
    <2>2. QED  BY <1>1, <1>8, <1>11, <2>1
  <1>15. QED  BY <1>1, <1>8, <1>9, <1>13, <1>14

-----------------------------------------------------------------------------
(* The theorems.                                                           *)

\* Every row, writer and forwarder stays what its record says, for any number of them.
THEOREM AuditTypeCorrect == Spec => []TypeOK
  <1>1. AuditInv => TypeOK  BY DEF AuditInv
  <1>2. QED  BY <1>1, AuditInvHolds, PTL

\* To an organisation whose writers took turns on clocks that agree the verifier reports no
\* row but those whose predecessor left with its partition, however many partitions went.
THEOREM NoFalseAlarms == Spec => []NoFalseAlarm
  <1>1. ASSUME AuditInv PROVE NoFalseAlarm
    <2>1. SUFFICES ASSUME Calm, NEW r \in BadRows
                   PROVE  r.prev # Nothing /\ ~\E q \in log : q.at = r.prev
      BY DEF NoFalseAlarm, Calm
    <2>2. r \in Chained /\ r.prev # ChainedBefore(r.at)  BY DEF BadRows
    <2>3. ~Ends(r.prev, {q \in Chained : q.at < r.at})
      <3>1. {q \in Chained : q.at < r.at} \subseteq Row  BY <1>1 DEF AuditInv, Chained, TypeOK
      <3>2. QED  BY <2>2, <3>1, LastOfEnds, EndsOnce DEF ChainedBefore
    <2>4. QED  BY <1>1, <2>1, <2>2, <2>3 DEF AuditInv, ChainInv, LinkedOrCut, Cut
  <1>2. QED  BY <1>1, AuditInvHolds, PTL

\* A chain the verifier replays without a break holds its rows in the order they were
\* committed in, whatever its writers and clocks did.
THEOREM ReplayedChainsAreHistory == Spec => []ReplayIsHistory
  <1>1. AuditInv => ReplayIsHistory
    BY NothingBadMeansLinked, LinkedInOrder DEF AuditInv, ChainInv, ReplayIsHistory, Verdict
  <1>2. QED  BY <1>1, AuditInvHolds, PTL

\* No row is marked as forwarded that the SIEM has not received.
THEOREM MarksAreReceived == Spec => []MarkedIsReceived
  <1>1. AuditInv => MarkedIsReceived  BY DEF AuditInv
  <1>2. QED  BY <1>1, AuditInvHolds, PTL

=============================================================================
