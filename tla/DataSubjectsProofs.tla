------------------------- MODULE DataSubjectsProofs -------------------------
(* Proofs about DataSubjects, for any number of requests and of handlers   *)
(* at work, and about OverdueAlerts on top of it.  ErasureInv is the       *)
(* inductive invariant of the first: what a write may still store is       *)
(* backed by an erasure, and what an erasure found at its begin is         *)
(* deleted, staged, or was cut off by another one.  The alert does nothing *)
(* to the requests that DataSubjects would not do; AlertInv ties its mark  *)
(* to what was heard and a silent day to the mark that caused it.          *)
EXTENDS OverdueAlerts, TLAPS

-----------------------------------------------------------------------------
(* The inductive invariant.                                                *)

\* Rows are inserted once: what was found does not come back.
Once(rows) == ("enrolment" \in rows => ~enrol) /\ ("click" \in rows => click = "done")
InsertedOnce == Once(pii) /\ \A d \in erased : Once(owed[d])

\* An erased request stays an erasure, whatever became of its status.
ErasedStays == \A d \in erased : dsr[d].type = "erasure" /\ dsr[d].status # "absent"

\* A write that is still to come.
Backed(w) ==
    w.at = "write" =>
        /\ dsr[w.d].status # "absent"
        /\ dsr[w.d].type = "erasure" /\ w.status = "completed" => w.d \in erased
        /\ w.d \in erased /\ w.note = "clear" => w.d \in raced

\* An erasure at work.
Stages == {"resolve", "enrolments", "events", "finish"}
Staging(e) ==
    e.at \in Stages =>
        /\ dsr[e.d].type = "erasure" /\ dsr[e.d].status # "absent"
        /\ Once(e.before)
        /\ e.at = "enrolments" /\ "enrolment" \in e.before => e.known
        /\ e.at \in {"events", "finish"} => e.before \cap pii \cap {"enrolment"} \subseteq e.staged
        /\ e.at \in {"enrolments", "events"} /\ "target" \notin pii =>
             e.before \cap pii \cap Events \subseteq strayed
        /\ e.at = "finish" => e.before \cap pii \cap Events \subseteq e.staged \cup strayed

AtWork == \A p \in Procs : Backed(proc[p]) /\ Staging(proc[p])

\* What was erased stays erased.
Completed == \A d \in Dsrs : dsr[d].type = "erasure" /\ dsr[d].status = "completed" => d \in erased
StaysErased == \A d \in erased : owed[d] \cap pii \subseteq strayed

ErasureInv ==
    TypeOK /\ InsertedOnce /\ ErasedStays /\ AtWork /\ Completed /\ StaysErased /\ EvidenceSurvives

-----------------------------------------------------------------------------
(* Facts about handlers.                                                   *)

Handlers == {Idle} \cup Writing \cup Erasing

\* Where a handler is tells what it carries.
LEMMA Shapes ==
    ASSUME NEW x \in Handlers
    PROVE  /\ x.at = "write" => x \in Writing
           /\ x.at \in Stages => x \in Erasing
           /\ x = Idle => x.at = "idle"
  BY DEF Handlers, Idle, Writing, Erasing, Stages

\* A handler that does nothing carries nothing.
LEMMA IdleIsHarmless == Idle \in Handlers /\ Backed(Idle) /\ Staging(Idle)
  BY DEF Handlers, Idle, Backed, Staging, Stages

\* A step of one handler that writes no row: it is enough to look at that handler.
LEMMA HandlerMoves ==
    ASSUME ErasureInv, NEW p \in Procs, NEW w \in Handlers, Backed(w), Staging(w),
           proc' = [proc EXCEPT ![p] = w],
           UNCHANGED <<dsr, pii, click, enrol, erased, owed, strayed, raced>>
    PROVE  ErasureInv'
  <1> USE DEF ErasureInv
  <1>1. TypeOK'  BY DEF TypeOK, Handlers, Rows, Exists
  <1>2. InsertedOnce' /\ ErasedStays' /\ Completed' /\ StaysErased' /\ EvidenceSurvives'
    BY DEF InsertedOnce, Once, ErasedStays, Completed, StaysErased, EvidenceSurvives, Exists
  <1>3. AtWork'
    <2> SUFFICES ASSUME NEW q \in Procs PROVE (Backed(proc[q]) /\ Staging(proc[q]))'
      BY DEF AtWork
    <2>1. proc'[q] = w \/ proc'[q] = proc[q]  BY DEF TypeOK
    <2>2. Backed(proc'[q]) /\ Staging(proc'[q])  BY <2>1 DEF AtWork
    <2>3. Backed(proc[q])'  BY <2>2 DEF Backed
    <2>4. Staging(proc[q])'  BY <2>2 DEF Staging, Once
    <2>5. QED  BY <2>3, <2>4
  <1>4. QED  BY <1>1, <1>2, <1>3

-----------------------------------------------------------------------------
(* Handlers that read or stage.                                            *)

\* Without an erasure behind it no write may close an erasure.
LEMMA UpdateReadKeeps ==
    ASSUME ErasureInv, NEW p \in Procs, NEW d \in Dsrs, NEW status \in Live, NEW pasted \in BOOLEAN,
           UpdateRead(p, d, status, pasted)
    PROVE  ErasureInv'
  <1> DEFINE w == [at |-> "write", d |-> d, status |-> status, note |-> Preserved(dsr[d], pasted)]
  <1>1. w \in Handlers  BY DEF Handlers, Writing, Preserved
  <1>2. Staging(w)  BY DEF Staging, Stages
  <1>3. Backed(w)
    BY DEF Backed, UpdateRead, Preserved, Exists, Live, ErasureInv, ErasedStays, EvidenceSurvives
  <1>4. QED  BY <1>1, <1>2, <1>3, HandlerMoves DEF UpdateRead

LEMMA ResolveReadKeeps ==
    ASSUME ErasureInv, NEW p \in Procs, NEW d \in Dsrs, NEW status \in Live,
           NEW empty \in BOOLEAN, NEW pasted \in BOOLEAN, ResolveRead(p, d, status, empty, pasted)
    PROVE  ErasureInv'
  <1> DEFINE note == IF empty THEN "keep" ELSE Preserved(dsr[d], pasted)
             w == [at |-> "write", d |-> d, status |-> status, note |-> note]
  <1>1. w \in Handlers  BY DEF Handlers, Writing, Preserved
  <1>2. Staging(w)  BY DEF Staging, Stages
  <1>3. dsr[d].status # "absent"  BY DEF ResolveRead, Exists, Live
  <1>4. dsr[d].type = "erasure" /\ status = "completed" => d \in erased
    BY DEF ResolveRead, MayComplete, ErasureExecuted, ErasureInv, Completed
  <1>5. d \in erased /\ note = "clear" => d \in raced
    BY DEF ResolveRead, Preserved, ErasureInv, ErasedStays, EvidenceSurvives
  <1>6. Backed(w)  BY <1>3, <1>4, <1>5 DEF Backed
  <1>7. QED  BY <1>1, <1>2, <1>6, HandlerMoves DEF ResolveRead

LEMMA EraseReadKeeps ==
    ASSUME ErasureInv, NEW p \in Procs, NEW d \in Dsrs, EraseRead(p, d)
    PROVE  ErasureInv'
  <1> DEFINE w == [at |-> "resolve", d |-> d, known |-> FALSE, before |-> {}, staged |-> {}]
  <1>1. w \in Handlers  BY DEF Handlers, Erasing
  <1>2. Backed(w)  BY DEF Backed
  <1>3. Staging(w)  BY DEF Staging, EraseRead, Once, Exists, Live
  <1>4. QED  BY <1>1, <1>2, <1>3, HandlerMoves DEF EraseRead

\* An erasure at a stage is a record of its own kind.
LEMMA AtStage ==
    ASSUME ErasureInv, NEW p \in Procs, proc[p].at \in Stages
    PROVE  proc[p] \in Erasing /\ Staging(proc[p]) /\ Backed(proc[p]) /\ proc[p].at # "write"
  <1>1. proc[p] \in Handlers  BY DEF ErasureInv, TypeOK, Handlers
  <1>2. proc[p] \in Erasing  BY <1>1, Shapes
  <1>3. QED  BY <1>2 DEF ErasureInv, AtWork, Stages

\* The employee behind an enrolment, the target behind an event: what is found has its owner.
LEMMA EraseResolveKeeps ==
    ASSUME ErasureInv, NEW p \in Procs, EraseResolve(p)
    PROVE  ErasureInv'
  <1> DEFINE e == proc[p]
             w == [e EXCEPT !.at = "enrolments", !.known = "employee" \in pii, !.before = Findable(pii)]
  <1>1. e \in Erasing /\ Staging(e)  BY AtStage DEF EraseResolve, Stages
  <1>2. pii \subseteq Pieces /\ Findable(pii) \subseteq pii  BY DEF ErasureInv, TypeOK, Findable
  <1>3. w \in Erasing
    <2>1. \A known \in BOOLEAN, before \in SUBSET Pieces :
            [e EXCEPT !.at = "enrolments", !.known = known, !.before = before] \in Erasing
      BY <1>1 DEF Erasing
    <2>2. ("employee" \in pii) \in BOOLEAN  OBVIOUS
    <2>3. QED  BY <1>2, <2>1, <2>2
  <1>4. w.at = "enrolments" /\ w.d = e.d /\ w.before = Findable(pii) /\ w.known = ("employee" \in pii)
    BY <1>1 DEF Erasing
  <1>5. Backed(w)  BY <1>4 DEF Backed
  <1>6. Staging(w)
    <2>1. dsr[e.d].type = "erasure" /\ dsr[e.d].status # "absent"
      BY <1>1 DEF EraseResolve, Staging, Stages
    <2>2. Once(Findable(pii))  BY <1>2 DEF ErasureInv, InsertedOnce, Once
    <2>3. "enrolment" \in Findable(pii) => "employee" \in pii  BY DEF Findable
    <2>4. "target" \notin pii => Findable(pii) \cap Events = {}  BY DEF Findable, Events
    <2> HIDE DEF w
    <2>5. QED  BY <1>4, <2>1, <2>2, <2>3, <2>4 DEF Staging
  <1>7. proc' = [proc EXCEPT ![p] = w]  BY DEF EraseResolve
  <1>8. QED  BY <1>3, <1>5, <1>6, <1>7, HandlerMoves DEF EraseResolve, Handlers

LEMMA EraseEnrolmentsKeeps ==
    ASSUME ErasureInv, NEW p \in Procs, EraseEnrolments(p)
    PROVE  ErasureInv'
  <1> DEFINE e == proc[p]
             staged == IF e.known THEN pii \cap {"enrolment"} ELSE {}
             w == [e EXCEPT !.at = "events", !.staged = staged]
  <1>1. e \in Erasing /\ Staging(e) /\ e.at = "enrolments"
    BY AtStage DEF EraseEnrolments, Stages
  <1>2. w \in Erasing  BY <1>1 DEF Erasing, ErasureInv, TypeOK
  <1>3. w.at = "events" /\ w.d = e.d /\ w.before = e.before /\ w.staged = staged
    BY <1>1 DEF Erasing
  <1>4. Backed(w)  BY <1>3 DEF Backed
  <1>5. Staging(w)
    <2>1. e.before \cap pii \cap {"enrolment"} \subseteq staged  BY <1>1 DEF Staging, Stages
    <2> HIDE DEF w, staged
    <2>2. QED  BY <1>1, <1>3, <2>1 DEF Staging, Stages
  <1>6. proc' = [proc EXCEPT ![p] = w]  BY DEF EraseEnrolments
  <1>7. QED  BY <1>2, <1>4, <1>5, <1>6, HandlerMoves DEF EraseEnrolments, Handlers

LEMMA EraseEventsKeeps ==
    ASSUME ErasureInv, NEW p \in Procs, EraseEvents(p)
    PROVE  ErasureInv'
  <1> DEFINE e == proc[p]
             staged == IF "target" \in pii THEN e.staged \cup (pii \cap Events) ELSE e.staged
             w == [e EXCEPT !.at = "finish", !.staged = staged]
  <1>1. e \in Erasing /\ Staging(e) /\ e.at = "events"
    BY AtStage DEF EraseEvents, Stages
  <1>2. w \in Erasing  BY <1>1 DEF Erasing, ErasureInv, TypeOK
  <1>3. w.at = "finish" /\ w.d = e.d /\ w.before = e.before /\ w.staged = staged
    BY <1>1 DEF Erasing
  <1>4. Backed(w)  BY <1>3 DEF Backed
  <1>5. Staging(w)
    <2>1. e.before \cap pii \cap {"enrolment"} \subseteq staged  BY <1>1 DEF Staging, Stages
    <2>2. e.before \cap pii \cap Events \subseteq staged \cup strayed  BY <1>1 DEF Staging, Stages
    <2> HIDE DEF w, staged
    <2>3. QED  BY <1>1, <1>3, <2>1, <2>2 DEF Staging, Stages
  <1>6. proc' = [proc EXCEPT ![p] = w]  BY DEF EraseEvents
  <1>7. QED  BY <1>2, <1>4, <1>5, <1>6, HandlerMoves DEF EraseEvents, Handlers

LEMMA FailKeeps ==
    ASSUME ErasureInv, NEW p \in Procs, Fail(p)
    PROVE  ErasureInv'
  BY IdleIsHarmless, HandlerMoves DEF Fail

-----------------------------------------------------------------------------
(* Requests and rows that change under the handlers.                       *)

\* No request loses its type, its marker or its existence, and none becomes completed.
LEMMA RequestsChange ==
    ASSUME ErasureInv, dsr' \in [Dsrs -> Rows],
           \A d \in Dsrs : dsr[d].status # "absent" =>
               /\ dsr'[d].type = dsr[d].type /\ dsr'[d].marker = dsr[d].marker
               /\ dsr'[d].status # "absent"
               /\ dsr'[d].status \in Live => dsr[d].status \in Live,
           \A d \in Dsrs : dsr'[d].status = "completed" =>
               dsr[d].status = "completed" /\ dsr'[d].type = dsr[d].type,
           UNCHANGED <<proc, pii, click, enrol, erased, owed, strayed, raced>>
    PROVE  ErasureInv'
  <1> USE DEF ErasureInv
  <1>1. TypeOK'  BY DEF TypeOK
  <1>2. erased \subseteq Dsrs  BY DEF TypeOK
  <1>3. InsertedOnce' /\ StaysErased'  BY DEF InsertedOnce, Once, StaysErased
  <1>4. ErasedStays'  BY <1>2 DEF ErasedStays
  <1>5. Completed'  BY DEF Completed
  <1>6. EvidenceSurvives'  BY <1>2 DEF ErasedStays, EvidenceSurvives, Exists
  <1>7. AtWork'
    <2> SUFFICES ASSUME NEW q \in Procs PROVE (Backed(proc[q]) /\ Staging(proc[q]))'
      BY DEF AtWork
    <2>1. proc[q] \in Handlers  BY DEF TypeOK, Handlers
    <2>2. Backed(proc[q]) /\ Staging(proc[q])  BY DEF AtWork
    <2>3. Backed(proc[q])'
      <3>1. CASE proc[q].at = "write"
        <4>1. proc[q].d \in Dsrs  BY <2>1, <3>1, Shapes DEF Writing
        <4>2. QED  BY <2>2, <3>1, <4>1 DEF Backed
      <3>2. CASE proc[q].at # "write"  BY <3>2 DEF Backed
      <3>3. QED  BY <3>1, <3>2
    <2>4. Staging(proc[q])'
      <3>1. CASE proc[q].at \in Stages
        <4>1. proc[q].d \in Dsrs  BY <2>1, <3>1, Shapes DEF Erasing
        <4>2. QED  BY <2>2, <3>1, <4>1 DEF Staging, Once
      <3>2. CASE proc[q].at \notin Stages  BY <3>2 DEF Staging
      <3>3. QED  BY <3>1, <3>2
    <2>5. QED  BY <2>3, <2>4
  <1>8. QED  BY <1>1, <1>3, <1>4, <1>5, <1>6, <1>7

LEMMA CreateKeeps ==
    ASSUME ErasureInv, NEW d \in Dsrs, NEW type \in Types, Create(d, type)
    PROVE  ErasureInv'
  <1> DEFINE row == [type |-> type, status |-> "open", marker |-> FALSE, left |-> Term]
  <1>1. row \in Rows  BY TermAssumption DEF Rows, Live
  <1>2. dsr' = [dsr EXCEPT ![d] = row] /\ dsr[d].status = "absent"  BY DEF Create
  <1>3. dsr \in [Dsrs -> Rows]  BY DEF ErasureInv, TypeOK
  <1>4. \A c \in Dsrs : dsr'[c] = IF c = d THEN row ELSE dsr[c]  BY <1>2, <1>3
  <1>5. dsr' \in [Dsrs -> Rows]  BY <1>1, <1>2, <1>3
  <1>6. \A c \in Dsrs : dsr[c].status # "absent" => dsr'[c] = dsr[c]  BY <1>2, <1>4
  <1>7. \A c \in Dsrs : dsr'[c].status = "completed" => dsr'[c] = dsr[c]  BY <1>4
  <1>8. QED  BY <1>5, <1>6, <1>7, RequestsChange DEF Create

LEMMA DeleteKeeps ==
    ASSUME ErasureInv, NEW d \in Dsrs, Delete(d)
    PROVE  ErasureInv'
  <1>1. dsr \in [Dsrs -> Rows]  BY DEF ErasureInv, TypeOK
  <1>2. dsr' \in [Dsrs -> Rows]  BY <1>1 DEF Delete, Rows
  <1>3. ASSUME NEW c \in Dsrs
        PROVE  /\ dsr'[c].type = dsr[c].type /\ dsr'[c].marker = dsr[c].marker
               /\ dsr'[c].status = IF c = d THEN "gone" ELSE dsr[c].status
    BY <1>1 DEF Delete, Rows
  <1>4. "gone" \notin Live  BY DEF Live
  <1>5. QED  BY <1>2, <1>3, <1>4, RequestsChange DEF Delete

LEMMA CheckOverdueKeeps ==
    ASSUME ErasureInv, CheckOverdue
    PROVE  ErasureInv'
  <1>1. dsr \in [Dsrs -> Rows]  BY DEF ErasureInv, TypeOK
  <1>2. ASSUME NEW c \in Dsrs
        PROVE  /\ dsr'[c] \in Rows /\ dsr'[c].type = dsr[c].type /\ dsr'[c].marker = dsr[c].marker
               /\ \/ dsr'[c].status = dsr[c].status
                  \/ dsr[c].status = "open" /\ dsr'[c].status = "overdue"
    BY <1>1 DEF CheckOverdue, Unanswered, Rows, Live
  <1>3. dsr' \in [Dsrs -> Rows]  BY <1>2 DEF CheckOverdue
  <1>4. "open" \in Live  BY DEF Live
  <1>5. QED  BY <1>2, <1>3, <1>4, RequestsChange DEF CheckOverdue

LEMMA DayKeeps ==
    ASSUME ErasureInv, Day
    PROVE  ErasureInv'
  <1>1. dsr \in [Dsrs -> Rows]  BY DEF ErasureInv, TypeOK
  <1>2. ASSUME NEW c \in Dsrs
        PROVE  /\ dsr'[c] \in Rows /\ dsr'[c].type = dsr[c].type /\ dsr'[c].marker = dsr[c].marker
               /\ dsr'[c].status = dsr[c].status
    BY <1>1, TermAssumption DEF Day, Rows
  <1>3. dsr' \in [Dsrs -> Rows]  BY <1>2 DEF Day
  <1>4. QED  BY <1>2, <1>3, RequestsChange DEF Day

\* Nothing that was found comes back, and no target disappears but by an erasure.
LEMMA RowsChange ==
    ASSUME ErasureInv, pii' \subseteq Pieces, click' \in {"none", "attributed", "done"}, enrol' \in BOOLEAN,
           "enrolment" \in pii' \ pii => enrol, "enrolment" \in pii' => ~enrol', enrol' => enrol,
           "click" \in pii' \ pii => click # "done", "click" \in pii' => click' = "done",
           click = "done" => click' = "done",
           pii' \ pii \subseteq {"enrolment", "click"}, "target" \in pii => "target" \in pii',
           UNCHANGED <<dsr, proc, erased, owed, strayed, raced>>
    PROVE  ErasureInv'
  <1> USE DEF ErasureInv
  <1>1. TypeOK'  BY DEF TypeOK
  <1>2. ASSUME NEW rows, Once(rows) PROVE Once(rows)' /\ rows \cap pii' \subseteq rows \cap pii
    BY <1>2 DEF Once
  <1>3. InsertedOnce'  BY DEF InsertedOnce, Once
  <1>4. ErasedStays' /\ Completed' /\ EvidenceSurvives'
    BY DEF ErasedStays, Completed, EvidenceSurvives, Exists
  <1>5. StaysErased'  BY <1>2 DEF InsertedOnce, StaysErased
  <1>6. AtWork'
    <2> SUFFICES ASSUME NEW q \in Procs PROVE (Backed(proc[q]) /\ Staging(proc[q]))'
      BY DEF AtWork
    <2>1. Backed(proc[q])'  BY DEF AtWork, Backed
    <2>2. CASE proc[q].at \in Stages
      <3>1. Staging(proc[q])  BY DEF AtWork
      <3>2. Once(proc[q].before)  BY <2>2, <3>1 DEF Staging
      <3>3. Once(proc[q].before)' /\ proc[q].before \cap pii' \subseteq proc[q].before \cap pii
        BY <1>2, <3>2 DEF Once
      <3>4. Staging(proc[q])'  BY <2>2, <3>1, <3>3 DEF Staging
      <3>5. QED  BY <2>1, <3>4
    <2>3. CASE proc[q].at \notin Stages  BY <2>1, <2>3 DEF Staging
    <2>4. QED  BY <2>2, <2>3
  <1>7. QED  BY <1>1, <1>3, <1>4, <1>5, <1>6

LEMMA EmployeeDeletedKeeps == ASSUME ErasureInv, EmployeeDeleted PROVE ErasureInv'
  BY RowsChange DEF EmployeeDeleted, ErasureInv, TypeOK, InsertedOnce, Once

LEMMA EnrolKeeps == ASSUME ErasureInv, Enrol PROVE ErasureInv'
  BY RowsChange DEF Enrol, ErasureInv, TypeOK, InsertedOnce, Once, Pieces

LEMMA AttributeKeeps == ASSUME ErasureInv, Attribute PROVE ErasureInv'
  BY RowsChange DEF Attribute, ErasureInv, TypeOK, InsertedOnce, Once

LEMMA RecordClickKeeps == ASSUME ErasureInv, RecordClick PROVE ErasureInv'
  BY RowsChange DEF RecordClick, ErasureInv, TypeOK, InsertedOnce, Once, Pieces

-----------------------------------------------------------------------------
(* The two steps that write a request under other handlers.                *)

\* The UPDATE stores what was decided when the row was read.
LEMMA WriteKeeps ==
    ASSUME ErasureInv, NEW p \in Procs, Write(p)
    PROVE  ErasureInv'
  <1> DEFINE w == proc[p]
             d == w.d
  <1> USE DEF ErasureInv
  <1>1. w \in Writing /\ Backed(w) /\ w.at = "write"
    BY Shapes DEF Write, TypeOK, Handlers, AtWork
  <1>2. d \in Dsrs /\ w.status \in Live /\ w.note \in {"set", "clear", "keep"}
    BY <1>1 DEF Writing
  <1>3. dsr \in [Dsrs -> Rows] /\ proc \in [Procs -> Handlers] /\ erased \subseteq Dsrs
    BY DEF TypeOK, Handlers
  <1>4. Written(dsr[d], w) \in Rows
    <2>1. \A marker \in BOOLEAN : [dsr[d] EXCEPT !.status = w.status, !.marker = marker] \in Rows
      BY <1>2, <1>3 DEF Rows
    <2>2. (IF w.note = "keep" THEN dsr[d].marker ELSE w.note = "set") \in BOOLEAN
      BY <1>2, <1>3 DEF Rows
    <2>3. QED  BY <2>1, <2>2 DEF Written
  <1>5. /\ Written(dsr[d], w).type = dsr[d].type /\ Written(dsr[d], w).status = w.status
        /\ w.note = "keep" => Written(dsr[d], w).marker = dsr[d].marker
        /\ w.note = "set" => Written(dsr[d], w).marker
    BY <1>2, <1>3 DEF Written, Rows
  <1>6. proc' \in [Procs -> Handlers] /\ proc'[p] = Idle /\ \A q \in Procs \ {p} : proc'[q] = proc[q]
    BY <1>3, IdleIsHarmless DEF Write
  <1>7. \A c \in Dsrs \ {d} : dsr'[c] = dsr[c]  BY <1>2, <1>3 DEF Write
  <1>8. dsr'[d] = IF Exists(d) THEN Written(dsr[d], w) ELSE dsr[d]  BY <1>2, <1>3 DEF Write
  <1>9. dsr' \in [Dsrs -> Rows]  BY <1>3, <1>4 DEF Write
  <1>10. \A c \in Dsrs : /\ dsr'[c].type = dsr[c].type
                         /\ dsr[c].status # "absent" => dsr'[c].status # "absent"
    BY <1>2, <1>5, <1>7, <1>8 DEF Live
  <1>11. UNCHANGED <<pii, click, enrol, erased, owed, strayed, raced>>  BY DEF Write
  <1>12. TypeOK'  BY <1>6, <1>9, <1>11 DEF TypeOK, Handlers
  <1>13. InsertedOnce' /\ StaysErased'  BY <1>11 DEF InsertedOnce, Once, StaysErased
  <1>14. ErasedStays'  BY <1>3, <1>10, <1>11 DEF ErasedStays
  <1>15. Completed'
    <2> SUFFICES ASSUME NEW c \in Dsrs, dsr'[c].type = "erasure", dsr'[c].status = "completed"
                 PROVE  c \in erased
      BY <1>11 DEF Completed
    <2>1. CASE c # d \/ ~Exists(d)  BY <1>7, <1>8, <2>1 DEF Completed
    <2>2. CASE c = d /\ Exists(d)  BY <1>1, <1>5, <1>8, <2>2 DEF Backed
    <2>3. QED  BY <2>1, <2>2
  <1>16. EvidenceSurvives'
    <2> SUFFICES ASSUME NEW c \in erased, dsr'[c].status \in Live
                 PROVE  dsr'[c].marker \/ c \in raced
      BY <1>11 DEF EvidenceSurvives, Exists
    <2>1. CASE c # d \/ ~Exists(d)  BY <1>3, <1>7, <1>8, <2>1 DEF EvidenceSurvives, Exists
    <2>2. CASE c = d /\ Exists(d)  BY <1>1, <1>2, <1>5, <1>8, <2>2 DEF Backed, EvidenceSurvives
    <2>3. QED  BY <2>1, <2>2
  <1>17. AtWork'
    <2> SUFFICES ASSUME NEW q \in Procs \ {p} PROVE (Backed(proc[q]) /\ Staging(proc[q]))'
      BY <1>6, IdleIsHarmless DEF AtWork, Backed, Staging, Idle, Stages
    <2>1. proc'[q] = proc[q] /\ proc[q] \in Handlers /\ Backed(proc[q]) /\ Staging(proc[q])
      BY <1>3, <1>6 DEF AtWork
    <2>2. proc[q].at \in {"write"} \cup Stages => proc[q].d \in Dsrs
      BY <2>1, Shapes DEF Writing, Erasing
    <2>3. Backed(proc[q])'  BY <1>10, <1>11, <2>1, <2>2 DEF Backed
    <2>4. Staging(proc[q])'  BY <1>10, <1>11, <2>1, <2>2 DEF Staging, Once
    <2>5. QED  BY <2>3, <2>4
  <1>18. QED  BY <1>12, <1>13, <1>14, <1>15, <1>16, <1>17

\* The commit deletes what was staged, and cuts off what it leaves of the subject's events.
LEMMA EraseFinishKeeps ==
    ASSUME ErasureInv, NEW p \in Procs, EraseFinish(p)
    PROVE  ErasureInv'
  <1> DEFINE e == proc[p]
             d == e.d
  <1> USE DEF ErasureInv
  <1>1. e \in Erasing /\ Staging(e) /\ e.at = "finish" /\ e.at \in Stages
    BY AtStage DEF EraseFinish, Stages
  <1>2. d \in Dsrs /\ e.before \subseteq Pieces /\ e.staged \subseteq Pieces  BY <1>1 DEF Erasing
  <1>3. /\ dsr[d].type = "erasure" /\ dsr[d].status # "absent" /\ Once(e.before)
        /\ e.before \cap pii \cap {"enrolment"} \subseteq e.staged
        /\ e.before \cap pii \cap Events \subseteq e.staged \cup strayed
    BY <1>1 DEF Staging
  <1>4. /\ dsr \in [Dsrs -> Rows] /\ proc \in [Procs -> Handlers] /\ pii \subseteq Pieces
        /\ strayed \subseteq Pieces /\ raced \subseteq Dsrs /\ erased \subseteq Dsrs
        /\ owed \in [Dsrs -> SUBSET Pieces]
    BY DEF TypeOK, Handlers
  <1>5. proc' \in [Procs -> Handlers] /\ proc'[p] = Idle /\ \A q \in Procs \ {p} : proc'[q] = proc[q]
    BY <1>4, IdleIsHarmless DEF EraseFinish
  <1>6. /\ dsr' \in [Dsrs -> Rows] /\ \A c \in Dsrs \ {d} : dsr'[c] = dsr[c]
        /\ dsr'[d].type = "erasure" /\ dsr'[d].status = "completed" /\ dsr'[d].marker
    BY <1>2, <1>3, <1>4 DEF EraseFinish, Rows, Live
  <1>7. /\ pii' = pii \ (e.staged \cup {"target", "employee"}) /\ erased' = erased \cup {d}
        /\ owed' = [owed EXCEPT ![d] = e.before]
        /\ strayed' = strayed \cup ((pii' \ Findable(pii')) \ e.before)
        /\ UNCHANGED <<click, enrol>>
    BY DEF EraseFinish
  <1>8. /\ owed' \in [Dsrs -> SUBSET Pieces] /\ owed'[d] = e.before
        /\ \A c \in Dsrs \ {d} : owed'[c] = owed[c]
    BY <1>2, <1>4, <1>7
  <1>9. raced' \subseteq Dsrs /\ raced \subseteq raced' /\ (Overtakes(p, d) => d \in raced')
    BY <1>2, <1>4 DEF EraseFinish
  <1>10. TypeOK'  BY <1>2, <1>4, <1>5, <1>6, <1>7, <1>8, <1>9 DEF TypeOK, Handlers
  <1>11. InsertedOnce'  BY <1>3, <1>4, <1>7, <1>8 DEF InsertedOnce, Once
  <1>12. ErasedStays'  BY <1>3, <1>4, <1>6, <1>7 DEF ErasedStays
  <1>13. Completed'  BY <1>6, <1>7 DEF Completed
  \* Nothing this erasure found is left but what another one cut off.
  <1>14. e.before \cap pii' \subseteq strayed
    <2> SUFFICES ASSUME NEW x \in e.before \cap pii' PROVE x \in strayed
      OBVIOUS
    <2>1. x \in pii /\ x \notin e.staged /\ x # "target" /\ x # "employee"  BY <1>7
    <2>2. x = "enrolment" \/ x \in Events  BY <1>2, <2>1 DEF Pieces, Events
    <2>3. QED  BY <1>3, <2>1, <2>2
  <1>15. StaysErased'  BY <1>4, <1>7, <1>8, <1>14 DEF StaysErased
  <1>16. EvidenceSurvives'  BY <1>4, <1>6, <1>7, <1>9 DEF EvidenceSurvives, Exists
  <1>17. pii' \cap Events \subseteq strayed'
    <2>1. \A x \in Findable(pii') : x \notin Events  BY <1>7 DEF Findable
    <2>2. QED  BY <1>7, <1>14, <2>1
  <1>18. AtWork'
    <2> SUFFICES ASSUME NEW q \in Procs \ {p} PROVE (Backed(proc[q]) /\ Staging(proc[q]))'
      BY <1>5 DEF AtWork, Backed, Staging, Idle, Stages
    <2>1. proc'[q] = proc[q] /\ proc[q] \in Handlers /\ Backed(proc[q]) /\ Staging(proc[q])
      BY <1>4, <1>5 DEF AtWork
    <2>2. proc[q].at \in {"write"} \cup Stages => proc[q].d \in Dsrs
      BY <2>1, Shapes DEF Writing, Erasing
    <2>3. \A c \in Dsrs : dsr[c].status # "absent" => dsr'[c].type = dsr[c].type /\ dsr'[c].status # "absent"
      BY <1>3, <1>6
    <2>4. Backed(proc[q])'
      <3> SUFFICES ASSUME proc[q].at = "write" PROVE Backed(proc[q])'
        BY <2>1 DEF Backed
      <3>1. proc[q].d = d /\ proc[q].note = "clear" => d \in raced'  BY <1>9 DEF Overtakes
      <3>2. QED  BY <1>7, <1>9, <2>1, <2>2, <2>3, <3>1 DEF Backed
    <2>5. Staging(proc[q])'
      <3> SUFFICES ASSUME proc[q].at \in Stages PROVE Staging(proc[q])'
        BY <2>1 DEF Staging
      <3>1. Once(proc[q].before)'  BY <1>7, <2>1 DEF Staging, Once
      <3>2. pii' \subseteq pii /\ strayed \subseteq strayed'  BY <1>7
      <3>3. QED  BY <1>17, <2>1, <2>2, <2>3, <3>1, <3>2 DEF Staging
    <2>6. QED  BY <2>4, <2>5
  <1>19. QED  BY <1>10, <1>11, <1>12, <1>13, <1>15, <1>16, <1>18

-----------------------------------------------------------------------------
(* The theorems.                                                           *)

LEMMA ErasureInit == ASSUME Init PROVE ErasureInv
  <1> USE DEF Init
  <1>1. NoRow \in Rows  BY TermAssumption DEF NoRow, Rows, Types
  <1>2. TypeOK  BY <1>1, IdleIsHarmless DEF TypeOK, Handlers, Pieces
  <1>3. InsertedOnce /\ ErasedStays /\ StaysErased /\ EvidenceSurvives
    BY DEF InsertedOnce, Once, ErasedStays, StaysErased, EvidenceSurvives
  <1>4. AtWork  BY IdleIsHarmless DEF AtWork
  <1>5. Completed  BY DEF Completed, NoRow
  <1>6. QED  BY <1>2, <1>3, <1>4, <1>5 DEF ErasureInv

LEMMA HandlerKeeps == ASSUME ErasureInv, NEW p \in Procs, Handler(p) PROVE ErasureInv'
  <1>1. ASSUME NEW d \in Dsrs, NEW status \in {"completed", "rejected", "extended"},
               NEW empty \in BOOLEAN, NEW pasted \in BOOLEAN, ResolveRead(p, d, status, empty, pasted)
        PROVE  ErasureInv'
    BY <1>1, ResolveReadKeeps DEF Live
  <1>2. QED
    BY <1>1, UpdateReadKeeps, EraseReadKeeps, WriteKeeps, EraseResolveKeeps, EraseEnrolmentsKeeps,
       EraseEventsKeeps, EraseFinishKeeps, FailKeeps DEF Handler

LEMMA ErasureStep == ASSUME ErasureInv, [Next]_dsrVars PROVE ErasureInv'
  <1>1. CASE UNCHANGED dsrVars
    BY <1>1 DEF dsrVars, ErasureInv, TypeOK, InsertedOnce, Once, ErasedStays, AtWork, Backed, Staging,
                Completed, StaysErased, EvidenceSurvives, Exists
  <1>2. CASE Requests
    BY <1>2, DeleteKeeps, CreateKeeps, HandlerKeeps, EmployeeDeletedKeeps, EnrolKeeps, AttributeKeeps,
       RecordClickKeeps, CheckOverdueKeeps DEF Requests
  <1>3. CASE DayPasses  BY <1>3, DayKeeps DEF DayPasses
  <1>4. QED  BY <1>1, <1>2, <1>3 DEF Next

LEMMA ErasureInvHolds == Spec => []ErasureInv
  <1>1. Init => ErasureInv  BY ErasureInit
  <1>2. ErasureInv /\ [Next]_dsrVars => ErasureInv'  BY ErasureStep
  <1>3. QED  BY <1>1, <1>2, PTL DEF Spec

\* Every reachable state is well typed, whatever handlers and other modules do.
THEOREM DataSubjectsTypeCorrect == Spec => []TypeOK
  <1>1. ErasureInv => TypeOK  BY DEF ErasureInv
  <1>2. QED  BY ErasureInvHolds, <1>1, PTL

\* ExecuteErasure, guardErasureCompletion: for any number of handlers a completed erasure was
\* executed, and nothing it found is left but what another erasure cut off.
THEOREM CompletedErasuresErased == Spec => []CompletedIsErased
  <1>1. ErasureInv => CompletedIsErased
    BY DEF ErasureInv, Completed, StaysErased, CompletedIsErased
  <1>2. QED  BY ErasureInvHolds, <1>1, PTL

\* preserveErasureEvidence: the evidence of an erasure stays with its request, unless a handler
\* that had read it before overtook the erasure.
THEOREM EvidenceStays == Spec => []EvidenceSurvives
  <1>1. ErasureInv => EvidenceSurvives  BY DEF ErasureInv
  <1>2. QED  BY ErasureInvHolds, <1>1, PTL

-----------------------------------------------------------------------------
(* OverdueAlerts: the composition.                                         *)

\* A day is a day of DataSubjects, or no deadline is left to run down.
LEMMA DayIsAStep == ASSUME TypeOK, Day PROVE [Next]_dsrVars
  <1>1. dsr \in [Dsrs -> Rows]  BY DEF TypeOK
  <1>2. CASE \E d \in Dsrs : dsr[d].left > 0  BY <1>2 DEF Next, DayPasses
  <1>3. CASE ~\E d \in Dsrs : dsr[d].left > 0
    <2>1. \A d \in Dsrs : dsr'[d] = dsr[d]  BY <1>3 DEF Day
    <2>2. dsr' = dsr  BY <1>1, <2>1 DEF Day
    <2>3. QED  BY <2>2 DEF Day, dsrVars
  <1>4. QED  BY <1>2, <1>3

LEMMA AlertStepIsARequestStep == ASSUME TypeOK, [AlertNext]_vars PROVE [Next]_dsrVars
  <1>1. CASE UNCHANGED vars  BY <1>1 DEF vars
  <1>2. CASE Requests  BY <1>2 DEF Next
  <1>3. CASE CronStart \/ Fire \/ Mark \/ Crash \/ Missed \/ Toggle
    BY <1>3 DEF CronStart, Fire, Mark, Crash, Missed, Toggle
  <1>4. CASE NextDay  BY <1>4, DayIsAStep DEF NextDay
  <1>5. QED  BY <1>1, <1>2, <1>3, <1>4 DEF AlertNext

\* The alert leaves the requests' behaviour as it is: what is proved of them holds here, too.
THEOREM AlertsObserveRequests == AlertSpec => Spec
  <1>1. AlertInit => Init /\ ErasureInv  BY ErasureInit DEF AlertInit
  <1>2. ErasureInv /\ [AlertNext]_vars => ErasureInv' /\ [Next]_dsrVars
    BY AlertStepIsARequestStep, ErasureStep DEF ErasureInv
  <1>3. QED  BY <1>1, <1>2, PTL DEF AlertSpec, Spec

-----------------------------------------------------------------------------
(* OverdueAlerts: the inductive invariant.                                 *)

AlertTypes ==
    /\ cron \in {"due", "fire", "mark", "done"}
    /\ channel \in [enabled : BOOLEAN, accepts : BOOLEAN]
    /\ fired \in 0..Forgotten /\ heard \in 0..Forgotten /\ silent \in Nat
    /\ day \in {"open", "owed", "excused"}

\* A mark is due to a delivery.
MarkDeserved == cron = "mark" => heard = 0

\* Only a mark of today or yesterday silences a day that was owed an alert.
SilenceHasACause == cron = "done" /\ day = "owed" /\ heard > 0 => fired <= 1

\* After a silent day the mark is too old to cause another.
MarkWornOut == silent > 0 => fired >= 2 \/ heard = 0

AlertInv ==
    AlertTypes /\ MarkMeansTold /\ MarkDeserved /\ SilenceHasACause /\ MarkWornOut /\ SilenceBounded

LEMMA AlertInitial == ASSUME AlertInit PROVE AlertInv
  BY ForgottenAssumption
  DEF AlertInit, AlertInv, AlertTypes, MarkMeansTold, MarkDeserved, SilenceHasACause, MarkWornOut,
      SilenceBounded

\* The requests do not move the alert.
LEMMA AlertStands == ASSUME AlertInv, UNCHANGED alertVars PROVE AlertInv'
  BY DEF alertVars, AlertInv, AlertTypes, MarkMeansTold, MarkDeserved, SilenceHasACause, MarkWornOut,
         SilenceBounded

LEMMA CronStartKeeps == ASSUME AlertInv, CronStart PROVE AlertInv'
  <1> USE ForgottenAssumption DEF AlertInv, CronStart
  <1>1. PICK s \in Suppressed(fired) : cron' = IF Overdue /\ ~s THEN "fire" ELSE "done"
    OBVIOUS
  <1>2. s => fired <= 1  BY <1>1 DEF Suppressed, AlertTypes
  <1>3. AlertTypes'  BY <1>1 DEF AlertTypes
  <1>4. MarkMeansTold' /\ MarkWornOut' /\ SilenceBounded'
    BY DEF MarkMeansTold, MarkWornOut, SilenceBounded
  <1>5. MarkDeserved' /\ SilenceHasACause'
    BY <1>1, <1>2 DEF AlertTypes, MarkDeserved, SilenceHasACause
  <1>6. QED  BY <1>3, <1>4, <1>5

LEMMA DeliveryKeeps == ASSUME AlertInv, Fire \/ Mark PROVE AlertInv'
  BY ForgottenAssumption
  DEF AlertInv, AlertTypes, MarkMeansTold, MarkDeserved, SilenceHasACause, MarkWornOut, SilenceBounded,
      Fire, Unheard, Accepted, Mark

LEMMA FaultKeeps == ASSUME AlertInv, Crash \/ Missed \/ Toggle PROVE AlertInv'
  BY DEF AlertInv, AlertTypes, MarkMeansTold, MarkDeserved, SilenceHasACause, MarkWornOut, SilenceBounded,
         Crash, Missed, Toggle

LEMMA NextDayKeeps == ASSUME AlertInv, NextDay PROVE AlertInv'
  <1> USE ForgottenAssumption DEF AlertInv
  <1>1. AlertTypes'  BY DEF NextDay, Later, AlertTypes
  <1>2. MarkMeansTold' /\ MarkDeserved' /\ SilenceHasACause'
    BY DEF NextDay, Later, AlertTypes, MarkMeansTold, MarkDeserved, SilenceHasACause
  <1>3. MarkWornOut' /\ SilenceBounded'
    <2>1. CASE day = "owed" /\ heard > 0
      <3>1. fired <= 1 /\ fired >= 1
        BY <2>1 DEF NextDay, SilenceHasACause, MarkMeansTold, AlertTypes
      <3>2. silent = 0  BY <2>1, <3>1 DEF MarkWornOut, AlertTypes
      <3>3. fired' >= 2  BY <3>1 DEF NextDay, Later, AlertTypes
      <3>4. QED  BY <2>1, <3>2, <3>3 DEF NextDay, MarkWornOut, SilenceBounded
    <2>2. CASE ~(day = "owed" /\ heard > 0)
      BY <2>2 DEF NextDay, MarkWornOut, SilenceBounded
    <2>3. QED  BY <2>1, <2>2
  <1>4. QED  BY <1>1, <1>2, <1>3

LEMMA AlertStep == ASSUME AlertInv, [AlertNext]_vars PROVE AlertInv'
  BY AlertStands, CronStartKeeps, DeliveryKeeps, FaultKeeps, NextDayKeeps DEF AlertNext, vars

LEMMA AlertInvHolds == AlertSpec => []AlertInv
  <1>1. AlertInit => AlertInv  BY AlertInitial
  <1>2. AlertInv /\ [AlertNext]_vars => AlertInv'  BY AlertStep
  <1>3. QED  BY <1>1, <1>2, PTL DEF AlertSpec

-----------------------------------------------------------------------------
(* The theorems.                                                           *)

\* Every reachable state of the composition is well typed.
THEOREM AlertsTypeCorrect == AlertSpec => []AlertTypeOK
  <1>1. AlertInv /\ TypeOK => AlertTypeOK  BY DEF AlertInv, AlertTypes, AlertTypeOK
  <1>2. AlertSpec => []TypeOK  BY AlertsObserveRequests, DataSubjectsTypeCorrect
  <1>3. QED  BY <1>1, <1>2, AlertInvHolds, PTL

\* FireAndMark, MarkFired: a mark that suppresses an alert stands for one that was heard.
THEOREM MarksAreDeserved == AlertSpec => []MarkMeansTold
  <1>1. AlertInv => MarkMeansTold  BY DEF AlertInv
  <1>2. QED  BY AlertInvHolds, <1>1, PTL

\* handleDSROverdueCheck: no two days in a row that were owed an alert pass in silence.
THEOREM SilenceIsBounded == AlertSpec => []SilenceBounded
  <1>1. AlertInv => SilenceBounded  BY DEF AlertInv
  <1>2. QED  BY AlertInvHolds, <1>1, PTL

=============================================================================
