---------------------------- MODULE DataSubjects ----------------------------
(***************************************************************************)
(* Vakt Privacy: the requests of one data subject (po_dsr) and the erasure *)
(* that runs across the modules which hold data about that person.         *)
(*                                                                         *)
(* Two endpoints write a request, each after reading it in a statement of  *)
(* its own; an erasure reads it and then works in one transaction, whose   *)
(* statements each see what is committed when they run.                    *)
(***************************************************************************)
EXTENDS Naturals

CONSTANTS
    Dsrs,    \* requests of the subject
    Procs,   \* handlers at work
    Term     \* the days until a request is due

ASSUME TermAssumption == Term \in Nat

VARIABLES
    dsr,     \* po_dsr
    proc,    \* handlers
    pii,     \* rows about the subject in other modules' tables
    click,   \* a click on the subject's phishing mail: "none" | "attributed" | "done"
    enrol,   \* the call that creates the employee has yet to enrol them
    erased,  \* history: requests whose erasure was committed
    owed,    \* history: what the last erasure of a request found when it began
    strayed, \* history: rows an erasure cut off that came after it had begun
    raced    \* history: requests erased under a handler that had read them before

dsrVars == <<dsr, proc, pii, click, enrol, erased, owed, strayed, raced>>

\* "access" stands for every type that is not an erasure, "open" for in_progress too.
Types == {"erasure", "access"}
Live == {"open", "completed", "rejected", "extended", "overdue"}

\* hr_employees, sr_campaign_enrollments, sr_targets, and sr_events for the mail and the click.
Pieces == {"employee", "enrolment", "target", "sent", "click"}
Events == {"sent", "click"}

NoRow == [type |-> "access", status |-> "absent", marker |-> FALSE, left |-> 0]
Rows == [type : Types, status : Live \cup {"absent", "gone"}, marker : BOOLEAN, left : 0..Term]

Idle == [at |-> "idle"]
Writing == [at : {"write"}, d : Dsrs, status : Live, note : {"set", "clear", "keep"}]
Erasing == [at : {"resolve", "enrolments", "events", "finish"}, d : Dsrs,
            known : BOOLEAN, before : SUBSET Pieces, staged : SUBSET Pieces]

TypeOK ==
    /\ dsr \in [Dsrs -> Rows]
    /\ proc \in [Procs -> {Idle} \cup Writing \cup Erasing]
    /\ pii \subseteq Pieces
    /\ click \in {"none", "attributed", "done"} /\ enrol \in BOOLEAN
    /\ erased \subseteq Dsrs /\ raced \subseteq Dsrs /\ strayed \subseteq Pieces
    /\ owed \in [Dsrs -> SUBSET Pieces]

Exists(d) == dsr[d].status \in Live

Init ==
    /\ dsr = [d \in Dsrs |-> NoRow] /\ proc = [p \in Procs |-> Idle]
    /\ pii = {"employee", "target", "sent"} /\ click = "none" /\ enrol = TRUE
    /\ erased = {} /\ raced = {} /\ strayed = {} /\ owed = [d \in Dsrs |-> {}]

-----------------------------------------------------------------------------
(* Requests.                                                               *)

\* CreateDSR, SubmitPortalDSR.
Create(d, type) ==
    /\ dsr[d].status = "absent"
    /\ dsr' = [dsr EXCEPT ![d] = [type |-> type, status |-> "open", marker |-> FALSE, left |-> Term]]
    /\ UNCHANGED <<proc, pii, click, enrol, erased, owed, strayed, raced>>

Delete(d) ==
    /\ Exists(d)
    /\ dsr' = [dsr EXCEPT ![d].status = "gone"]
    /\ UNCHANGED <<proc, pii, click, enrol, erased, owed, strayed, raced>>

\* erasureExecuted, guardErasureCompletion.
MarkerSuffices(row) == row.marker
ErasureExecuted(row) == row.status = "completed" /\ row.marker
MayComplete(row, status) == row.type = "erasure" /\ status = "completed" => ErasureExecuted(row)

\* preserveErasureEvidence: what becomes of the marker when notes are written that do, or
\* do not, contain it themselves.
NotesReplaced(row, pasted) == IF pasted THEN "set" ELSE "clear"
Preserved(row, pasted) == IF pasted \/ (row.type = "erasure" /\ row.marker) THEN "set" ELSE "clear"

\* An erasure is completed by ExecuteErasure only, whatever the endpoint is asked to write.
UpdateRead(p, d, status, pasted) ==
    /\ proc[p] = Idle /\ Exists(d)
    /\ ~(dsr[d].type = "erasure" /\ status = "completed")
    /\ proc' = [proc EXCEPT ![p] = [at |-> "write", d |-> d, status |-> status,
                                    note |-> Preserved(dsr[d], pasted)]]
    /\ UNCHANGED <<dsr, pii, click, enrol, erased, owed, strayed, raced>>

\* ResolveDSR; empty notes leave the stored ones (COALESCE).
ResolveRead(p, d, status, empty, pasted) ==
    /\ proc[p] = Idle /\ Exists(d)
    /\ MayComplete(dsr[d], status)
    /\ proc' = [proc EXCEPT ![p] = [at |-> "write", d |-> d, status |-> status,
                                    note |-> IF empty THEN "keep" ELSE Preserved(dsr[d], pasted)]]
    /\ UNCHANGED <<dsr, pii, click, enrol, erased, owed, strayed, raced>>

\* The UPDATE of either; it repeats no condition of the read.
Written(row, w) ==
    [row EXCEPT !.status = w.status, !.marker = IF w.note = "keep" THEN @ ELSE w.note = "set"]

Write(p) ==
    /\ proc[p].at = "write"
    /\ dsr' = IF Exists(proc[p].d)
              THEN [dsr EXCEPT ![proc[p].d] = Written(@, proc[p])] ELSE dsr
    /\ proc' = [proc EXCEPT ![p] = Idle]
    /\ UNCHANGED <<pii, click, enrol, erased, owed, strayed, raced>>

-----------------------------------------------------------------------------
(* ExecuteErasure.                                                         *)

\* A request that is completed already is returned as it is.
EraseRead(p, d) ==
    /\ proc[p] = Idle /\ Exists(d)
    /\ dsr[d].type = "erasure" /\ dsr[d].status # "completed"
    /\ proc' = [proc EXCEPT ![p] = [at |-> "resolve", d |-> d, known |-> FALSE,
                                    before |-> {}, staged |-> {}]]
    /\ UNCHANGED <<dsr, pii, click, enrol, erased, owed, strayed, raced>>

\* An enrolment is found by its employee, an event by its target.
Findable(rows) ==
    {x \in rows : /\ x = "enrolment" => "employee" \in rows
                  /\ x \in Events => "target" \in rows}

\* ResolveEmployeeIDs.
EraseResolve(p) ==
    /\ proc[p].at = "resolve"
    /\ proc' = [proc EXCEPT ![p].at = "enrolments", ![p].known = "employee" \in pii,
                            ![p].before = Findable(pii)]
    /\ UNCHANGED <<dsr, pii, click, enrol, erased, owed, strayed, raced>>

\* EraseSubjectPII of vaktaware. A row deleted here stays visible until the commit. That two
\* erasures wait for each other's rows is left out: it takes orders away and adds none.
EraseEnrolments(p) ==
    /\ proc[p].at = "enrolments"
    /\ proc' = [proc EXCEPT ![p].at = "events",
                            ![p].staged = IF proc[p].known THEN pii \cap {"enrolment"} ELSE {}]
    /\ UNCHANGED <<dsr, pii, click, enrol, erased, owed, strayed, raced>>

EraseEvents(p) ==
    /\ proc[p].at = "events"
    /\ proc' = [proc EXCEPT ![p].at = "finish",
                            ![p].staged = IF "target" \in pii THEN @ \cup (pii \cap Events) ELSE @]
    /\ UNCHANGED <<dsr, pii, click, enrol, erased, owed, strayed, raced>>

\* sr_targets, hr_employees and the users row, the note, the commit: nothing that happens
\* between them can be told from what happens before or after. A request that is gone by
\* now rolls everything back.
Overtakes(p, d) ==
    \E q \in Procs \ {p} : proc[q].at = "write" /\ proc[q].d = d /\ proc[q].note = "clear"

EraseFinish(p) ==
    LET d == proc[p].d IN
    /\ proc[p].at = "finish" /\ Exists(d)
    /\ dsr' = [dsr EXCEPT ![d].status = "completed", ![d].marker = TRUE]
    /\ pii' = pii \ (proc[p].staged \cup {"target", "employee"})
    /\ proc' = [proc EXCEPT ![p] = Idle]
    /\ erased' = erased \cup {d}
    /\ owed' = [owed EXCEPT ![d] = proc[p].before]
    /\ strayed' = strayed \cup ((pii' \ Findable(pii')) \ proc[p].before)
    /\ raced' = IF Overtakes(p, d) THEN raced \cup {d} ELSE raced
    /\ UNCHANGED <<click, enrol>>

\* A statement fails, the request is cancelled or the process dies.
Fail(p) ==
    /\ proc[p] # Idle
    /\ proc' = [proc EXCEPT ![p] = Idle]
    /\ UNCHANGED <<dsr, pii, click, enrol, erased, owed, strayed, raced>>

-----------------------------------------------------------------------------
(* The other modules.                                                      *)

\* DELETE /employees/:id of Vakt HR leaves the enrolments, which have no foreign key.
EmployeeDeleted ==
    /\ "employee" \in pii /\ pii' = pii \ {"employee"}
    /\ UNCHANGED <<dsr, proc, click, enrol, erased, owed, strayed, raced>>

\* CreateEmployee commits the employee, then HandleAutoEnrollment inserts the enrolment from
\* the identifier alone; no foreign key notices that the employee is gone by then.
Enrol ==
    /\ enrol /\ enrol' = FALSE /\ pii' = pii \cup {"enrolment"}
    /\ UNCHANGED <<dsr, proc, click, erased, owed, strayed, raced>>

\* RecordEvent: attribution reads the event of the mail, then the click is inserted under a
\* foreign key on the target.
Attribute ==
    /\ click = "none" /\ "sent" \in pii /\ "target" \in pii /\ click' = "attributed"
    /\ UNCHANGED <<dsr, proc, pii, enrol, erased, owed, strayed, raced>>

RecordClick ==
    /\ click = "attributed" /\ click' = "done"
    /\ pii' = IF "target" \in pii THEN pii \cup {"click"} ELSE pii
    /\ UNCHANGED <<dsr, proc, enrol, erased, owed, strayed, raced>>

-----------------------------------------------------------------------------
(* Deadlines.                                                              *)

\* CheckOverdueRequests. An extension keeps due_date and is never marked.
Unanswered == {"open"}
CheckOverdue ==
    /\ \E d \in Dsrs : dsr[d].status \in Unanswered /\ dsr[d].left = 0
    /\ dsr' = [d \in Dsrs |-> IF dsr[d].status \in Unanswered /\ dsr[d].left = 0
                              THEN [dsr[d] EXCEPT !.status = "overdue"] ELSE dsr[d]]
    /\ UNCHANGED <<proc, pii, click, enrol, erased, owed, strayed, raced>>

Day ==
    /\ dsr' = [d \in Dsrs |-> IF dsr[d].left > 0 THEN [dsr[d] EXCEPT !.left = @ - 1] ELSE dsr[d]]
    /\ UNCHANGED <<proc, pii, click, enrol, erased, owed, strayed, raced>>

DayPasses == (\E d \in Dsrs : dsr[d].left > 0) /\ Day

-----------------------------------------------------------------------------

Handler(p) ==
    \/ \E d \in Dsrs : EraseRead(p, d)
    \/ \E d \in Dsrs, status \in Live, pasted \in BOOLEAN : UpdateRead(p, d, status, pasted)
    \/ \E d \in Dsrs, status \in {"completed", "rejected", "extended"}, empty, pasted \in BOOLEAN :
          ResolveRead(p, d, status, empty, pasted)
    \/ Write(p) \/ EraseResolve(p) \/ EraseEnrolments(p) \/ EraseEvents(p) \/ EraseFinish(p)
    \/ Fail(p)

Requests ==
    \/ \E d \in Dsrs : Delete(d) \/ \E type \in Types : Create(d, type)
    \/ \E p \in Procs : Handler(p)
    \/ EmployeeDeleted \/ Enrol \/ Attribute \/ RecordClick
    \/ CheckOverdue

Next == Requests \/ DayPasses

Spec == Init /\ [][Next]_dsrVars

-----------------------------------------------------------------------------
(* Properties.                                                             *)

\* "a completed erasure must have an executed erasure behind it" (dsr_erasure_guard.go), and
\* one that reached everything it could find when it began, whichever rows the other
\* modules insert and delete meanwhile and whatever text the notes contain - save rows that
\* another erasure of the same subject, running at the same time, cut off from their owner.
CompletedIsErased ==
    \A d \in Dsrs : dsr[d].type = "erasure" /\ dsr[d].status = "completed" =>
        d \in erased /\ owed[d] \cap pii \subseteq strayed

\* preserveErasureEvidence: the proof of a deletion stays with its request through every
\* later write, unless a handler that read the request before the erasure overtook it.
EvidenceSurvives ==
    \A d \in erased : Exists(d) => dsr[d].marker \/ d \in raced

-----------------------------------------------------------------------------
(* What comments in the repository promise and the code does not keep.     *)

\* "The marker has exactly one producer", and no later write may drop it.
EvidenceAlwaysSurvives == \A d \in erased : Exists(d) => dsr[d].marker

\* "a reopened erasure request is by definition not discharged": only an erasure closes it.
OnlyErasureCloses ==
    [][\A d \in Dsrs : dsr[d].type = "erasure" /\ dsr[d].status # "completed"
          /\ dsr'[d].status = "completed" => d \in erased' /\ owed'[d] # owed[d]]_dsrVars

\* repository.go:961 speaks of "a silent partial Art. 17 erasure" as the thing to prevent:
\* after a completed erasure nothing is left.
NothingRemains ==
    \A d \in Dsrs : dsr[d].type = "erasure" /\ dsr[d].status = "completed" => pii = {}

=============================================================================
