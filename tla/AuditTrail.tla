---------------------------- MODULE AuditTrail ----------------------------
(***************************************************************************)
(* The audit log of one organisation: the hash chain audit.Write extends   *)
(* (backend/internal/shared/audit), the verifier that replays it, and what *)
(* else touches the rows: unchained entries, retention, yearly partitions  *)
(* and the forwarder to the customer's SIEM (internal/services/siem).      *)
(*                                                                         *)
(* A hash stands for the row it was computed from, so prev is the creation *)
(* time of the row a hash links to.  Reading the tail with FOR UPDATE is   *)
(* two steps: the snapshot decides which row, the lock may come later, and *)
(* Postgres looks only at the locked row again.                            *)
(*                                                                         *)
(* An operator placed right before the one it resembles and used by no     *)
(* other definition is a faulty variant for the mutation checks.           *)
(***************************************************************************)
EXTENDS Integers, FiniteSets

CONSTANTS
    Writers,         \* calls of audit.Write that can be in flight
    Workers,         \* runs of the SIEM forwarder that can be in flight
    MaxTime,         \* bound: last instant; every row takes one
    YearLength,      \* instants in a year
    RetentionYears,  \* VAKT_AUDIT_RETENTION_YEARS
    RetentionTime,   \* retention_config.audit_log_days, in instants
    Batch,           \* rows the forwarder takes at a time (100)
    MaxSkew,         \* how far a writer's clock may lag behind
    MaxFaults        \* bound: calls that fail, processes that die

ASSUME AuditAssumption ==
    /\ IsFiniteSet(Writers)
    /\ MaxTime \in Nat /\ MaxSkew \in Nat /\ MaxFaults \in Nat /\ RetentionTime \in Nat
    /\ YearLength \in Nat \ {0} /\ RetentionYears \in Nat \ {0} /\ Batch \in Nat \ {0}

VARIABLES
    now,
    log,        \* rows of audit_log
    writer,     \* [Writers -> local state of audit.Write]
    worker,     \* [Workers -> local state of forwardOrgPending]
    received,   \* creation times of the rows the SIEM has received
    faults,
    commits,    \* history: chained rows committed
    overlapped, \* history: a write began while another was running
    skewed      \* history: a row was stamped by a clock that lagged

vars == <<now, log, writer, worker, received, faults, commits, overlapped, skewed>>

Times == 1..MaxTime
Nothing == 0      \* prev_hash NULL
Row == [at: Times, chained: BOOLEAN, prev: Times \cup {Nothing}, nth: Nat,
        deleted: BOOLEAN, forwarded: BOOLEAN]   \* nth: history, the position in commit order
WriterState == [at: {"idle", "lock", "insert", "commit"}, tail: Times \cup {Nothing}, stamp: Times \cup {Nothing}]
WorkerState == [at: {"idle", "send", "mark"}, batch: SUBSET Times]

TypeOK ==
    /\ now \in 0..MaxTime
    /\ log \subseteq Row
    /\ writer \in [Writers -> WriterState]
    /\ worker \in [Workers -> WorkerState]
    /\ received \subseteq Times
    /\ faults \in 0..MaxFaults /\ commits \in Nat
    /\ overlapped \in BOOLEAN /\ skewed \in BOOLEAN

IdleWriter == [at |-> "idle", tail |-> Nothing, stamp |-> Nothing]
IdleWorker == [at |-> "idle", batch |-> {}]

Init ==
    /\ now = 0 /\ log = {} /\ received = {} /\ faults = 0 /\ commits = 0
    /\ writer = [w \in Writers |-> IdleWriter]
    /\ worker = [k \in Workers |-> IdleWorker]
    /\ overlapped = FALSE /\ skewed = FALSE

-----------------------------------------------------------------------------
(* The chain.                                                              *)

Chained == {r \in log : r.chained}

LastOfSentinel(rows) == IF rows = {} THEN -1 ELSE (CHOOSE r \in rows : \A q \in rows : q.at <= r.at).at
\* The last row of rows in the order (created_at, id), as its creation time.
LastOf(rows) == IF rows = {} THEN Nothing
                ELSE (CHOOSE r \in rows : \A q \in rows : q.at <= r.at).at

\* The writer's tail and the verifier's predecessor: rows without a hash are passed over,
\* soft-deleted ones are not.
ChainedBefore(t) == LastOf({r \in Chained : r.at < t})

\* VerifyOrgChain: the first row, in order, that does not link to the row before it.
BadRowsTolerant == {r \in Chained : /\ r.prev # ChainedBefore(r.at)
                                  /\ ~\E q \in Chained : q.at < r.at /\ q.prev = r.prev}
BadRows == {r \in Chained : r.prev # ChainedBefore(r.at)}
Verdict == IF BadRows # {} THEN "broken"
           ELSE IF log # Chained THEN "unverifiable" ELSE "intact"

Fails == faults < MaxFaults /\ faults' = faults + 1
Used == {r.at : r \in log} \cup {writer[w].stamp : w \in Writers} \cup received

-----------------------------------------------------------------------------
(* audit.Write                                                             *)

\* The snapshot of SELECT ... ORDER BY created_at DESC LIMIT 1 FOR UPDATE.
VisibleTail == LastOf({r \in Chained : ~r.deleted})
Tail == ChainedBefore(MaxTime + 1)

WriteBegin(w) ==
    /\ writer[w].at = "idle"
    /\ Cardinality({v \in Writers : writer[v].at # "idle"}) + now < MaxTime
    /\ writer' = [writer EXCEPT ![w] = [IdleWriter EXCEPT !.at = "lock", !.tail = Tail]]
    /\ overlapped' = (overlapped \/ \E v \in Writers : writer[v].at # "idle")
    /\ UNCHANGED <<now, log, worker, received, faults, commits, skewed>>

\* The lock on the tail row; an empty chain has no row to lock.
Held(t) == t # Nothing /\ \E v \in Writers : writer[v].at \in {"insert", "commit"} /\ writer[v].tail = t

WriteLock(w) ==
    /\ writer[w].at = "lock" /\ ~Held(writer[w].tail)
    /\ writer' = [writer EXCEPT ![w].at = "insert"]
    /\ UNCHANGED <<now, log, worker, received, faults, commits, overlapped, skewed>>

\* created_at is the clock of the process, read under the lock.
WriteStamp(w) ==
    /\ writer[w].at = "insert" /\ now < MaxTime
    /\ now' = now + 1
    /\ \E lag \in 0..MaxSkew :
        /\ now' - lag \in Times \ Used
        /\ writer' = [writer EXCEPT ![w].at = "commit", ![w].stamp = now' - lag]
        /\ skewed' = (skewed \/ lag # 0)
    /\ UNCHANGED <<log, worker, received, faults, commits, overlapped>>

WriteCommit(w) ==
    /\ writer[w].at = "commit"
    /\ log' = log \cup {[at |-> writer[w].stamp, chained |-> TRUE, prev |-> writer[w].tail,
                         nth |-> commits + 1, deleted |-> FALSE, forwarded |-> FALSE]}
    /\ commits' = commits + 1
    /\ writer' = [writer EXCEPT ![w] = IdleWriter]
    /\ UNCHANGED <<now, worker, received, faults, overlapped, skewed>>

\* Any call fails, or the process dies: the transaction is rolled back and nobody told.
WriteFails(w) ==
    /\ writer[w].at # "idle" /\ Fails
    /\ writer' = [writer EXCEPT ![w] = IdleWriter]
    /\ UNCHANGED <<now, log, worker, received, commits, overlapped, skewed>>

\* Logger.Log: an entry without hashes.
LogUnchained ==
    /\ Cardinality({v \in Writers : writer[v].at # "idle"}) + now < MaxTime
    /\ now' = now + 1 /\ now' \notin Used
    /\ log' = log \cup {[at |-> now', chained |-> FALSE, prev |-> Nothing, nth |-> 0,
                         deleted |-> FALSE, forwarded |-> FALSE]}
    /\ UNCHANGED <<writer, worker, received, faults, commits, overlapped, skewed>>

-----------------------------------------------------------------------------
(* Retention.                                                              *)

\* RunRetention: soft delete, so that the chain stays continuous.
Expired(r) == r.at < now - RetentionTime

RunRetention ==
    /\ \E r \in log : Expired(r) /\ ~r.deleted
    /\ log' = {[r EXCEPT !.deleted = @ \/ Expired(r)] : r \in log}
    /\ UNCHANGED <<now, writer, worker, received, faults, commits, overlapped, skewed>>

\* MaintainPartitions: whole years go, one by one in the catalogue's order, and an error
\* leaves the rest; DETACH waits for the transactions on the table.
Year(t) == t \div YearLength
PastRetention(r) == Year(r.at) < Year(now) - RetentionYears

DropPartitions ==
    /\ \A w \in Writers : writer[w].at = "idle"
    /\ \E gone \in {r \in log : PastRetention(r)} : log' = {r \in log : Year(r.at) # Year(gone.at)}
    /\ UNCHANGED <<now, writer, worker, received, faults, commits, overlapped, skewed>>

-----------------------------------------------------------------------------
(* forwardOrgPending                                                       *)

\* Up to Batch rows, oldest first, that are neither forwarded nor soft-deleted.
PendingChained == {r \in log : ~r.forwarded /\ ~r.deleted /\ r.chained}
Pending == {r \in log : ~r.forwarded /\ ~r.deleted}
Oldest(rows) == {r \in rows : Cardinality({q \in rows : q.at < r.at}) < Batch}

ForwardRead(k) ==
    /\ worker[k].at = "idle" /\ Pending # {}
    /\ worker' = [worker EXCEPT ![k] = [at |-> "send", batch |-> {r.at : r \in Oldest(Pending)}]]
    /\ UNCHANGED <<now, log, writer, received, faults, commits, overlapped, skewed>>

\* The whole batch in one call.
ForwardSend(k) ==
    /\ worker[k].at = "send"
    /\ received' = received \cup worker[k].batch
    /\ worker' = [worker EXCEPT ![k].at = "mark"]
    /\ UNCHANGED <<now, log, writer, faults, commits, overlapped, skewed>>

\* One UPDATE per row, by its id; one that fails is logged and the next one tried.
MarkedOne(k, t) == {IF r.at = t THEN [r EXCEPT !.forwarded = TRUE] ELSE r : r \in log}

ForwardMark(k) ==
    /\ worker[k].at = "mark"
    /\ \E t \in worker[k].batch :
        /\ \/ log' = MarkedOne(k, t) /\ faults' = faults
           \/ log' = log /\ Fails
        /\ worker' = [worker EXCEPT ![k] =
               IF @.batch = {t} THEN IdleWorker ELSE [at |-> "mark", batch |-> @.batch \ {t}]]
    /\ UNCHANGED <<now, writer, received, commits, overlapped, skewed>>

ForwardFailsMarks(k) ==
    /\ worker[k].at # "idle" /\ Fails
    /\ worker' = [worker EXCEPT ![k].at = "mark"]
    /\ UNCHANGED <<now, log, writer, received, commits, overlapped, skewed>>

\* The SIEM refuses the batch, or the worker dies; the next run reads again.
ForwardFails(k) ==
    /\ worker[k].at # "idle" /\ Fails
    /\ worker' = [worker EXCEPT ![k] = IdleWorker]
    /\ UNCHANGED <<now, log, writer, received, commits, overlapped, skewed>>

-----------------------------------------------------------------------------

Tick ==
    /\ Cardinality({v \in Writers : writer[v].at # "idle"}) + now < MaxTime
    /\ now' = now + 1
    /\ UNCHANGED <<log, writer, worker, received, faults, commits, overlapped, skewed>>

Forward(k) == ForwardRead(k) \/ ForwardSend(k) \/ ForwardMark(k)

Next ==
    \/ \E w \in Writers : WriteBegin(w) \/ WriteLock(w) \/ WriteStamp(w) \/ WriteCommit(w) \/ WriteFails(w)
    \/ LogUnchained \/ RunRetention \/ DropPartitions \/ Tick
    \/ \E k \in Workers : Forward(k) \/ ForwardFails(k)

Spec == Init /\ [][Next]_vars

\* The scheduler starts the forwarder every five minutes.
Fairness == \A k \in Workers : WF_vars(Forward(k))
FairSpec == Spec /\ Fairness

-----------------------------------------------------------------------------
(* Properties.                                                             *)

\* VerifyOrgChain: "A non-empty FirstBadRow always reflects a real chain break".  For writers
\* that take turns on clocks that agree, the only rows ever reported are those whose
\* predecessor left with its partition, whatever retention soft-deletes, whichever partitions
\* go and whichever entries are written without a hash in between.
NoFalseAlarm ==
    overlapped \/ skewed \/ \A r \in BadRows : r.prev # Nothing /\ ~\E q \in log : q.at = r.prev

\* A chain that replays is the history: its rows stand in the order they were committed in,
\* also when writers did overlap, clocks did lag and partitions were dropped.
ReplayIsHistory ==
    Verdict # "broken" => \A q, r \in Chained : q.at < r.at => q.nth < r.nth

\* forwarded_to_siem: no row is marked that the SIEM has not received, over crashes and
\* overlapping runs of the forwarder.
MarkedIsReceived ==
    \A r \in log : r.forwarded => r.at \in received

\* ForwardPending: an entry reaches the SIEM, unless retention takes it first.
EventuallyReceived ==
    \A t \in Times : (\E r \in log : r.at = t) ~>
        (t \in received \/ ~\E r \in log : r.at = t /\ ~r.deleted)

\* The operator's check for a false alarm: "whether the flagged row shares its prev_hash with
\* the row before it" (helm/vakt/values.yaml).
FirstBadRow == CHOOSE r \in BadRows : \A q \in BadRows : r.at <= q.at
FalseAlarmRecognised ==
    Verdict = "broken" =>
        \E q \in Chained : q.at = ChainedBefore(FirstBadRow.at) /\ q.prev = FirstBadRow.prev

\* "A non-empty FirstBadRow always reflects a real chain break" (VerifyOrgChain).
BadRowIsABreak == Verdict # "broken"

=============================================================================
