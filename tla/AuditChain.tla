----------------------------- MODULE AuditChain -----------------------------
(***************************************************************************)
(* The audit log: fire-and-forget emitters append rows to one hash chain   *)
(* in Postgres under a transaction-scoped advisory lock; a daily job       *)
(* verifies the chain; another appends the new rows to NDJSON files and    *)
(* remembers how far it came in a cursor file.                             *)
(*                                                                         *)
(* Emitters are asyncio tasks of the web process and of the worker; an     *)
(* action is one statement of their transaction, so that the lock, the     *)
(* sequence and the last hash are read at different instants. The sink     *)
(* holds no lock: rows are committed while it selects and writes.          *)
(***************************************************************************)
EXTENDS Integers, FiniteSets

CONSTANTS
  Emitters,   \* tasks that may be inside emit() at the same time
  Contents,   \* what a row says: action, actor, conversation, payload hash
  Nobody,     \* the free advisory lock
  MaxId,      \* bound: ids drawn from the sequence
  MaxFaults   \* bound: failed transactions, failed or killed sinks

ASSUME NobodyAssumption == Nobody \notin Emitters
ASSUME BoundsAssumption == MaxId \in Nat /\ MaxFaults \in Nat

VARIABLES
  rows,     \* the committed rows of audit_log (a trigger forbids any change)
  seq,      \* last id drawn from the sequence of audit_log.id
  lock,     \* holder of pg_advisory_xact_lock(hashtext('audit_log_chain'))
  pc,       \* what each emitter does next
  id,       \* its next_id
  prev,     \* its prev_hash
  content,  \* what it emits
  sink,     \* what export_audit_ndjson does next
  batch,    \* the rows it has still to append
  top,      \* rows[-1].id of the rows it selected
  cursor,   \* what _read_cursor returns
  lines,    \* ids with a line in the NDJSON files
  twice,    \* ids with more than one line
  faults    \* faults spent so far

task   == <<pc, id, prev, content>>
export == <<sink, batch, top>>
files  == <<cursor, lines, twice>>
vars   == <<rows, seq, lock, task, export, files, faults>>

-----------------------------------------------------------------------------
(* The chain. sha256 is taken as collision-free: a hash is what it hashes. *)

NoHash == <<>>                       \* "" of the first row
Hash(p, i, c) == <<p, i, c>>

IsLast(set, q) == q \in set /\ \A p \in set : p.id <= q.id

\* SELECT entry_hash FROM audit_log ORDER BY id DESC LIMIT 1, or ""
LastHash(set) ==
  IF set = {} THEN NoHash ELSE (CHOOSE q \in set : IsLast(set, q)).hash

Before(set, i) == {q \in set : q.id < i}

\* Mutant: the linkage to the row before is not checked.
GoodRow_HashOnly(set, r) == r.hash = Hash(r.prev, r.id, r.content)

\* verify_chain_rows: a row is bad when it does not name the hash of the row
\* before it, or its own hash is not that of its contents.
GoodRow(set, r) ==
  /\ r.prev = LastHash(Before(set, r.id))
  /\ r.hash = Hash(r.prev, r.id, r.content)
Verifies(set) == \A r \in set : GoodRow(set, r)

\* The id the verifier reports: the first bad row's.
FirstBad(set) ==
  LET bad == {r.id : r \in {q \in set : ~GoodRow(set, q)}}
  IN  IF bad = {} THEN 0 ELSE CHOOSE i \in bad : \A j \in bad : i <= j

Init ==
  /\ rows = {} /\ seq = 0 /\ lock = Nobody
  /\ pc = [e \in Emitters |-> "idle"]
  /\ id = [e \in Emitters |-> 0]
  /\ prev = [e \in Emitters |-> NoHash]
  /\ content = [e \in Emitters |-> Nobody]
  /\ sink = "idle" /\ batch = {} /\ top = 0
  /\ cursor = 0 /\ lines = {} /\ twice = {}
  /\ faults = 0

Fault == faults < MaxFaults /\ faults' = faults + 1

-----------------------------------------------------------------------------
(* emit *)

InFlight == {e \in Emitters : pc[e] # "idle"}

\* Whatever way emit() ends, its locals are gone.
Return(e) ==
  /\ pc' = [pc EXCEPT ![e] = "idle"]
  /\ id' = [id EXCEPT ![e] = 0]
  /\ prev' = [prev EXCEPT ![e] = NoHash]
  /\ content' = [content EXCEPT ![e] = Nobody]

\* emit_task: a task is created (a payload that does not validate ends it here).
Emit(e, c) ==
  /\ pc[e] = "idle"
  /\ seq + Cardinality(InFlight) < MaxId
  /\ pc' = [pc EXCEPT ![e] = "lock"]
  /\ content' = [content EXCEPT ![e] = c]
  /\ UNCHANGED <<rows, seq, lock, id, prev, export, files, faults>>

\* Mutant: nothing serialises the transactions.
TakeLock_NoLock(e) ==
  /\ pc[e] = "lock"
  /\ pc' = [pc EXCEPT ![e] = "nextval"]
  /\ UNCHANGED <<rows, seq, lock, id, prev, content, export, files, faults>>

TakeLock(e) ==
  /\ pc[e] = "lock" /\ lock = Nobody
  /\ lock' = e
  /\ pc' = [pc EXCEPT ![e] = "nextval"]
  /\ UNCHANGED <<rows, seq, id, prev, content, export, files, faults>>

NextVal(e) ==
  /\ pc[e] = "nextval"
  /\ seq' = seq + 1
  /\ pc' = [pc EXCEPT ![e] = "last"]
  /\ id' = [id EXCEPT ![e] = seq + 1]
  /\ UNCHANGED <<rows, lock, prev, content, export, files, faults>>

\* Mutant: the lock ends with the statement that reads the last hash.
ReadLast_Unlocks(e) ==
  /\ pc[e] = "last"
  /\ lock' = Nobody
  /\ pc' = [pc EXCEPT ![e] = "insert"]
  /\ prev' = [prev EXCEPT ![e] = LastHash(rows)]
  /\ UNCHANGED <<rows, seq, id, content, export, files, faults>>

ReadLast(e) ==
  /\ pc[e] = "last"
  /\ pc' = [pc EXCEPT ![e] = "insert"]
  /\ prev' = [prev EXCEPT ![e] = LastHash(rows)]
  /\ UNCHANGED <<rows, seq, lock, id, content, export, files, faults>>

\* Mutant: the row does not say what was emitted.
NewRow_NoContent(e) == [id |-> id[e], content |-> Nobody, prev |-> prev[e],
                        hash |-> Hash(prev[e], id[e], Nobody)]

NewRow(e) == [id |-> id[e], content |-> content[e], prev |-> prev[e],
              hash |-> Hash(prev[e], id[e], content[e])]

\* INSERT and COMMIT; the commit releases the lock.
Commit(e) ==
  /\ pc[e] = "insert"
  /\ rows' = rows \cup {NewRow(e)}
  /\ lock' = Nobody
  /\ Return(e)
  /\ UNCHANGED <<seq, export, files, faults>>

\* Any exception, or the end of the process: the transaction is rolled back and
\* the lock released; the id it drew is lost. The error is logged, not raised.
EmitFails(e) ==
  /\ pc[e] # "idle"
  /\ Fault
  /\ lock' = IF lock = e THEN Nobody ELSE lock
  /\ Return(e)
  /\ UNCHANGED <<rows, seq, export, files>>

-----------------------------------------------------------------------------
(* export_audit_ndjson: one execution at a time (a daily ARQ cron job) *)

\* Mutant: the rows from the cursor on.
NewRows_FromCursor == {r \in rows : r.id >= cursor}

NewRows == {r \in rows : r.id > cursor}

\* _read_cursor and the SELECT of the rows after it.
SinkSelect ==
  /\ sink = "idle" /\ NewRows # {}
  /\ sink' = "append"
  /\ batch' = NewRows
  /\ top' = (CHOOSE r \in NewRows : IsLast(NewRows, r)).id
  /\ UNCHANGED <<rows, seq, lock, task, files, faults>>

\* One line; the rows go out in the order of their ids.
SinkAppend(r) ==
  /\ sink = "append" /\ r \in batch
  /\ \A q \in batch : r.id <= q.id
  /\ lines' = lines \cup {r.id}
  /\ twice' = IF r.id \in lines THEN twice \cup {r.id} ELSE twice
  /\ batch' = batch \ {r}
  /\ UNCHANGED <<rows, seq, lock, task, sink, top, cursor, faults>>

\* Mutant: the cursor file is written before the lines.
SinkTruncate_Early ==
  /\ sink = "append"
  /\ cursor' = 0
  /\ sink' = "cursor"
  /\ UNCHANGED <<rows, seq, lock, task, batch, top, lines, twice, faults>>

\* _write_cursor opens the file: until it is written it reads as 0.
SinkTruncate ==
  /\ sink = "append" /\ batch = {}
  /\ cursor' = 0
  /\ sink' = "cursor"
  /\ UNCHANGED <<rows, seq, lock, task, batch, top, lines, twice, faults>>

SinkCursor ==
  /\ sink = "cursor"
  /\ cursor' = top
  /\ sink' = "idle" /\ batch' = {} /\ top' = 0
  /\ UNCHANGED <<rows, seq, lock, task, lines, twice, faults>>

\* Volume missing or full, or the worker killed: what was appended stays.
SinkFails ==
  /\ sink # "idle"
  /\ Fault
  /\ sink' = "idle" /\ batch' = {} /\ top' = 0
  /\ UNCHANGED <<rows, seq, lock, task, files>>

EmitStep(e) == TakeLock(e) \/ NextVal(e) \/ ReadLast(e) \/ Commit(e)
SinkStep == SinkSelect \/ (\E r \in batch : SinkAppend(r))
              \/ SinkTruncate \/ SinkCursor

Next ==
  \/ \E e \in Emitters : (\E c \in Contents : Emit(e, c)) \/ EmitStep(e) \/ EmitFails(e)
  \/ SinkStep \/ SinkFails

Spec == Init /\ [][Next]_vars

\* Tasks run and the sink's job is started every day; nothing obliges the
\* program to emit or to fail.
FairSpec ==
  Spec /\ WF_vars(SinkStep) /\ \A e \in Emitters : SF_vars(EmitStep(e))

-----------------------------------------------------------------------------
(* Properties *)

\* Every variable has its type.
TypeOK ==
  /\ \A r \in rows : r.id \in Nat /\ r.content \in Contents
  /\ seq \in Nat /\ lock \in Emitters \cup {Nobody} /\ faults \in Nat
  /\ pc \in [Emitters -> {"idle", "lock", "nextval", "last", "insert"}]
  /\ id \in [Emitters -> Nat]
  /\ DOMAIN prev = Emitters
  /\ content \in [Emitters -> Contents \cup {Nobody}]
  /\ sink \in {"idle", "append", "cursor"} /\ batch \subseteq rows /\ top \in Nat
  /\ cursor \in Nat /\ lines \subseteq Nat /\ twice \subseteq lines

\* Whatever tasks emit at the same time and whichever transactions fail, what
\* is committed verifies: the daily check never cries wolf.
ChainIntact == FirstBad(rows) = 0

\* A row whose content is changed (its hash recomputed or not), or removed before
\* the last one, is found, and the row reported is the first that no longer fits.
\* Content is what the hash covers: not the column metadata (audit_log.py:165).
TamperingIsFound ==
  \A r \in rows :
    LET rest  == rows \ {r}
        later == {q.id : q \in {p \in rows : p.id > r.id}}
        next  == CHOOSE i \in later : \A j \in later : i <= j
    IN  /\ \A c \in Contents \ {r.content} :
             /\ FirstBad(rest \cup {[r EXCEPT !.content = c]}) = r.id
             /\ later # {} =>
                  FirstBad(rest \cup {[r EXCEPT !.content = c,
                             !.hash = Hash(r.prev, r.id, c)]}) = next
        /\ later # {} => FirstBad(rest) = next

\* The cursor never passes a row that is not in the files: a row whose id was
\* drawn before others' but is committed after them would be skipped for ever.
NothingSkipped == \A r \in rows : r.id <= cursor => r.id \in lines

\* Seen from the files, the lock, the chain and the cursor are an append-only log
\* whose entries are exported in order, repeated only after a failure, and all
\* exported in the end, though the sink fails (finitely often).
Log == INSTANCE ExportedLog WITH
         log      <- {[id |-> r.id, content |-> r.content] : r \in rows},
         exported <- lines,
         repeated <- twice,
         failed   <- faults > 0
ImplementsLog == Log!Spec
=============================================================================
