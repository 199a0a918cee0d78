-------------------------- MODULE AuditChainProofs --------------------------
(***************************************************************************)
(* For every number of emitters, rows and faults: the committed rows       *)
(* verify, and the sink's cursor never passes a row that is not exported.  *)
(*                                                                         *)
(* Neither is inductive. Both rest on the advisory lock: only its holder   *)
(* has drawn an id that may still be inserted, so that this id is greater  *)
(* than every committed one and the last hash it read is still the last.   *)
(*                                                                         *)
(* From it follow that whatever is changed in a committed row is found at  *)
(* that row, and, with what RInv adds, that every step is a step of        *)
(* ExportedLog or a stutter.                                               *)
(***************************************************************************)
EXTENDS AuditChain, WellFoundedInduction, TLAPS

\* The emitters between the lock statement and the end of their transaction.
Holding == {"nextval", "last", "insert"}

\* The lock's holder is the only emitter inside its transaction.
LockInv == \A e \in Emitters : pc[e] \in Holding <=> lock = e

\* What the lock protects: the id drawn is above every committed one, and the
\* hash read is that of the last committed row.
IdInv == /\ \A r \in rows : r.id \in 1 .. seq
         /\ \A e \in Emitters : pc[e] \in {"last", "insert"} =>
              id[e] = seq /\ seq >= 1 /\ \A r \in rows : r.id < id[e]
PrevInv == \A e \in Emitters : pc[e] = "insert" => prev[e] = LastHash(rows)
ContentInv == \A e \in Emitters : pc[e] # "idle" => content[e] \in Contents

\* The cursor, and the id it is about to get, are 0 or a committed row's: never
\* an id that a transaction under way could still commit at or below.
Committed(n) == n = 0 \/ \E r \in rows : r.id = n
SinkInv ==
  /\ Committed(cursor) /\ Committed(top)
  /\ sink = "append" => \A r \in rows : r.id <= top => r \in batch \/ r.id \in lines
  /\ sink = "cursor" => \A r \in rows : r.id <= top => r.id \in lines
  /\ sink = "idle" => top = 0

IInv == /\ TypeOK /\ LockInv /\ IdInv /\ PrevInv /\ ContentInv
        /\ Verifies(rows) /\ SinkInv /\ NothingSkipped

-----------------------------------------------------------------------------
(* Facts about the chain *)

\* A row appended above all others does not change what precedes the others,
\* and is preceded by all of them.
LEMMA BeforeAppended ==
  ASSUME NEW set, NEW new, NEW i, \A r \in set : r.id \in Nat,
         new.id \in Nat, i \in Nat, i <= new.id
  PROVE  Before(set \cup {new}, i) = Before(set, i)
  BY DEF Before

LEMMA BeforeAll ==
  ASSUME NEW set, NEW i, \A r \in set : r.id < i
  PROVE  Before(set, i) = set
  BY DEF Before

\* Appending a row that names the last hash, and hashes what it says, to a chain
\* that verifies gives a chain that verifies.
LEMMA AppendVerifies ==
  ASSUME NEW set, NEW new, Verifies(set),
         \A r \in set : r.id \in Nat, new.id \in Nat,
         \A r \in set : r.id < new.id,
         new.prev = LastHash(set), new.hash = Hash(new.prev, new.id, new.content)
  PROVE  Verifies(set \cup {new})
<1>1. SUFFICES ASSUME NEW r \in set \cup {new} PROVE GoodRow(set \cup {new}, r)
  BY DEF Verifies
<1>2. CASE r = new
  <2>1. Before(set \cup {new}, r.id) = set
    BY <1>2 DEF Before
  <2> QED BY <1>2, <2>1 DEF GoodRow
<1>3. CASE r \in set
  <2>1. Before(set \cup {new}, r.id) = Before(set, r.id)
    <3>1. r.id \in Nat /\ r.id <= new.id BY <1>3
    <3> QED BY <3>1, BeforeAppended
  <2> QED BY <1>3, <2>1 DEF GoodRow, Verifies
<1> QED BY <1>2, <1>3

\* The verifier reports no row exactly when every row is good.
LEMMA VerifiedHasNoBad ==
  ASSUME NEW set, Verifies(set) PROVE FirstBad(set) = 0
  BY DEF Verifies, FirstBad
\* A non-empty set of rows with bounded ids has a last row (the smallest
\* distance from the bound).
LEMMA LastExists ==
  ASSUME NEW set, set # {}, NEW n \in Nat, \A r \in set : r.id \in 0 .. n
  PROVE  \E r \in set : IsLast(set, r)
<1> DEFINE Gaps == {n - r.id : r \in set}
<1>1. Gaps \subseteq Nat /\ Gaps # {}
  OBVIOUS
<1> HIDE DEF Gaps
<1>2. PICK g \in Gaps : \A h \in Gaps : ~ (<<h, g>> \in OpToRel(<, Nat))
  BY <1>1, NatLessThanWellFounded, WFMin
<1>3. \A h \in Gaps : ~ (h < g)
  BY <1>1, <1>2 DEF OpToRel
<1>4. PICK r \in set : g = n - r.id
  BY DEF Gaps
<1>5. \A p \in set : p.id <= r.id
  <2>1. TAKE p \in set
  <2>2. n - p.id \in Gaps BY DEF Gaps
  <2>3. ~ (n - p.id < n - r.id) BY <1>3, <1>4, <2>2
  <2> QED BY <2>3
<1> QED BY <1>5 DEF IsLast

-----------------------------------------------------------------------------
(* The invariant *)

\* The initial state satisfies the invariant.
LEMMA InitInv == Init => IInv
<1> SUFFICES ASSUME Init PROVE IInv OBVIOUS
<1>1. TypeOK BY BoundsAssumption DEF Init, TypeOK
<1>2. LockInv /\ IdInv /\ PrevInv /\ ContentInv
  BY NobodyAssumption DEF Init, LockInv, IdInv, PrevInv, ContentInv, Holding
<1>3. Verifies(rows) /\ SinkInv /\ NothingSkipped
  BY DEF Init, Verifies, SinkInv, NothingSkipped, Committed
<1> QED BY <1>1, <1>2, <1>3 DEF IInv

\* A step that leaves the table and the sink alone keeps what is said of them.
LEMMA SinkUnchanged ==
  ASSUME SinkInv, NothingSkipped, rows' = rows, UNCHANGED <<export, files>>
  PROVE  SinkInv' /\ NothingSkipped'
  BY DEF SinkInv, NothingSkipped, Committed, export, files

\* The emitter's steps before the INSERT.
LEMMA EmitInv ==
  ASSUME IInv, NEW e \in Emitters, NEW c \in Contents, Emit(e, c)
  PROVE  IInv'
<1>1. TypeOK' BY DEF IInv, TypeOK, Emit, export, files
<1>2. LockInv' BY DEF IInv, TypeOK, LockInv, Emit, Holding
<1>3. IdInv' /\ PrevInv' /\ ContentInv'
  BY DEF IInv, TypeOK, IdInv, PrevInv, ContentInv, Emit
<1>4. Verifies(rows)' BY DEF IInv, Emit, Verifies, GoodRow, LastHash, Before
<1>5. SinkInv' /\ NothingSkipped' BY SinkUnchanged DEF IInv, Emit
<1> QED BY <1>1, <1>2, <1>3, <1>4, <1>5 DEF IInv

LEMMA TakeLockInv ==
  ASSUME IInv, NEW e \in Emitters, TakeLock(e) PROVE IInv'
<1>1. TypeOK' BY DEF IInv, TypeOK, TakeLock, export, files
<1>2. LockInv' BY NobodyAssumption DEF IInv, TypeOK, LockInv, TakeLock, Holding
<1>3. IdInv' /\ PrevInv' /\ ContentInv'
  BY DEF IInv, TypeOK, IdInv, PrevInv, ContentInv, TakeLock
<1>4. Verifies(rows)' BY DEF IInv, TakeLock, Verifies, GoodRow, LastHash, Before
<1>5. SinkInv' /\ NothingSkipped' BY SinkUnchanged DEF IInv, TakeLock
<1> QED BY <1>1, <1>2, <1>3, <1>4, <1>5 DEF IInv

LEMMA NextValInv ==
  ASSUME IInv, NEW e \in Emitters, NextVal(e) PROVE IInv'
<1>1. TypeOK' BY DEF IInv, TypeOK, NextVal, export, files
<1>2. LockInv' BY DEF IInv, TypeOK, LockInv, NextVal, Holding
<1>3. \A f \in Emitters : pc[f] \in Holding => f = e
  BY DEF IInv, LockInv, NextVal, Holding
<1>4. IdInv'
  BY <1>3 DEF IInv, TypeOK, IdInv, NextVal, Holding
<1>5. PrevInv' /\ ContentInv'
  BY DEF IInv, TypeOK, PrevInv, ContentInv, NextVal
<1>6. Verifies(rows)' BY DEF IInv, NextVal, Verifies, GoodRow, LastHash, Before
<1>7. SinkInv' /\ NothingSkipped' BY SinkUnchanged DEF IInv, NextVal
<1> QED BY <1>1, <1>2, <1>4, <1>5, <1>6, <1>7 DEF IInv

LEMMA ReadLastInv ==
  ASSUME IInv, NEW e \in Emitters, ReadLast(e) PROVE IInv'
<1>1. TypeOK' BY DEF IInv, TypeOK, ReadLast, export, files
<1>2. LockInv' BY DEF IInv, TypeOK, LockInv, ReadLast, Holding
<1>3. IdInv' /\ ContentInv'
  BY DEF IInv, TypeOK, IdInv, ContentInv, ReadLast
<1>4. PrevInv'
  BY DEF IInv, TypeOK, PrevInv, ReadLast
<1>5. Verifies(rows)' BY DEF IInv, ReadLast, Verifies, GoodRow, LastHash, Before
<1>6. SinkInv' /\ NothingSkipped' BY SinkUnchanged DEF IInv, ReadLast
<1> QED BY <1>1, <1>2, <1>3, <1>4, <1>5, <1>6 DEF IInv

\* The INSERT: the new row is above every other, so it joins the chain at its
\* end, and both the cursor and the id the cursor will get stay below it.
LEMMA CommitInv ==
  ASSUME IInv, NEW e \in Emitters, Commit(e) PROVE IInv'
<1> DEFINE new == NewRow(e)
<1>1. /\ rows' = rows \cup {new} /\ new.id = id[e] /\ new.content = content[e]
      /\ new.prev = prev[e] /\ new.hash = Hash(new.prev, new.id, new.content)
  BY DEF Commit, NewRow
<1>2. /\ id[e] = seq /\ seq \in Nat /\ seq >= 1 /\ content[e] \in Contents
      /\ \A r \in rows : r.id \in Nat /\ r.id < id[e]
      /\ prev[e] = LastHash(rows)
  BY DEF IInv, TypeOK, IdInv, PrevInv, ContentInv, Commit
<1>3. /\ pc' = [pc EXCEPT ![e] = "idle"] /\ id' = [id EXCEPT ![e] = 0]
      /\ prev' = [prev EXCEPT ![e] = NoHash]
      /\ content' = [content EXCEPT ![e] = Nobody]
      /\ lock' = Nobody /\ seq' = seq
      /\ UNCHANGED <<sink, batch, top, cursor, lines, twice, faults>>
  BY DEF Commit, Return, export, files
<1>4. \A f \in Emitters : pc[f] \in Holding => f = e
  BY DEF IInv, LockInv, Commit, Holding
<1>5. TypeOK'
  BY <1>1, <1>2, <1>3 DEF IInv, TypeOK
<1>6. LockInv'
  BY <1>3, <1>4, NobodyAssumption DEF IInv, TypeOK, LockInv, Holding
<1>7. IdInv'
  <2>1. \A r \in rows' : r.id \in 1 .. seq'
    BY <1>1, <1>2, <1>3 DEF IInv, IdInv
  <2>2. \A f \in Emitters : pc'[f] \notin {"last", "insert"}
    BY <1>3, <1>4 DEF IInv, TypeOK, Holding
  <2> QED BY <2>1, <2>2 DEF IdInv
<1>8. PrevInv' /\ ContentInv'
  BY <1>3, <1>4 DEF IInv, TypeOK, PrevInv, ContentInv, Holding
<1>9. Verifies(rows)'
  <2>1. Verifies(rows \cup {new})
    BY <1>1, <1>2, AppendVerifies DEF IInv
  <2> QED BY <1>1, <2>1 DEF Verifies, GoodRow, LastHash, Before
<1>10. SinkInv' /\ NothingSkipped'
  <2>1. top < new.id /\ cursor < new.id
    BY <1>1, <1>2 DEF IInv, SinkInv, Committed
  <2>2. Committed(top)' /\ Committed(cursor)'
    BY <1>1, <1>3 DEF IInv, SinkInv, Committed
  <2>3. \A r \in rows' : r.id <= top => r \in rows
    BY <1>1, <1>2, <2>1 DEF IInv, TypeOK
  <2>4. \A r \in rows' : r.id <= cursor => r \in rows
    BY <1>1, <1>2, <2>1 DEF IInv, TypeOK
  <2> QED BY <1>3, <2>2, <2>3, <2>4 DEF IInv, SinkInv, NothingSkipped
<1> QED BY <1>5, <1>6, <1>7, <1>8, <1>9, <1>10 DEF IInv

\* A rolled back transaction leaves a gap in the ids and nothing else.
LEMMA EmitFailsInv ==
  ASSUME IInv, NEW e \in Emitters, EmitFails(e) PROVE IInv'
<1>1. /\ pc' = [pc EXCEPT ![e] = "idle"] /\ id' = [id EXCEPT ![e] = 0]
      /\ prev' = [prev EXCEPT ![e] = NoHash]
      /\ content' = [content EXCEPT ![e] = Nobody]
      /\ lock' = (IF lock = e THEN Nobody ELSE lock)
      /\ faults' = faults + 1
      /\ UNCHANGED <<rows, seq, export, files>>
  BY DEF EmitFails, Return, Fault
<1>2. TypeOK' BY <1>1 DEF IInv, TypeOK, export, files
<1>3. LockInv'
  BY <1>1, NobodyAssumption DEF IInv, TypeOK, LockInv, Holding
<1>4. IdInv' /\ PrevInv' /\ ContentInv'
  BY <1>1 DEF IInv, TypeOK, IdInv, PrevInv, ContentInv
<1>5. Verifies(rows)' BY <1>1 DEF IInv, Verifies, GoodRow, LastHash, Before
<1>6. SinkInv' /\ NothingSkipped' BY <1>1, SinkUnchanged DEF IInv
<1> QED BY <1>2, <1>3, <1>4, <1>5, <1>6 DEF IInv

\* The sink's steps leave the chain alone.
LEMMA ChainUnchanged ==
  ASSUME IInv, UNCHANGED <<rows, seq, lock, task>>
  PROVE  /\ LockInv' /\ IdInv' /\ PrevInv' /\ ContentInv' /\ Verifies(rows)'
<1>1. LockInv' /\ ContentInv' BY DEF IInv, LockInv, ContentInv, task
<1>2. IdInv' /\ PrevInv' BY DEF IInv, IdInv, PrevInv, task, LastHash
<1>3. Verifies(rows)' BY DEF IInv, Verifies, GoodRow, LastHash, Before
<1> QED BY <1>1, <1>2, <1>3

LEMMA SinkSelectInv == ASSUME IInv, SinkSelect PROVE IInv'
<1>1. /\ sink' = "append" /\ batch' = NewRows
      /\ top' = (CHOOSE r \in NewRows : IsLast(NewRows, r)).id
      /\ UNCHANGED <<rows, seq, lock, task, files, faults>>
  BY DEF SinkSelect
<1>2. PICK last \in NewRows : IsLast(NewRows, last)
  <2>1. NewRows # {} /\ seq \in Nat /\ \A r \in NewRows : r.id \in 0 .. seq
    BY DEF IInv, TypeOK, IdInv, SinkSelect, NewRows
  <2> QED BY <2>1, LastExists
<1>3. PICK r \in NewRows : IsLast(NewRows, r) /\ top' = r.id
  BY <1>1, <1>2
<1>4. /\ top' \in Nat /\ Committed(top)' /\ NewRows \subseteq rows
      /\ \A q \in rows : q.id > cursor => q \in NewRows
  BY <1>1, <1>3 DEF IInv, TypeOK, Committed, NewRows
<1>5. TypeOK'
  BY <1>1, <1>4 DEF IInv, TypeOK, task, files
<1>6. LockInv' /\ IdInv' /\ PrevInv' /\ ContentInv' /\ Verifies(rows)'
  BY <1>1, ChainUnchanged
<1>7. NothingSkipped'
  BY <1>1 DEF IInv, NothingSkipped, files
<1>8. \A q \in rows : q \in NewRows \/ q.id \in lines
  BY <1>4 DEF IInv, TypeOK, NothingSkipped
<1>9. SinkInv'
  BY <1>1, <1>4, <1>8 DEF IInv, SinkInv, Committed, files
<1> QED BY <1>5, <1>6, <1>7, <1>9 DEF IInv

LEMMA SinkAppendInv == ASSUME IInv, NEW r \in batch, SinkAppend(r) PROVE IInv'
<1>1. TypeOK'
  BY DEF IInv, TypeOK, SinkAppend, task
<1>2. LockInv' /\ IdInv' /\ PrevInv' /\ ContentInv' /\ Verifies(rows)'
  BY ChainUnchanged DEF SinkAppend
<1>3. SinkInv' /\ NothingSkipped'
  BY DEF IInv, SinkInv, NothingSkipped, Committed, SinkAppend
<1> QED BY <1>1, <1>2, <1>3 DEF IInv

\* Until it is written the cursor is 0, below every row.
LEMMA SinkTruncateInv == ASSUME IInv, SinkTruncate PROVE IInv'
<1>1. TypeOK'
  BY DEF IInv, TypeOK, SinkTruncate, task
<1>2. LockInv' /\ IdInv' /\ PrevInv' /\ ContentInv' /\ Verifies(rows)'
  BY ChainUnchanged DEF SinkTruncate
<1>3. SinkInv'
  BY DEF IInv, SinkInv, Committed, SinkTruncate
<1>4. NothingSkipped'
  BY DEF IInv, IdInv, TypeOK, NothingSkipped, SinkTruncate
<1> QED BY <1>1, <1>2, <1>3, <1>4 DEF IInv

LEMMA SinkCursorInv == ASSUME IInv, SinkCursor PROVE IInv'
<1>1. TypeOK'
  BY DEF IInv, TypeOK, SinkCursor, task
<1>2. LockInv' /\ IdInv' /\ PrevInv' /\ ContentInv' /\ Verifies(rows)'
  BY ChainUnchanged DEF SinkCursor
<1>3. SinkInv' /\ NothingSkipped'
  BY DEF IInv, SinkInv, NothingSkipped, Committed, SinkCursor
<1> QED BY <1>1, <1>2, <1>3 DEF IInv

LEMMA SinkFailsInv == ASSUME IInv, SinkFails PROVE IInv'
<1>1. TypeOK'
  BY DEF IInv, TypeOK, SinkFails, Fault, task, files
<1>2. LockInv' /\ IdInv' /\ PrevInv' /\ ContentInv' /\ Verifies(rows)'
  BY ChainUnchanged DEF SinkFails
<1>3. SinkInv' /\ NothingSkipped'
  BY DEF IInv, SinkInv, NothingSkipped, Committed, SinkFails, files
<1> QED BY <1>1, <1>2, <1>3 DEF IInv

LEMMA StutterInv == ASSUME IInv, UNCHANGED vars PROVE IInv'
<1>1. TypeOK' BY DEF IInv, TypeOK, vars, task, export, files
<1>2. LockInv' /\ IdInv' /\ PrevInv' /\ ContentInv' /\ Verifies(rows)'
  BY ChainUnchanged DEF vars
<1>3. SinkInv' /\ NothingSkipped' BY SinkUnchanged DEF IInv, vars
<1> QED BY <1>1, <1>2, <1>3 DEF IInv

LEMMA NextInv == IInv /\ [Next]_vars => IInv'
<1> SUFFICES ASSUME IInv, [Next]_vars PROVE IInv' OBVIOUS
<1>1. ASSUME NEW e \in Emitters, NEW c \in Contents, Emit(e, c) PROVE IInv'
  BY <1>1, EmitInv
<1>2. ASSUME NEW e \in Emitters, EmitStep(e) PROVE IInv'
  BY <1>2, TakeLockInv, NextValInv, ReadLastInv, CommitInv DEF EmitStep
<1>3. ASSUME NEW e \in Emitters, EmitFails(e) PROVE IInv'
  BY <1>3, EmitFailsInv
<1>4. CASE SinkStep
  BY <1>4, SinkSelectInv, SinkAppendInv, SinkTruncateInv, SinkCursorInv DEF SinkStep
<1>5. CASE SinkFails BY <1>5, SinkFailsInv
<1>6. CASE UNCHANGED vars BY <1>6, StutterInv
<1> QED BY <1>1, <1>2, <1>3, <1>4, <1>5, <1>6 DEF Next

-----------------------------------------------------------------------------
(* Results *)

\* The strengthened invariant holds in every reachable state.
THEOREM Invariance == Spec => []IInv
BY InitInv, NextInv, PTL DEF Spec

\* Every variable always has its type.
THEOREM TypeCorrect == Spec => []TypeOK
<1>1. IInv => TypeOK BY DEF IInv
<1> QED BY <1>1, Invariance, PTL

\* emit(): however many tasks emit at once and whatever fails, the daily
\* verification of the committed rows finds nothing.
THEOREM ChainAlwaysIntact == Spec => []ChainIntact
<1>1. IInv => ChainIntact BY VerifiedHasNoBad DEF IInv, ChainIntact
<1> QED BY <1>1, Invariance, PTL

\* export_audit_ndjson(): the cursor never passes a row that is not in the
\* files, though rows are committed while it exports and it may be killed.
THEOREM NeverSkips == Spec => []NothingSkipped
<1>1. IInv => NothingSkipped BY DEF IInv
<1> QED BY <1>1, Invariance, PTL

-----------------------------------------------------------------------------
(* AuditChain implements the safety part of ExportedLog. Beyond IInv the     *)
(* step-by-step argument needs two facts about the sink: its batch lies      *)
(* between the cursor and the top, and until something fails no id of the    *)
(* batch has a line.                                                         *)

UniqueIds == \A q, r \in rows : q.id = r.id => q = r
BatchInv  == sink = "append" => \A q \in batch : q.id <= top
FreshInv  ==
  faults = 0 =>
    /\ sink = "idle" => \A i \in lines : i <= cursor
    /\ sink = "append" => /\ \A i \in lines : i <= top
                          /\ \A q \in batch : q.id \notin lines
    /\ sink = "cursor" => \A i \in lines : i <= top

RInv == IInv /\ UniqueIds /\ BatchInv /\ FreshInv

-----------------------------------------------------------------------------
(* The strengthened invariant *)

\* A step that leaves the table, the sink and the faults alone.
LEMMA SinkAtRest ==
  ASSUME RInv, UNCHANGED <<rows, export, files, faults>>
  PROVE  UniqueIds' /\ BatchInv' /\ FreshInv'
  BY DEF RInv, UniqueIds, BatchInv, FreshInv, export, files

\* A row is committed under an id above all the others.
LEMMA CommitKeeps ==
  ASSUME RInv, NEW e \in Emitters, Commit(e) PROVE UniqueIds' /\ BatchInv' /\ FreshInv'
<1>1. \A r \in rows : r.id \in Nat /\ r.id < id[e]
  BY DEF RInv, IInv, TypeOK, IdInv, Commit
<1>2. /\ rows' = rows \cup {NewRow(e)} /\ NewRow(e).id = id[e]
      /\ UNCHANGED <<export, files, faults>>
  BY DEF Commit, NewRow
<1>3. id[e] \in Nat BY DEF RInv, IInv, TypeOK
<1>4. UniqueIds' BY <1>1, <1>2, <1>3 DEF RInv, UniqueIds
<1>5. BatchInv' /\ FreshInv' BY <1>2 DEF RInv, BatchInv, FreshInv, export, files
<1> QED BY <1>4, <1>5

\* What is selected lies above the cursor, and so above every line.
LEMMA SelectKeeps ==
  ASSUME RInv, SinkSelect PROVE UniqueIds' /\ BatchInv' /\ FreshInv'
<1>1. /\ sink = "idle" /\ sink' = "append" /\ batch' = NewRows
      /\ top' = (CHOOSE r \in NewRows : IsLast(NewRows, r)).id
      /\ UNCHANGED <<rows, cursor, lines, faults>>
  BY DEF SinkSelect, files
<1>2. /\ NewRows # {} /\ seq \in Nat /\ cursor \in Nat /\ lines \subseteq Nat
      /\ \A r \in NewRows : r.id \in 0 .. seq /\ r.id > cursor
  BY DEF RInv, IInv, TypeOK, IdInv, SinkSelect, NewRows
<1>3. PICK last \in NewRows : IsLast(NewRows, last) BY <1>2, LastExists
<1>4. PICK r \in NewRows : IsLast(NewRows, r) /\ top' = r.id BY <1>1, <1>3
<1>5. UniqueIds' BY <1>1 DEF RInv, UniqueIds
<1>6. BatchInv' BY <1>1, <1>4 DEF BatchInv, IsLast
<1>7. FreshInv'
  <2>1. SUFFICES ASSUME faults = 0
        PROVE (\A i \in lines : i <= top') /\ (\A q \in NewRows : q.id \notin lines)
    BY <1>1 DEF FreshInv
  <2>2. \A i \in lines : i <= cursor BY <1>1, <2>1 DEF RInv, FreshInv
  <2>3. \A i \in lines : i <= top' BY <1>2, <1>4, <2>2
  <2>4. \A q \in NewRows : q.id \notin lines BY <1>2, <2>2
  <2> QED BY <2>3, <2>4
<1> QED BY <1>5, <1>6, <1>7

LEMMA AppendKeeps ==
  ASSUME RInv, NEW r \in batch, SinkAppend(r)
  PROVE  UniqueIds' /\ BatchInv' /\ FreshInv'
<1>1. /\ sink = "append" /\ sink' = sink /\ batch' = batch \ {r}
      /\ lines' = lines \cup {r.id}
      /\ UNCHANGED <<rows, top, cursor, faults>>
  BY DEF SinkAppend
<1>2. batch \subseteq rows BY DEF RInv, IInv, TypeOK
<1>3. UniqueIds' BY <1>1 DEF RInv, UniqueIds
<1>4. BatchInv' BY <1>1 DEF RInv, BatchInv
<1>5. \A q \in batch \ {r} : q.id # r.id BY <1>2 DEF RInv, UniqueIds
<1>6. FreshInv' BY <1>1, <1>5 DEF RInv, BatchInv, FreshInv
<1> QED BY <1>3, <1>4, <1>6

LEMMA CursorKeeps ==
  ASSUME RInv, SinkTruncate \/ SinkCursor PROVE UniqueIds' /\ BatchInv' /\ FreshInv'
<1>1. CASE SinkTruncate
  BY <1>1 DEF RInv, UniqueIds, BatchInv, FreshInv, SinkTruncate
<1>2. CASE SinkCursor
  BY <1>2 DEF RInv, UniqueIds, BatchInv, FreshInv, SinkCursor
<1> QED BY <1>1, <1>2

\* After a failure nothing is said of the lines any more.
LEMMA FailureKeeps ==
  ASSUME RInv, SinkFails \/ \E e \in Emitters : EmitFails(e)
  PROVE  UniqueIds' /\ BatchInv' /\ FreshInv'
<1>1. faults' # 0 /\ rows' = rows
  BY DEF RInv, IInv, TypeOK, SinkFails, EmitFails, Fault
<1>2. BatchInv'
  BY DEF RInv, BatchInv, SinkFails, EmitFails, export
<1> QED BY <1>1, <1>2 DEF RInv, UniqueIds, FreshInv

LEMMA RInvInit == Init => RInv
<1> SUFFICES ASSUME Init PROVE RInv OBVIOUS
<1>1. UniqueIds /\ BatchInv /\ FreshInv BY DEF Init, UniqueIds, BatchInv, FreshInv
<1> QED BY <1>1, InitInv DEF RInv

LEMMA RInvNext == RInv /\ [Next]_vars => RInv'
<1> SUFFICES ASSUME RInv, [Next]_vars PROVE RInv' OBVIOUS
<1>1. IInv' BY NextInv DEF RInv
<1>2. ASSUME NEW e \in Emitters,
             (\E c \in Contents : Emit(e, c)) \/ TakeLock(e) \/ NextVal(e) \/ ReadLast(e)
      PROVE  UniqueIds' /\ BatchInv' /\ FreshInv'
  BY <1>2, SinkAtRest DEF Emit, TakeLock, NextVal, ReadLast
<1>3. ASSUME NEW e \in Emitters, Commit(e) PROVE UniqueIds' /\ BatchInv' /\ FreshInv'
  BY <1>3, CommitKeeps
<1>4. ASSUME NEW e \in Emitters, EmitFails(e) PROVE UniqueIds' /\ BatchInv' /\ FreshInv'
  BY <1>4, FailureKeeps
<1>5. ASSUME SinkStep PROVE UniqueIds' /\ BatchInv' /\ FreshInv'
  BY <1>5, SelectKeeps, AppendKeeps, CursorKeeps DEF SinkStep, RInv
<1>6. ASSUME SinkFails PROVE UniqueIds' /\ BatchInv' /\ FreshInv'
  BY <1>6, FailureKeeps
<1>7. ASSUME UNCHANGED vars PROVE UniqueIds' /\ BatchInv' /\ FreshInv'
  BY <1>7, SinkAtRest DEF vars
<1>8. UniqueIds' /\ BatchInv' /\ FreshInv'
  BY <1>2, <1>3, <1>4, <1>5, <1>6, <1>7 DEF Next, EmitStep
<1> QED BY <1>1, <1>8 DEF RInv

-----------------------------------------------------------------------------
(* Every step is a step of the log, or none *)

Entry(r) == [id |-> r.id, content |-> r.content]
Entries  == {Entry(r) : r \in rows}

\* The steps of a transaction before its COMMIT are not seen from the log.
LEMMA Unseen ==
  ASSUME UNCHANGED <<rows, lines, twice, faults>> PROVE UNCHANGED Log!vars
  BY DEF Log!vars

LEMMA CommitAppends ==
  ASSUME RInv, NEW e \in Emitters, Commit(e) PROVE Log!Append
<1> DEFINE new == Entry(NewRow(e))
<1>1. /\ rows' = rows \cup {NewRow(e)} /\ UNCHANGED <<lines, twice, faults>>
      /\ NewRow(e).id = id[e] /\ NewRow(e).content = content[e]
  BY DEF Commit, NewRow, files
<1>2. /\ id[e] \in Nat /\ content[e] \in Contents
      /\ \A r \in rows : r.id < id[e]
  BY DEF RInv, IInv, TypeOK, IdInv, ContentInv, Commit
<1>3. Entries' = Entries \cup {new} /\ new \in Entries' BY <1>1 DEF Entries, Entry
<1>4. new.id = id[e] /\ new.content = content[e] BY <1>1 DEF Entry
<1>5. \A d \in Entries : d.id < new.id BY <1>2, <1>4 DEF Entries, Entry
<1>6. /\ \E f \in Entries' : /\ f.id \in Nat /\ f.content \in Contents
                             /\ Entries' = Entries \cup {f}
                             /\ \A d \in Entries : d.id < f.id
      /\ UNCHANGED <<lines, twice, faults>>
  BY <1>1, <1>2, <1>3, <1>4, <1>5
<1> QED BY <1>6 DEF Log!Append, Entries, Entry

LEMMA AppendExports ==
  ASSUME RInv, NEW r \in batch, SinkAppend(r)
  PROVE  \E f \in Entries : Log!Export(f) \/ Log!Repeat(f)
<1> DEFINE f == Entry(r)
<1>1. /\ sink = "append" /\ \A q \in batch : r.id <= q.id
      /\ lines' = lines \cup {r.id}
      /\ twice' = IF r.id \in lines THEN twice \cup {r.id} ELSE twice
      /\ UNCHANGED <<rows, faults>>
  BY DEF SinkAppend
<1>2. r \in rows /\ r.id \in Nat /\ top \in Nat /\ faults \in Nat /\ r.id <= top
  BY <1>1 DEF RInv, IInv, TypeOK, BatchInv
<1>3. f \in Entries /\ f.id = r.id BY <1>2 DEF Entries, Entry
<1>4. CASE r.id \in lines
  <2>1. faults > 0 BY <1>1, <1>2, <1>4 DEF RInv, FreshInv
  <2>2. (faults > 0)' = (faults > 0) /\ lines' = lines BY <1>1, <1>4
  <2>3. Log!Repeat(f) BY <1>1, <1>3, <1>4, <2>1, <2>2 DEF Log!Repeat
  <2> QED BY <1>3, <2>3
<1>5. CASE r.id \notin lines
  <2>1. \A q \in rows : q.id < r.id => q.id \in lines
    <3>1. TAKE q \in rows
    <3>2. HAVE q.id < r.id
    <3>3. q.id \in Nat BY DEF RInv, IInv, TypeOK
    <3>4. q.id <= top /\ q \notin batch BY <1>1, <1>2, <3>2, <3>3
    <3> QED BY <1>1, <3>4 DEF RInv, IInv, SinkInv
  <2>2. \A d \in Entries : d.id < f.id => d.id \in lines
    BY <1>3, <2>1 DEF Entries, Entry
  <2>3. Log!Export(f) BY <1>1, <1>3, <1>5, <2>2 DEF Log!Export, Entries, Entry
  <2> QED BY <1>3, <2>3
<1> QED BY <1>4, <1>5

LEMMA FailureFails ==
  ASSUME RInv, SinkFails \/ \E e \in Emitters : EmitFails(e) PROVE Log!Fail
<1>1. /\ faults' = faults + 1 /\ faults \in Nat
      /\ UNCHANGED <<rows, lines, twice>>
  BY DEF RInv, IInv, TypeOK, SinkFails, EmitFails, Fault, files
<1> QED BY <1>1 DEF Log!Fail

LEMMA StepRefines == RInv /\ [Next]_vars => [Log!Next]_(Log!vars)
<1> SUFFICES ASSUME RInv, [Next]_vars PROVE Log!Next \/ UNCHANGED Log!vars OBVIOUS
<1>1. ASSUME NEW e \in Emitters,
             (\E c \in Contents : Emit(e, c)) \/ TakeLock(e) \/ NextVal(e) \/ ReadLast(e)
      PROVE  UNCHANGED Log!vars
  BY <1>1, Unseen DEF Emit, TakeLock, NextVal, ReadLast, files
<1>2. ASSUME NEW e \in Emitters, Commit(e) PROVE Log!Next
  BY <1>2, CommitAppends DEF Log!Next
<1>3. ASSUME NEW e \in Emitters, EmitFails(e) PROVE Log!Next
  BY <1>3, FailureFails DEF Log!Next
<1>4. CASE SinkSelect \/ SinkTruncate \/ SinkCursor
  BY <1>4, Unseen DEF SinkSelect, SinkTruncate, SinkCursor, files
<1>5. ASSUME NEW r \in batch, SinkAppend(r) PROVE Log!Next
  BY <1>5, AppendExports DEF Log!Next, Log!ExportNext, Entries, Entry
<1>6. CASE SinkFails BY <1>6, FailureFails DEF Log!Next
<1>7. CASE UNCHANGED vars BY <1>7, Unseen DEF vars, files
<1> QED BY <1>1, <1>2, <1>3, <1>4, <1>5, <1>6, <1>7 DEF Next, EmitStep, SinkStep

\* emit() and export_audit_ndjson() implement an append-only log exported in
\* order, without gaps, and without repetition until something fails.
THEOREM ImplementsLogSafely == Spec => Log!SafeSpec
<1>1. Init => Log!Init BY DEF Init, Log!Init
<1> QED BY <1>1, RInvInit, RInvNext, StepRefines, PTL DEF Spec, Log!SafeSpec

-----------------------------------------------------------------------------
(* A row that is changed or removed *)

\* A row has the columns that emit() writes.
IsRow(r) == r = [id |-> r.id, content |-> r.content, prev |-> r.prev, hash |-> r.hash]

RowInv == RInv /\ \A r \in rows : IsRow(r)

\* Every row that joins the table has its columns.
LEMMA RowInvNext == RowInv /\ [Next]_vars => RowInv'
<1> SUFFICES ASSUME RowInv, [Next]_vars PROVE \A r \in rows' : IsRow(r)
  BY RInvNext DEF RowInv
<1>1. rows' = rows \/ \E e \in Emitters : rows' = rows \cup {NewRow(e)}
  BY DEF Next, Emit, EmitStep, TakeLock, NextVal, ReadLast, Commit, EmitFails, SinkStep,
         SinkSelect, SinkAppend, SinkTruncate, SinkCursor, SinkFails, vars
<1>2. \A e \in Emitters : IsRow(NewRow(e)) BY DEF IsRow, NewRow
<1> QED BY <1>1, <1>2 DEF RowInv

\* A chain as the invariant describes it.
Chain(set) == /\ \A r \in set : IsRow(r) /\ r.id \in Nat
              /\ \A q, r \in set : q.id = r.id => q = r
              /\ Verifies(set)

\* The ids after r, and the first of them.
Later(set, r)   == {q.id : q \in {p \in set : p.id > r.id}}
NextId(set, r) == CHOOSE i \in Later(set, r) : \A j \in Later(set, r) : i <= j

\* A set of ids has a least one.
LEMMA LeastExists ==
  ASSUME NEW S, S \subseteq Nat, S # {} PROVE \E i \in S : \A j \in S : i <= j
<1>1. PICK i \in S : \A j \in S : ~ (<<j, i>> \in OpToRel(<, Nat))
  BY NatLessThanWellFounded, WFMin
<1>2. \A j \in S : ~ (j < i) BY <1>1 DEF OpToRel
<1>3. \A j \in S : i <= j BY <1>2
<1> QED BY <1>3

\* The verifier reports the bad row below which every row is good.
LEMMA FirstBadIs ==
  ASSUME NEW set, \A r \in set : r.id \in Nat,
         NEW b \in set, ~GoodRow(set, b), \A q \in set : q.id < b.id => GoodRow(set, q)
  PROVE  FirstBad(set) = b.id
<1> DEFINE bad == {r.id : r \in {q \in set : ~GoodRow(set, q)}}
<1>1. b.id \in bad /\ \A j \in bad : j \in Nat /\ b.id <= j
  BY DEF GoodRow
<1>2. FirstBad(set) = CHOOSE i \in bad : \A j \in bad : i <= j
  BY <1>1 DEF FirstBad
<1> HIDE DEF bad
<1> QED BY <1>1, <1>2

\* The last hash is that of the row no other lies above.
LEMMA LastHashIs ==
  ASSUME NEW set, NEW l \in set, IsLast(set, l), \A r \in set : r.id \in Nat,
         \A q \in set : q.id = l.id => q = l
  PROVE  LastHash(set) = l.hash
<1>1. (CHOOSE q \in set : IsLast(set, q)) = l
  <2>1. \A q \in set : IsLast(set, q) => q = l BY DEF IsLast
  <2> QED BY <2>1
<1> QED BY <1>1 DEF LastHash

\* The row after r names its hash: nothing that lies below both replaces it.
LEMMA Successor ==
  ASSUME NEW set, Chain(set), NEW r \in set, Later(set, r) # {}
  PROVE  \E n \in set : /\ n.id = NextId(set, r) /\ n.id > r.id
                        /\ \A q \in set : q.id < n.id => q.id <= r.id
                        /\ n.prev = r.hash
<1>1. Later(set, r) \subseteq Nat BY DEF Later, Chain
<1>2. NextId(set, r) \in Later(set, r) /\ \A j \in Later(set, r) : NextId(set, r) <= j
  BY <1>1, LeastExists DEF NextId
<1>3. PICK n \in set : n.id = NextId(set, r) /\ n.id > r.id
  BY <1>2 DEF Later
<1>4. \A q \in set : q.id < n.id => q.id <= r.id
  <2>1. TAKE q \in set
  <2>2. SUFFICES ASSUME q.id < n.id, ~(q.id <= r.id) PROVE FALSE OBVIOUS
  <2>3. q.id \in Nat /\ r.id \in Nat /\ n.id \in Nat BY DEF Chain
  <2>4. q.id \in Later(set, r) BY <2>2, <2>3 DEF Later
  <2> QED BY <1>2, <1>3, <2>2, <2>3, <2>4
<1>5. LastHash(Before(set, n.id)) = r.hash
  <2>1. r \in Before(set, n.id) /\ \A q \in Before(set, n.id) : q \in set /\ q.id < n.id
    BY <1>3 DEF Before
  <2>2. IsLast(Before(set, n.id), r) BY <1>4, <2>1 DEF IsLast
  <2> QED BY <2>1, <2>2, LastHashIs DEF Chain
<1>6. n.prev = r.hash BY <1>5 DEF Chain, Verifies, GoodRow
<1> QED BY <1>3, <1>4, <1>6

\* What leaves the rows below r alone leaves them good.
LEMMA BelowIsGood ==
  ASSUME NEW set, Chain(set), NEW r \in set, NEW new, \A q \in new : q.id \in Nat,
         Before(new, r.id) = Before(set, r.id)
  PROVE  \A q \in set : q.id < r.id => GoodRow(new, q)
<1> SUFFICES ASSUME NEW q \in set, q.id < r.id PROVE GoodRow(new, q) OBVIOUS
<1>1. q.id \in Nat /\ r.id \in Nat /\ \A p \in set : p.id \in Nat BY DEF Chain
<1>2. Before(set, q.id) = {p \in Before(set, r.id) : p.id < q.id} BY <1>1 DEF Before
<1>3. Before(new, q.id) = {p \in Before(new, r.id) : p.id < q.id} BY <1>1 DEF Before
<1>4. Before(new, q.id) = Before(set, q.id) BY <1>2, <1>3
<1> QED BY <1>4 DEF Chain, Verifies, GoodRow

\* Different rows have different hashes, and none has that of no row.
LEMMA HashesDiffer ==
  ASSUME NEW p, NEW i, NEW c, NEW q, NEW j, NEW d, i # j \/ c # d
  PROVE  Hash(p, i, c) # Hash(q, j, d)
BY DEF Hash

LEMMA HashIsNotEmpty == ASSUME NEW p, NEW i, NEW c PROVE Hash(p, i, c) # NoHash
BY DEF Hash, NoHash

\* A row changed without its hash.
LEMMA ChangeIsFound ==
  ASSUME NEW set, Chain(set), NEW r \in set, NEW c, c # r.content
  PROVE  FirstBad((set \ {r}) \cup {[r EXCEPT !.content = c]}) = r.id
<1> DEFINE t == [r EXCEPT !.content = c]
           new == (set \ {r}) \cup {t}
<1>1. t.id = r.id /\ t.content = c /\ t.prev = r.prev /\ t.hash = r.hash
  BY DEF Chain, IsRow
<1>2. \A q \in new : q.id \in Nat BY <1>1 DEF Chain
<1>3. ~GoodRow(new, t)
  <2>1. r.hash = Hash(r.prev, r.id, r.content) BY DEF Chain, Verifies, GoodRow
  <2> HIDE DEF t, new
  <2> QED BY <1>1, <2>1, HashesDiffer DEF GoodRow
<1> HIDE DEF t
<1>4. /\ \A q \in set : q.id \in Nat
      /\ \A q \in set : q.id = r.id => q = r
  BY DEF Chain
<1>5. Before(new, r.id) = Before(set, r.id) BY <1>1, <1>4 DEF Before
<1>6. \A q \in new : q.id < t.id => GoodRow(new, q)
  <2>1. \A q \in new : q.id < t.id => q \in set /\ q.id < r.id BY <1>1, <1>2
  <2> HIDE DEF new
  <2>2. \A q \in set : q.id < r.id => GoodRow(new, q) BY <1>2, <1>5, BelowIsGood
  <2> QED BY <2>1, <2>2
<1>7. t \in new OBVIOUS
<1> HIDE DEF new
<1>8. FirstBad(new) = t.id BY <1>2, <1>3, <1>6, <1>7, FirstBadIs
<1> QED BY <1>1, <1>8 DEF new, t

\* A row changed with its hash.
LEMMA RehashIsFound ==
  ASSUME NEW set, Chain(set), NEW r \in set, NEW c, c # r.content, Later(set, r) # {}
  PROVE  FirstBad((set \ {r}) \cup {[r EXCEPT !.content = c, !.hash = Hash(r.prev, r.id, c)]})
           = NextId(set, r)
<1> DEFINE t == [r EXCEPT !.content = c, !.hash = Hash(r.prev, r.id, c)]
           new == (set \ {r}) \cup {t}
<1>1. t.id = r.id /\ t.content = c /\ t.prev = r.prev /\ t.hash = Hash(r.prev, r.id, c)
  BY DEF Chain, IsRow
<1>2. PICK n \in set : /\ n.id = NextId(set, r) /\ n.id > r.id
                       /\ \A q \in set : q.id < n.id => q.id <= r.id
                       /\ n.prev = r.hash
  BY Successor
<1> HIDE DEF t
<1>3. /\ \A q \in set : q.id \in Nat
      /\ \A q \in set : q.id = r.id => q = r
      /\ r.prev = LastHash(Before(set, r.id)) /\ r.hash = Hash(r.prev, r.id, r.content)
  BY DEF Chain, Verifies, GoodRow
<1>4. /\ \A q \in new : q.id \in Nat
      /\ \A q \in new : q = t \/ (q \in set /\ q # r)
      /\ n \in new /\ t \in new
  BY <1>1, <1>2, <1>3
<1>5. Before(new, r.id) = Before(set, r.id) BY <1>1, <1>3 DEF Before
<1> HIDE DEF new
<1>6. \A q \in set : q.id < r.id => GoodRow(new, q) BY <1>4, <1>5, BelowIsGood
<1>7. LastHash(Before(new, n.id)) = t.hash
  <2>1. t \in Before(new, n.id) BY <1>1, <1>2, <1>4 DEF Before
  <2>2. \A q \in Before(new, n.id) : q.id \in Nat /\ (q = t \/ q.id < t.id)
    BY <1>1, <1>2, <1>3, <1>4 DEF Before
  <2>3. IsLast(Before(new, n.id), t) /\ \A q \in Before(new, n.id) : q.id = t.id => q = t
    BY <1>1, <1>3, <2>1, <2>2 DEF IsLast
  <2> QED BY <2>1, <2>2, <2>3, LastHashIs
<1>8. ~GoodRow(new, n) BY <1>1, <1>2, <1>3, <1>7, HashesDiffer DEF GoodRow
<1>9. GoodRow(new, t) BY <1>1, <1>3, <1>5 DEF GoodRow
<1>10. \A q \in new : q.id < n.id => GoodRow(new, q)
  BY <1>2, <1>3, <1>4, <1>6, <1>9
<1>11. FirstBad(new) = n.id BY <1>4, <1>8, <1>10, FirstBadIs
<1> QED BY <1>2, <1>11 DEF new, t

\* A row removed.
LEMMA RemovalIsFound ==
  ASSUME NEW set, Chain(set), NEW r \in set, Later(set, r) # {}
  PROVE  FirstBad(set \ {r}) = NextId(set, r)
<1> DEFINE new == set \ {r}
<1>1. PICK n \in set : /\ n.id = NextId(set, r) /\ n.id > r.id
                       /\ \A q \in set : q.id < n.id => q.id <= r.id
                       /\ n.prev = r.hash
  BY Successor
<1>2. /\ \A q \in set : q.id \in Nat
      /\ \A q \in set : q.id = r.id => q = r
      /\ \A q \in set : q.hash = Hash(q.prev, q.id, q.content)
  BY DEF Chain, Verifies, GoodRow
<1>3. Before(new, r.id) = Before(set, r.id) BY <1>2 DEF Before
<1>4. Before(new, n.id) = Before(new, r.id) BY <1>1, <1>2 DEF Before
<1>5. n \in new /\ \A q \in new : q \in set /\ q # r BY <1>1, <1>2
<1> HIDE DEF new
<1>6. \A q \in set : q.id < r.id => GoodRow(new, q) BY <1>2, <1>3, <1>5, BelowIsGood
<1>7. LastHash(Before(new, r.id)) # r.hash
  <2>1. CASE Before(new, r.id) = {}
    BY <1>2, <2>1, HashIsNotEmpty DEF LastHash
  <2>2. CASE Before(new, r.id) # {}
    <3>1. \A q \in Before(new, r.id) : q \in set /\ q.id \in 0 .. r.id /\ q.id < r.id
      BY <1>2, <1>5 DEF Before
    <3>2. PICK l \in Before(new, r.id) : IsLast(Before(new, r.id), l)
      <4>1. r.id \in Nat BY <1>2
      <4> QED BY <2>2, <3>1, <4>1, LastExists
    <3>3. LastHash(Before(new, r.id)) = l.hash
      BY <3>1, <3>2, LastHashIs DEF Chain
    <3>4. l.hash # r.hash
      <4>1. l \in set /\ l.id # r.id BY <3>1, <1>2
      <4> QED BY <1>2, <4>1, HashesDiffer
    <3> QED BY <3>3, <3>4
  <2> QED BY <2>1, <2>2
<1>8. ~GoodRow(new, n) BY <1>1, <1>4, <1>7 DEF GoodRow
<1>9. \A q \in new : q.id < n.id => GoodRow(new, q)
  BY <1>1, <1>2, <1>5, <1>6
<1>10. FirstBad(new) = n.id BY <1>2, <1>5, <1>8, <1>9, FirstBadIs
<1> QED BY <1>1, <1>10 DEF new

\* verify_chain_rows(): however long the chain, a row whose hashed columns are
\* changed, its hash recomputed or not, or that is removed, is found and reported
\* at the first row that no longer fits; only the last row, changed with its hash
\* or removed, goes unnoticed, and so does the column metadata of any row.
THEOREM TamperingAlwaysFound == Spec => []TamperingIsFound
<1>1. RowInv => TamperingIsFound
  <2> SUFFICES ASSUME RowInv, NEW r \in rows
      PROVE /\ \A c \in Contents \ {r.content} :
                 /\ FirstBad((rows \ {r}) \cup {[r EXCEPT !.content = c]}) = r.id
                 /\ Later(rows, r) # {} =>
                      FirstBad((rows \ {r}) \cup {[r EXCEPT !.content = c,
                                 !.hash = Hash(r.prev, r.id, c)]}) = NextId(rows, r)
            /\ Later(rows, r) # {} => FirstBad(rows \ {r}) = NextId(rows, r)
    BY DEF TamperingIsFound, Later, NextId
  <2>1. Chain(rows) BY DEF RowInv, RInv, IInv, TypeOK, UniqueIds, Chain
  <2> QED BY <2>1, ChangeIsFound, RehashIsFound, RemovalIsFound
<1>2. Init => RowInv BY RInvInit DEF RowInv, Init
<1> QED BY <1>1, <1>2, RowInvNext, PTL DEF Spec
=============================================================================
