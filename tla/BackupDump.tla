------------------------------ MODULE BackupDump ------------------------------
(***************************************************************************)
(* One dump of the live database and its restore into a fresh schema       *)
(* (src/backend/src/modules/backup/backup-core.ts). The dump reads the     *)
(* tables one SELECT after the other, outside any transaction, while the   *)
(* application goes on writing; the restore inserts them in foreign-key    *)
(* order.                                                                  *)
(***************************************************************************)
EXTENDS Integers, FiniteSets, Sequences

CONSTANTS
  Tables,
  Ids,        \* primary keys
  Schemas,    \* sets of foreign keys [table, on, nullable] considered
  MaxBreaks,  \* breakCycles gives up after so many keys (20 in the code)
  MaxWrites   \* bound: rows the application inserts or deletes

ASSUME DumpAssumption ==
  /\ IsFiniteSet(Tables) /\ Tables # {} /\ 0 \notin Ids
  /\ \A S \in Schemas : S \subseteq [table : Tables, on : Tables, nullable : BOOLEAN]
  /\ MaxBreaks \in Nat /\ MaxWrites \in Nat

VARIABLES
  edges, broken,  \* foreign keys the order respects; those set aside
  live,           \* each table: its keys, and the keys each row refers to, 0 for NULL
  order,          \* tables in dump and restore order
  file,           \* tables as dumped
  damaged,        \* did bytes of a file change after its checksum was taken
  fresh,          \* tables as restored
  todo,           \* tables of order still to be dumped or inserted
  step,           \* what dump or restore does next
  writes,         \* spent from the bound
  torn            \* history: the application wrote between the first SELECT and the last

planVars == <<edges, broken, order>>
dumpVars == <<planVars, live, file, damaged, fresh, todo, step, writes, torn>>

Schema == edges \cup broken
KeysOf(t) == {e \in Schema : e.table = t}
Empty == [t \in Tables |-> << >>]

\* Every row refers to rows there are, and only nullable keys are NULL.
Consistent(db) ==
  \A e \in Schema : \A i \in DOMAIN db[e.table] :
    LET v == db[e.table][i][e] IN IF v = 0 THEN e.nullable ELSE v \in DOMAIN db[e.on]

\* Type invariant: tables hold rows, the live database is consistent, and only
\* nullable keys are set aside.
DumpTypeOK ==
  /\ Schema \in Schemas /\ edges \cap broken = {}
  /\ \A e \in broken : e.nullable
  /\ \A db \in {live, file, fresh} : \A t \in Tables :
       DOMAIN db[t] \subseteq Ids /\ \A i \in DOMAIN db[t] : db[t][i] \in [KeysOf(t) -> Ids \cup {0}]
  /\ Consistent(live)
  /\ \A i, j \in DOMAIN order : order[i] = order[j] => i = j
  /\ step \in {"break", "dump", "verify", "insert", "fix", "restored", "refused", "corrupt",
               "failed"}
  /\ writes \in 0..MaxWrites /\ torn \in BOOLEAN /\ damaged \in BOOLEAN

DumpInit ==
  /\ edges \in Schemas /\ broken = {} /\ order = << >>
  /\ live = Empty /\ file = Empty /\ fresh = Empty
  /\ damaged = FALSE /\ todo = << >> /\ step = "break" /\ writes = 0 /\ torn = FALSE

-------------------------------------------------------------------------------
DependsOn(t, E) == {e.on : e \in {f \in E : f.table = t}}

\* The tables sorted after k rounds, a round taking every table whose dependencies
\* are sorted (stuckSet and topologicalSort).
Sorted(E) ==
  LET R[k \in 0..Cardinality(Tables)] ==
        IF k = 0 THEN {} ELSE {t \in Tables : DependsOn(t, E) \subseteq R[k - 1]}
  IN  R

Stuck(E) == Tables \ Sorted(E)[Cardinality(Tables)]

\* Faulty variants: any foreign key may be set aside; the tables in any order; the keys
\* set aside stay NULL; damage goes unseen.
AnyKey(E) == {e \in E : e.table \in Stuck(E) /\ e.on \in Stuck(E)}
AnyOrder(E) == {s \in [1..Cardinality(Tables) -> Tables] :
                  \A i, j \in DOMAIN s : i # j => s[i] # s[j]}
LeftNull(t) == fresh[t]
Trusted == TRUE

\* The foreign keys that breakCycles may set aside.
Breakable(E) == {e \in E : e.table \in Stuck(E) /\ e.on \in Stuck(E) /\ e.nullable}

\* Kahn's algorithm: round by round, by name within a round; names are arbitrary.
Orders(E) ==
  LET n == Cardinality(Tables)
      Round(t) == CHOOSE k \in 1..n : t \in Sorted(E)[k] \ Sorted(E)[k - 1] IN
  {s \in AnyOrder(E) : \A i, j \in 1..n : i < j => Round(s[i]) <= Round(s[j])}

\* verifyBackupIntegrity: every checksum read again.
Intact == ~damaged

\* The row of t that insertion makes of a dumped row: NULL for the keys set aside.
Inserted(t) ==
  [i \in DOMAIN file[t] |->
    [e \in KeysOf(t) |-> IF e \in broken THEN 0 ELSE file[t][i][e]]]

\* The fix-up: UPDATE the keys set aside, row by row.
FixedUp(t) ==
  [i \in DOMAIN fresh[t] |->
    [e \in KeysOf(t) |-> IF e \in broken THEN file[t][i][e] ELSE fresh[t][i][e]]]

-------------------------------------------------------------------------------
\* breakCycles sets one more foreign key aside; which comes first is the database's
\* choice.
BreakKey ==
  /\ step = "break" /\ Stuck(edges) # {} /\ Cardinality(broken) < MaxBreaks
  /\ \E e \in Breakable(edges) : edges' = edges \ {e} /\ broken' = broken \cup {e}
  /\ UNCHANGED <<live, order, file, damaged, fresh, todo, step, writes, torn>>

\* Nothing to set aside, or too much: breakCycles or topologicalSort throws.
Refuse ==
  /\ step = "break" /\ Stuck(edges) # {}
  /\ Breakable(edges) = {} \/ Cardinality(broken) = MaxBreaks
  /\ step' = "refused"
  /\ UNCHANGED <<planVars, live, file, damaged, fresh, todo, writes, torn>>

\* topologicalSort.
Sort ==
  /\ step = "break" /\ Stuck(edges) = {}
  /\ order' \in Orders(edges)
  /\ todo' = order' /\ step' = "dump"
  /\ UNCHANGED <<edges, broken, live, file, damaged, fresh, writes, torn>>

\* dumpDatabaseToDirectory: SELECT * of the next table into its file, with a checksum;
\* the manifest after the last.
DumpTable ==
  /\ step = "dump"
  /\ file' = [file EXCEPT ![Head(todo)] = live[Head(todo)]]
  /\ todo' = IF Len(todo) > 1 THEN Tail(todo) ELSE order
  /\ step' = IF Len(todo) > 1 THEN "dump" ELSE "verify"
  /\ UNCHANGED <<planVars, live, damaged, fresh, writes, torn>>

\* A truncated write, a bad disk.
Damage ==
  /\ step = "verify" /\ ~damaged
  /\ damaged' = TRUE
  /\ UNCHANGED <<planVars, live, file, fresh, todo, step, writes, torn>>

Verify ==
  /\ step = "verify"
  /\ step' = IF Intact THEN "insert" ELSE "corrupt"
  /\ UNCHANGED <<planVars, live, file, damaged, fresh, todo, writes, torn>>

\* restoreDirectoryIntoSchema: one INSERT a table, which the target's foreign keys may
\* reject; restored and dumped rows are counted.
InsertTable ==
  /\ step = "insert"
  /\ LET t == Head(todo)
         after == [fresh EXCEPT ![t] = Inserted(t)]
         ok == \A e \in KeysOf(t) \cap edges : \A i \in DOMAIN after[t] :
                 after[t][i][e] \in DOMAIN after[e.on] \cup {0} IN
     /\ fresh' = IF ok THEN after ELSE fresh
     /\ step' = IF ~ok THEN "failed" ELSE IF Len(todo) > 1 THEN "insert" ELSE "fix"
     /\ todo' = Tail(todo)
  /\ UNCHANGED <<planVars, live, file, damaged, writes, torn>>

\* ... and the keys set aside get their values.
FixUp ==
  /\ step = "fix"
  /\ LET after == [t \in Tables |-> FixedUp(t)]
         ok == \A e \in broken : \A i \in DOMAIN after[e.table] :
                 after[e.table][i][e] \in DOMAIN after[e.on] \cup {0} IN
     /\ fresh' = IF ok THEN after ELSE fresh
     /\ step' = IF ok THEN "restored" ELSE "failed"
  /\ UNCHANGED <<planVars, live, file, damaged, todo, writes, torn>>

\* The application inserts a row, or deletes one nothing refers to.
AppWrite(t, i) ==
  /\ step = "dump" /\ writes < MaxWrites
  /\ writes' = writes + 1
  /\ torn' = (torn \/ todo # order)
  /\ \/ /\ i \notin DOMAIN live[t]
        /\ \E r \in [KeysOf(t) -> Ids \cup {0}] :
             live' = [live EXCEPT ![t] = [j \in DOMAIN @ \cup {i} |-> IF j = i THEN r ELSE @[j]]]
     \/ /\ i \in DOMAIN live[t]
        /\ live' = [live EXCEPT ![t] = [j \in DOMAIN @ \ {i} |-> @[j]]]
  /\ Consistent(live')
  /\ UNCHANGED <<planVars, file, damaged, fresh, todo, step>>

DumpStep ==
  \/ BreakKey \/ Refuse \/ Sort \/ DumpTable \/ Damage \/ Verify \/ InsertTable \/ FixUp
  \/ \E t \in Tables, i \in Ids : AppWrite(t, i)

DumpSpec == DumpInit /\ [][DumpStep]_dumpVars

-------------------------------------------------------------------------------
\* "Throws if a genuine cycle has no nullable edge to break" (lines 82-86), and only
\* then: reference definition of such a cycle.
RigidCycle ==
  \E S \in SUBSET Tables : S # {} /\ \A t \in S : \E e \in Schema :
    e.table = t /\ e.on \in S /\ ~e.nullable

RefusedForACycle ==
  /\ step = "refused" => RigidCycle
  /\ step \notin {"break", "refused"} => ~RigidCycle

\* A dump no write fell into restores to exactly the live rows, whatever foreign keys
\* there are and whichever of them were set aside; damage is seen (lines 239-244).
RestoreIsFaithful ==
  /\ step = "restored" => ~damaged /\ fresh = file /\ (torn \/ fresh = live)
  /\ step = "failed" => torn

\* "The local artifact's own checksum-verified integrity already proved correctness"
\* (backup.service.ts, lines 197-198): a dump that passes its check can be restored.
VerifiedRestores == step # "failed"
===============================================================================
