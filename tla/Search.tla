------------------------------- MODULE Search -------------------------------
(***************************************************************************)
(* A person walks through the pages of a structured search, each asked for *)
(* with the cursor the one before returned, while records are created,     *)
(* updated and closed.  Both stores are modelled: PostgreSQL continues     *)
(* after the key of the cursor's record, which it reads in a statement of  *)
(* its own; the in-memory store after the place of that record in a list   *)
(* it sorts anew.                                                          *)
(***************************************************************************)
EXTENDS Orders, SequencesExt

CONSTANTS
  Ids,          \* the records of one namespace and type, in the order of their uuids
  Values,       \* what the field of a record can hold
  Filters,      \* the filters that are tried, Null for none
  Limits,       \* the --limit of a search
  MaxChanges,   \* bound: how often records change
  Null

ASSUME SearchConstants ==
  /\ Ids \subseteq Nat /\ IsFiniteSet(Ids)
  /\ Values \subseteq [key : Nat, json : Nat]
  /\ Limits \subseteq 1..50 /\ MaxChanges \in Nat
  /\ Null \notin Nat \cup Values \cup Filters

VARIABLES
  store,    \* which of the two stores is searched
  value,    \* the field in each record's payload, Null where it is absent
  active,   \* the records a search may find now
  gone,     \* the records that were deleted or have expired
  changes,  \* how often records changed
  pager,    \* the walk: its options, the cursor, and what it has shown
  steady,   \* the results that have not changed since the walk began
  moved     \* whether the cursor's record changed while it marked the place

vars == <<store, value, active, gone, changes, pager, steady, moved>>
data == <<store, value, active, gone, changes>>

Idle == [pc |-> "idle"]

Pager ==
  [pc : {"next", "read", "done", "raised", "failed"},
   limit : Limits, sort : BOOLEAN, descending : BOOLEAN, filter : Filters \cup {Null},
   cursor : Ids \cup {Null}, key : {v.key : v \in Values} \cup {Null},
   shown : Seq(Ids)]

\* The types of the variables; a page is resumed only at a record shown last.
TypeOK ==
  /\ store \in {"postgres", "memory"}
  /\ value \in [Ids -> Values \cup {Null}]
  /\ active \subseteq Ids /\ gone \subseteq Ids \ active
  /\ changes \in 0..MaxChanges
  /\ \/ pager = Idle
     \/ /\ pager \in Pager
        /\ pager.cursor # Null => pager.cursor = Last(pager.shown)
        /\ pager.pc = "read" => pager.sort /\ pager.cursor # Null
  /\ steady \subseteq active /\ moved \in BOOLEAN

Init ==
  /\ store \in {"postgres", "memory"}
  /\ active \in SUBSET Ids
  /\ value \in [Ids -> Values \cup {Null}]
  /\ \A i \in Ids \ active : value[i] = Null
  /\ gone = {} /\ changes = 0
  /\ pager = Idle /\ steady = {} /\ moved = FALSE

----------------------------------------------------------------------------
(* Filters: one operator and one bound, already validated *)

Ordered == {"gt", "gte", "lt", "lte"}

Compares(op, a, b) ==
  \/ op = "gt" /\ a > b
  \/ op = "gte" /\ a >= b
  \/ op = "lt" /\ a < b
  \/ op = "lte" /\ a <= b
  \/ op = "eq" /\ a = b
  \/ op = "ne" /\ a # b

\* An absent field compares as NULL; ne is coalesced to true.
PassesSql(filter, v) ==
  IF filter = Null THEN TRUE
  ELSE IF v = Null THEN filter.op = "ne"
  ELSE Compares(filter.op, v.json, filter.bound.json)

\* None equals no bound; None > bound is a TypeError, see Fails.
PassesMemory(filter, v) ==
  IF filter = Null THEN TRUE
  ELSE IF v = Null THEN filter.op = "ne"
  ELSE Compares(filter.op, v.json, filter.bound.json)

Fails(filter) ==
  /\ filter # Null /\ filter.op \in Ordered
  /\ \E i \in active : value[i] = Null

FoundSql(filter) == {i \in active : PassesSql(filter, value[i])}
FoundMemory(filter) == {i \in active : PassesMemory(filter, value[i])}

----------------------------------------------------------------------------
(* One page of each store *)

Beyond(descending, a, b) == IF descending THEN a < b ELSE a > b

AfterKey(i, descending, cursor, key) ==
  /\ value[i] # Null
  /\ \/ Beyond(descending, value[i].key, key)
     \/ value[i].key = key /\ Beyond(descending, i, cursor)

\* Mutant of AfterCursor: the clause for absent fields is missing.
AfterCursorPresent(i, sort, descending, cursor, key) ==
  \/ cursor = Null
  \/ ~sort /\ Beyond(descending, i, cursor)
  \/ sort /\ key = Null /\ value[i] = Null /\ Beyond(descending, i, cursor)
  \/ sort /\ key # Null /\ AfterKey(i, descending, cursor, key)

\* The keyset condition of the WHERE clause.
AfterCursor(i, sort, descending, cursor, key) ==
  \/ cursor = Null
  \/ ~sort /\ Beyond(descending, i, cursor)
  \/ sort /\ value[i] = Null /\ (key = Null => Beyond(descending, i, cursor))
  \/ sort /\ key # Null /\ AfterKey(i, descending, cursor, key)

\* ORDER BY key NULLS LAST, id; or ORDER BY id.
SqlBefore(sort, descending, i, j) ==
  IF ~sort \/ value[i] = value[j] THEN Beyond(descending, j, i)
  ELSE IF value[i] = Null \/ value[j] = Null THEN value[j] = Null
  ELSE IF value[i].key = value[j].key THEN Beyond(descending, j, i)
  ELSE Beyond(descending, value[j].key, value[i].key)

SqlOrder(sort, descending) ==
  {p \in Ids \X Ids : SqlBefore(sort, descending, p[1], p[2])}

PageSql(limit, filter, sort, descending, cursor, key) ==
  FirstOf(Sorted({i \in FoundSql(filter) : AfterCursor(i, sort, descending, cursor, key)},
                 SqlOrder(sort, descending)), limit)

\* present.sort(key), missing.sort(id), both reversed where descending.
SortedMemory(found, sort, descending) ==
  LET present == {i \in found : value[i] # Null}
      less(i, j) == \/ value[i].key < value[j].key
                    \/ value[i].key = value[j].key /\ i < j
      byKey == {p \in Ids \X Ids :
                  IF descending THEN less(p[2], p[1]) ELSE less(p[1], p[2])}
      byId == {p \in Ids \X Ids : Beyond(descending, p[2], p[1])}
  IN IF sort THEN Sorted(present, byKey) \o Sorted(found \ present, byId)
     ELSE Sorted(found, byId)

PageMemory(limit, filter, sort, descending, cursor) ==
  LET matches == SortedMemory(FoundMemory(filter), sort, descending)
      place == IF cursor = Null THEN 0
               ELSE CHOOSE n \in DOMAIN matches : matches[n] = cursor
  IN FirstOf(SubSeq(matches, place + 1, Len(matches)), limit)

----------------------------------------------------------------------------
(* The walk *)

KeyOf(i) == IF value[i] = Null THEN Null ELSE value[i].key

Found(filter) ==
  IF store = "postgres" THEN FoundSql(filter) ELSE FoundMemory(filter)

Start(limit, sort, descending, filter) ==
  /\ pager = Idle
  /\ pager' = [pc |-> "next", limit |-> limit, sort |-> sort,
               descending |-> descending, filter |-> filter, cursor |-> Null, key |-> Null, shown |-> <<>>]
  /\ steady' = Found(filter)
  /\ UNCHANGED <<data, moved>>

At(pc) == pager # Idle /\ pager.pc = pc

\* A full page comes with a cursor, its last record.
Show(page) ==
  pager' = [pager EXCEPT !.shown = @ \o page, !.key = Null,
                         !.cursor = IF Len(page) = pager.limit THEN Last(page) ELSE Null,
                         !.pc = IF Len(page) = pager.limit THEN "next" ELSE "done"]

\* With a sort, the first statement reads the key of the cursor's record.
ReadCursor ==
  /\ store = "postgres"
  /\ At("next") /\ pager.sort /\ pager.cursor # Null
  /\ pager' = IF pager.cursor \in FoundSql(pager.filter)
              THEN [pager EXCEPT !.pc = "read", !.key = KeyOf(pager.cursor)]
              ELSE [pager EXCEPT !.pc = "raised"]
  /\ UNCHANGED <<data, steady, moved>>

ReadPage ==
  /\ store = "postgres"
  /\ \/ At("read")
     \/ At("next") /\ ~(pager.sort /\ pager.cursor # Null)
  /\ Show(PageSql(pager.limit, pager.filter, pager.sort, pager.descending, pager.cursor, pager.key))
  /\ UNCHANGED <<data, steady, moved>>

\* Mutant of ReadMemory: a cursor that is not found begins anew.
ReadMemoryAnew ==
  LET cursor == IF pager.cursor \in FoundMemory(pager.filter)
                THEN pager.cursor ELSE Null
  IN /\ store = "memory"
     /\ At("next") /\ ~Fails(pager.filter)
     /\ Show(PageMemory(pager.limit, pager.filter, pager.sort, pager.descending, cursor))
     /\ UNCHANGED <<data, steady, moved>>

\* A filter that fails ends the search with a TypeError, a cursor whose record
\* is not found with a CommandError.
ReadMemory ==
  /\ store = "memory"
  /\ At("next")
  /\ IF Fails(pager.filter)
     THEN pager' = [pager EXCEPT !.pc = "failed"]
     ELSE IF pager.cursor \notin FoundMemory(pager.filter) \cup {Null}
     THEN pager' = [pager EXCEPT !.pc = "raised"]
     ELSE Show(PageMemory(pager.limit, pager.filter, pager.sort, pager.descending, pager.cursor))
  /\ UNCHANGED <<data, steady, moved>>

Page == ReadCursor \/ ReadPage \/ ReadMemory

----------------------------------------------------------------------------
(* Meanwhile *)

\* What the walk may not be blamed for.
Disturbed(i) ==
  /\ steady' = steady \ {i}
  /\ moved' = (moved \/ (At("next") /\ pager.cursor = i))
  /\ changes < MaxChanges /\ changes' = changes + 1
  /\ UNCHANGED <<store, pager>>

Create(i, v) ==
  /\ i \notin active \cup gone
  /\ active' = active \cup {i}
  /\ value' = [value EXCEPT ![i] = v]
  /\ Disturbed(i)
  /\ UNCHANGED gone

Update(i, v) ==
  /\ i \in active /\ v # value[i]
  /\ value' = [value EXCEPT ![i] = v]
  /\ Disturbed(i)
  /\ UNCHANGED <<active, gone>>

\* A delete, an expiry, or the end of the record's window.
Close(i) ==
  /\ i \in active
  /\ active' = active \ {i} /\ gone' = gone \cup {i}
  /\ Disturbed(i)
  /\ UNCHANGED value

Next ==
  \/ \E limit \in Limits, sort, descending \in BOOLEAN, filter \in Filters \cup {Null} :
       Start(limit, sort, descending, filter)
  \/ Page
  \/ \E i \in Ids :
       \/ \E v \in Values \cup {Null} : Create(i, v) \/ Update(i, v)
       \/ Close(i)

Spec == Init /\ [][Next]_vars

----------------------------------------------------------------------------
(* Properties *)

Times(i) == Cardinality({n \in DOMAIN pager.shown : pager.shown[n] = i})

ShownOnce == \A i \in steady : Times(i) = 1

\* A walk that ends has shown every record that did not change exactly once,
\* whatever was created, updated or closed around it and wherever the pages
\* happened to end; in the order of ids none is shown twice.  With a sort the
\* record that marks the place must not change (store.py:1418).
NoneMissed ==
  /\ TypeOK
  /\ At("done") /\ (moved => ~pager.sort) => ShownOnce
  /\ pager # Idle /\ ~pager.sort => IsInjective(pager.shown)

\* The keyset condition of one store and the list index of the other cut the
\* same page out of the same records, for every sort, direction, filter and
\* cursor, absent fields and equal keys included (the records are any before a
\* walk begins).
PagesAgree ==
  pager = Idle =>
  \A limit \in Limits, sort, descending \in BOOLEAN, filter \in Filters \cup {Null} :
    ~Fails(filter) =>
      \A cursor \in FoundMemory(filter) \cup {Null} :
        PageSql(limit, filter, sort, descending, cursor,
                IF cursor = Null THEN Null ELSE KeyOf(cursor))
          = PageMemory(limit, filter, sort, descending, cursor)

=============================================================================
