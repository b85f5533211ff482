----------------------------- MODULE StoreCalls -----------------------------
(***************************************************************************)
(* The calls a program makes on the store (src/store/mod.rs) and what      *)
(* each computes from the table, with nothing said of locks, connections   *)
(* or transactions.  A table maps every name to its value or to Absent.    *)
(* Values are JSON documents: the properties only tell them apart.         *)
(***************************************************************************)
EXTENDS Naturals, Sequences, FiniteSetsExt

CONSTANTS
  Names,        \* the primary keys of the table "store"
  Values,       \* the JSON values
  Null,         \* the JSON value null, which get also answers for no row
  Absent,       \* the mark of a name that has no row; not a value
  Workload,     \* the calls that are made
  Callback(_)   \* what the function given to update may return for old values

ASSUME ValuesAssumption ==
  /\ Null \in Values
  /\ Absent \notin Values

Table == [Names -> Values \cup {Absent}]

GetCalls    == [op : {"get"}, name : Names]
PutCalls    == [op : {"put"}, name : Names, value : Values]
DeleteCalls == [op : {"delete"}, name : Names]
ListCalls   == [op : {"list"}]
UpdateCalls == [op : {"update"}, names : Seq(Names), defaults : Seq(Values)]

ASSUME WorkloadAssumption ==
  Workload \subseteq
    GetCalls \cup PutCalls \cup DeleteCalls \cup ListCalls \cup UpdateCalls

NoCall == [op |-> "none"]

\* What a call answers: the values read or written, the number of rows a
\* statement affected, the names of all rows (with what is known of each, but
\* its value), or an error; Pending is no answer yet.
Result(vs)  == [kind |-> "values", values |-> vs]
Listed(ns)  == [kind |-> "names", names |-> ns]
Affected(n) == [kind |-> "affected", rows |-> n]
Failed      == [kind |-> "error"]
Pending     == [kind |-> "pending"]

Replies == [kind : {"values"}, values : Seq(Values)]
             \cup [kind : {"names"}, names : SUBSET Names]
             \cup {Affected(0), Affected(1), Failed, Pending}

\* Mutant: get answers the mark of a missing row.
LookupRaw(d, n) == d[n]

\* Store::get cannot tell a row that holds null from no row at all.
Lookup(d, n) == IF d[n] = Absent THEN Null ELSE d[n]

\* The names that have a row.
Present(d) == {n \in Names : d[n] # Absent}

\* The i-th value that update hands to its function: the row, else the i-th
\* default, the defaults being padded with null or cut to the names.
Fetched(d, u, i) ==
  IF d[u.names[i]] # Absent THEN d[u.names[i]]
  ELSE IF i <= Len(u.defaults) THEN u.defaults[i] ELSE Null

FetchedAll(d, u) == [i \in 1..Len(u.names) |-> Fetched(d, u, i)]

\* update stops at the end of the shorter of its names and its new values.
Rows(names, vs) == IF Len(names) <= Len(vs) THEN Len(names) ELSE Len(vs)

\* The table after the first k upserts: of two for one name the later stays.
Apply(d, names, vs, k) ==
  [n \in Names |->
     LET upserts == {i \in 1..k : names[i] = n}
     IN  IF upserts = {} THEN d[n] ELSE vs[Max(upserts)]]
=============================================================================
