------------------------------- MODULE SymMap -------------------------------
(***************************************************************************)
(* What mudlle's tables promise (runtime/symbol.c): a table is a set of    *)
(* symbols of which no two have the same name, where a ctable tells names  *)
(* apart by case and accent and a table does not.  Values live in the      *)
(* symbols, so tables that share a symbol share its value.                 *)
(***************************************************************************)
CONSTANTS Tables,     \* variables of the program that hold a table
          Names, Symbols,
          NameOf,     \* the name of each symbol
          Folded,     \* each name without case and accents
          Values,     \* what a symbol may hold, NULL among it
          NULL

VARIABLES table,      \* [ctable, readonly, entries] of each table
          data,       \* the value of each symbol
          readonly    \* whether each symbol is read-only

mapvars == <<table, data, readonly>>

Key(ctable, n) == IF ctable THEN n ELSE Folded[n]
Distinct(ctable, S) == \A s, z \in S : s = z \/ Key(ctable, NameOf[s]) # Key(ctable, NameOf[z])
Found(t, n) == {s \in table[t].entries : Key(table[t].ctable, NameOf[s]) = Key(table[t].ctable, n)}
Used == UNION {table[t].entries : t \in Tables}
Unused(n) == {s \in Symbols \ Used : NameOf[s] = n}

Init == /\ \E kind \in [Tables -> BOOLEAN] :
             table = [t \in Tables |-> [ctable |-> kind[t], readonly |-> FALSE, entries |-> {}]]
        /\ data = [s \in Symbols |-> NULL]
        /\ readonly = [s \in Symbols |-> FALSE]

Insert(t, s) == table' = [table EXCEPT ![t].entries = @ \cup {s}]
Fresh(s, v) == /\ data' = [data EXCEPT ![s] = v]
               /\ readonly' = [readonly EXCEPT ![s] = FALSE]

\* A new symbol is put in the table under a name it did not have
Create(t, n, v) == /\ ~table[t].readonly /\ Found(t, n) = {}
                   /\ \E s \in Unused(n) : Insert(t, s) /\ Fresh(s, v)

Assign(s, v) == /\ ~readonly[s]
                /\ data' = [data EXCEPT ![s] = v]
                /\ UNCHANGED <<table, readonly>>

Add(t, s) == /\ ~table[t].readonly /\ Found(t, NameOf[s]) = {}
             /\ Insert(t, s) /\ UNCHANGED <<data, readonly>>

Remove(t, n) == /\ ~table[t].readonly
                /\ table' = [table EXCEPT ![t].entries = @ \ Found(t, n)]
                /\ UNCHANGED <<data, readonly>>

Protect(t) == /\ table' = [table EXCEPT ![t].readonly = TRUE]
              /\ UNCHANGED <<data, readonly>>

ProtectSymbol(s) == /\ readonly' = [readonly EXCEPT ![s] = TRUE]
                    /\ UNCHANGED <<table, data>>

MakeSymbol(s, v) == /\ s \notin Used
                    /\ Fresh(s, v) /\ UNCHANGED table

\* The program drops table t for a new one
Make(t, new) == /\ table' = [table EXCEPT ![t] = new]
                /\ UNCHANGED <<data, readonly>>
                /\ Distinct(new.ctable, new.entries)

\* The non-null symbols of t are copied into a new table
Copy(t, u) ==
  \E f \in [{s \in table[t].entries : data[s] # NULL} ->
            Symbols \ UNION {table[w].entries : w \in Tables \ {u}}] :
    LET old == DOMAIN f
        New(s) == {z \in old : f[z] = s}
    IN /\ \A s \in old : NameOf[f[s]] = NameOf[s]
       /\ table' = [table EXCEPT ![u] = [ctable |-> table[t].ctable, readonly |-> FALSE,
                                         entries |-> {f[s] : s \in old}]]
       /\ data' = [s \in Symbols |-> IF New(s) = {} THEN data[s]
                                     ELSE data[CHOOSE z \in New(s) : TRUE]]
       /\ readonly' = [s \in Symbols |-> New(s) = {} /\ readonly[s]]

Next == \/ \E t \in Tables : Protect(t)
        \/ \E t \in Tables, n \in Names : Remove(t, n) \/ \E v \in Values : Create(t, n, v)
        \/ \E s \in Symbols : \/ ProtectSymbol(s)
                              \/ \E t \in Tables : Add(t, s)
                              \/ \E v \in Values : Assign(s, v) \/ MakeSymbol(s, v)
        \/ \E t, u \in Tables : t # u /\ Copy(t, u)
        \/ \E t \in Tables : \E c, r \in BOOLEAN, S \in SUBSET Symbols :
             Make(t, [ctable |-> c, readonly |-> r, entries |-> S])

Spec == Init /\ [][Next]_mapvars
=============================================================================
