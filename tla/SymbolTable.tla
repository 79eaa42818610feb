---------------------------- MODULE SymbolTable ----------------------------
(***************************************************************************)
(* class SymbolTable: numbers the tickers in the order they first appear.  *)
(* The operations of a table; TableFile gives them a life of their own and *)
(* BatBuffer uses them to number the tickers of its ticks.                 *)
(***************************************************************************)
EXTENDS Integers, Sequences, FiniteSets, Functions

CONSTANT INDEX_RANGE    \* values of a uint16_t

ASSUME IndexAssumption == INDEX_RANGE \in Nat \ {0}

VARIABLES
  table,        \* _table: the symbols added so far and their numbers
  index         \* _index: the next number

EmptyTable == [s \in {} |-> 0]

NewTable == table = EmptyTable /\ index = 0

ClearTable == table' = EmptyTable /\ index' = 0

\* Faulty variant: the number is taken after the counter has moved.
InsertNext(s) ==
  IF s \in DOMAIN table
  THEN UNCHANGED <<table, index>>
  ELSE /\ table' = [t \in DOMAIN table \cup {s} |->
                      IF t = s THEN (index + 1) % INDEX_RANGE ELSE table[t]]
       /\ index' = (index + 1) % INDEX_RANGE

\* Faulty variant: the counter is wider than the numbers.
InsertUnwrapped(s) ==
  IF s \in DOMAIN table
  THEN UNCHANGED <<table, index>>
  ELSE /\ table' = [t \in DOMAIN table \cup {s} |-> IF t = s THEN index ELSE table[t]]
       /\ index' = index + 1

\* The state of the table after Add( s ), and the number Add returns.
Insert(s) ==
  IF s \in DOMAIN table
  THEN UNCHANGED <<table, index>>
  ELSE /\ table' = [t \in DOMAIN table \cup {s} |-> IF t = s THEN index ELSE table[t]]
       /\ index' = (index + 1) % INDEX_RANGE

NumberOf(s) == IF s \in DOMAIN table THEN table[s] ELSE index

\* SymbolNode's operator<: the node with the larger number is the lesser one, so
\* that the queue's top has the smallest.
Before(s, t) == table[s] <= table[t]

\* Table(): the symbols popped from a priority queue.  Equal numbers would come
\* out in any order.
Lookups ==
  {lookup \in [1 .. Cardinality(DOMAIN table) -> DOMAIN table] :
     /\ IsInjective(lookup)
     /\ \A j, k \in DOMAIN lookup : j < k => Before(lookup[j], lookup[k])}
=============================================================================
