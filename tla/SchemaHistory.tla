--------------------------- MODULE SchemaHistory ----------------------------
(***************************************************************************)
(* What the runner of migrations promises, whoever starts and whatever     *)
(* stops: the history of a schema is written once, version after version,  *)
(* and a version is in it only with everything its script does.  Where the *)
(* database runs a script in a transaction, the schema is at every moment  *)
(* that of its history; elsewhere statements may run ahead of it.          *)
(***************************************************************************)
EXTENDS Naturals

CONSTANTS
  Content,  \* the contents a version may have
  Effects,  \* for each of them, what its script does to the schema
  Latest,   \* the number of versions
  Absent    \* the content of a version that was not applied

VARIABLES
  history,       \* the content applied as each version
  schema,        \* what the scripts have done
  transactional  \* whether the database runs a script as a whole

Versions == 1 .. Latest

Init ==
  /\ \E n \in 0 .. Latest :
       /\ history \in [Versions -> Content \cup {Absent}]
       /\ \A v \in Versions : history[v] # Absent <=> v <= n
  /\ schema = UNION {Effects[c] : c \in {history[v] : v \in Versions} \ {Absent}}
  /\ transactional \in BOOLEAN

\* Version v is the next one, and applied with content c.
Apply(v, c) ==
  /\ history[v] = Absent
  /\ \A u \in 1 .. v - 1 : history[u] # Absent
  /\ history' = [history EXCEPT ![v] = c]
  /\ IF transactional THEN schema' = schema \cup Effects[c]
     ELSE Effects[c] \subseteq schema /\ schema' = schema
  /\ UNCHANGED transactional

\* A statement of a script has an effect of its own.
RunAhead(c) ==
  /\ ~transactional
  /\ \E s \in Effects[c] : schema' = schema \cup {s}
  /\ UNCHANGED <<history, transactional>>

Next == \E c \in Content : RunAhead(c) \/ \E v \in Versions : Apply(v, c)

Spec == Init /\ [][Next]_<<history, schema, transactional>>
=============================================================================
