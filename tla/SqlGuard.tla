------------------------------ MODULE SqlGuard ------------------------------
(***************************************************************************)
(* validate_select_only and apply_row_cap on what they look at of a        *)
(* syntax tree, and, to compare them with, which tables PostgreSQL reads   *)
(* for such a statement.  A query is                                       *)
(*   form   what sqlglot makes of the text,                                *)
(*   ctes   its common table expressions, each with an alias and a body,   *)
(*   body   the rest: the tables it names, as [schema, name], the columns  *)
(*          of its projections, "*" for a bare star among them and "ads.*" *)
(*          for the star of one table, the functions it calls,             *)
(*   limit  the outermost limit: none, a LIMIT that is a number, one that  *)
(*          is an expression, or a FETCH FIRST.                            *)
(* Names are in lower case; a set operation is one body.                   *)
(***************************************************************************)
EXTENDS Naturals, Sequences

CONSTANTS
    AdsTables,        \* ALLOWED_TABLES
    BlockedFunctions, \* BLOCKED_FUNCTIONS
    MaxRows           \* MAX_ROWS

ASSUME GuardAssumption == MaxRows \in Nat \ {0}

Bodies(q) == {q.ctes[n].body : n \in DOMAIN q.ctes} \cup {q.body}
Aliases(q) == {q.ctes[n].alias : n \in DOMAIN q.ctes}

\* validate_select_only
Queryable(t) == t.schema \in {"", "public"} /\ t.name \in AdsTables
TablesAllowed(q) ==
    \A b \in Bodies(q) : \A t \in b.tables : t.name \in Aliases(q) \/ Queryable(t)
\* SELECT * is turned down, SELECT ads.* is not.
ColumnsAllowed(q) == \A b \in Bodies(q) : b.columns \cap {"*", "id"} = {}
FunctionsAllowed(q) == \A b \in Bodies(q) : b.functions \cap BlockedFunctions = {}
\* _check_tables not called.
AcceptsAnyTable(q) == q.form = "select" /\ ColumnsAllowed(q) /\ FunctionsAllowed(q)
Accepts(q) ==
    /\ q.form = "select"
    /\ TablesAllowed(q) /\ ColumnsAllowed(q) /\ FunctionsAllowed(q)

\* apply_row_cap: all but a number behind LIMIT is replaced by the cap, the
\* number of a FETCH FIRST too.
RowCap(q) ==
    IF q.limit.kind = "number" /\ q.limit.n <= MaxRows THEN q.limit.n ELSE MaxRows

----------------------------------------------------------------------------
(* The reference. *)

\* An alias is in scope in the expressions behind its own and in the body,
\* and a name with a schema is never an alias.
IsTable(t, scope) == t.schema # "" \/ t.name \notin scope
ReadsOf(b, scope) == {t \in b.tables : IsTable(t, scope)}
Scope(q, n) == {q.ctes[m].alias : m \in {k \in DOMAIN q.ctes : k < n}}
TablesRead(q) ==
    ReadsOf(q.body, Aliases(q)) \cup
    UNION {ReadsOf(q.ctes[n].body, Scope(q, n)) : n \in DOMAIN q.ctes}
\* The tables it reads besides the ads tables.
Strays(q) == {t \in TablesRead(q) : ~Queryable(t)}

\* The rows the query itself asks for, of `size' without any limit; an
\* expression has the value n.
Asked(q, size) ==
    IF q.limit.kind # "none" /\ q.limit.n < size THEN q.limit.n ELSE size
=============================================================================
