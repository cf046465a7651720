---------------------------- MODULE MC_ToolRound ----------------------------
(* TLC instance of ToolRound: queries with every reference a name can be -- a *)
(* table, another table, an alias of either or of neither, with and without a *)
(* schema -- in up to two common table expressions and the body, every kind   *)
(* of limit, and one of each thing the guard looks for elsewhere.             *)
EXTENDS ToolRound

Ref(schema, name) == [schema |-> schema, name |-> name]
Refs == {Ref("", "ads"), Ref("public", "ads"), Ref("", "other"), Ref("public", "other"),
         Ref("", "recent"), Ref("archive", "recent"), Ref("archive", "ads")}
Body(refs, columns, functions) == [tables |-> refs, columns |-> columns, functions |-> functions]
Plain(refs) == Body(refs, {"ad_id"}, {})
Cte(alias, refs) == [alias |-> alias, body |-> Plain(refs)]
Limit(kind, n) == [kind |-> kind, n |-> n]
Query(form, ctes, body, limit) == [form |-> form, ctes |-> ctes, body |-> body, limit |-> limit]
None == Limit("none", 0)

Ctes == {<<>>} \cup {<<Cte(a, {r})>> : a \in {"ads", "other", "recent"}, r \in Refs}
     \cup {<<Cte("recent", {r}), Cte("other", {s})>> : r, s \in {Ref("", "ads"), Ref("", "recent"), Ref("", "other")}}
Scoped == {Query("select", c, Plain({r}), None) : c \in Ctes, r \in Refs}
Ads == Plain({Ref("", "ads")})
Limited == {Query("select", <<>>, Ads, Limit(k, n)) : k \in {"number", "expression", "fetch"}, n \in 0 .. 3}
Odd == {Query("several", <<>>, Ads, None), Query("other", <<>>, Ads, None),
        Query("unparsed", <<>>, Ads, None),
        Query("select", <<>>, Body({Ref("", "ads")}, {"*"}, {}), None),
        Query("select", <<>>, Body({Ref("", "ads")}, {"ads.*"}, {}), None),
        Query("select", <<>>, Body({Ref("", "ads")}, {"id"}, {}), None),
        Query("select", <<>>, Body({Ref("", "ads")}, {}, {"pg_sleep"}), None)}
MCQueries == Scoped \cup Limited \cup Odd
=============================================================================
