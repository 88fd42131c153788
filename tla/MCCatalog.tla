------------------------------ MODULE MCCatalog ------------------------------
(* Three catalogs with names that are patterns of each other, relations of     *)
(* each kind, rows with a value missing, and every pattern that reads them      *)
(* differently: none, a name, a wildcard, an escaped one, a quote.              *)
EXTENDS CatalogFunctions

Rel(c, tables) ==
  [tables |-> {[catalog |-> c, table_schema |-> <<"s">>, table_name |-> t[1], table_type |-> t[2]] : t \in tables},
   columns |-> {[catalog |-> c, table_schema |-> <<"s">>, table_name |-> t[1], column_name |-> n,
                 ordinal_position |-> IF t[2] = "VIEW" THEN Absent ELSE <<"1">>, is_nullable |-> IF n = <<"n">> THEN "YES" ELSE "NO"] :
                  t \in tables, n \in {<<"n">>, <<"n", "_">>}},
   table_privileges |-> {[catalog |-> c, table_schema |-> <<"s">>, table_name |-> t[1],
                          grantee |-> IF t[2] = "VIEW" THEN Absent ELSE <<"g">>, privilege |-> <<"SELECT">>] : t \in tables}]
Names == {<< <<"t", "_">>, "BASE TABLE">>, << <<"t", "x">>, "BASE TABLE">>, << <<"t">>, "VIEW">>,
          << <<"t", QUOTE>>, "BASE TABLE">>, << <<"t", "%">>, "MATERIALIZED VIEW">>}
MCSessionCatalog == <<"a", "b">>
MCWorld ==
  LET catalogs == {<<"a", "_">>, <<"a", "b">>, <<"a", QUOTE>>}
  IN [c \in catalogs |-> Rel(c, IF c = <<"a", "_">> THEN Names ELSE Names \union {<< <<"t", "b">>, "BASE TABLE">>})]

Catalogs == {<<>>, <<"%">>, <<"a", ESC, "_">>, <<"a", "_">>, <<"a", "b">>, <<"a", QUOTE>>, <<"z">>}
Patterns == {<<>>, <<"%">>, <<"t">>, <<"t", "_">>, <<"t", ESC, "_">>, <<"t", "%">>, <<"t", ESC, "%">>,
             <<"_", QUOTE>>, <<"t", QUOTE>>}
MCSearches ==
  [fn : {"tables"}, catalog : Catalogs, table_types : {{}, {"TABLE"}, {"VIEW", "TABLE"}},
   filters : [table_name : Patterns, table_schema : {<<>>}]]
  \union [fn : {"columns"}, catalog : Catalogs, table_types : {{}},
          filters : [table_name : Patterns, column_name : {<<>>, <<"n", ESC, "_">>}]]
  \union [fn : {"table_privileges"}, catalog : Catalogs, table_types : {{}}, filters : [table_name : Patterns]]
  \union [fn : {"catalogs", "schemas"}, catalog : {<<>>}, table_types : {{}}, filters : {[table_name |-> <<>>]}]
=============================================================================
