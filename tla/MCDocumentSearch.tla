-------------------------- MODULE MCDocumentSearch --------------------------
(***************************************************************************)
(* Model-checking instance of DocumentSearch.  The characters: a small and *)
(* a capital letter that fold together, another letter, one outside ASCII, *)
(* a punctuation mark and a space.                                         *)
(***************************************************************************)
EXTENDS DocumentSearch

SmallLower == [c \in {"a", "A", "b", "e'", "-", " "} |-> IF c = "A" THEN "a" ELSE c]

Queries == {<<"a">>, <<"A", "b">>, <<"b", " ", "a">>, <<"e'">>, <<"-">>, <<" ">>,
            <<"e'", " ", "a">>, <<"-", " ", "b">>, <<>>}
Lines   == {<<"a">>, <<"b", "A">>, <<"A", "-", "b">>, <<"e'", "a">>, <<"-">>, <<" ">>, <<>>}

SmallDocuments == {NoFile} \cup UNION {[1..n -> Lines] : n \in 0..3}

Calls == [prefix : {TRUE}, json : {"object"}, tool : {"search_documents"},
          args : [object : {TRUE}, query : Queries, max_results : {0, 1, 2, 21}]]

Others == [prefix : BOOLEAN, tool : {"search_documents", "unknown"},
           json : {"none", "scalar", "keys_no_object", "partial", "object"},
           args : [object : {FALSE}, query : {<<>>}, max_results : {0}]]

SmallReplies == Calls \cup Others
=============================================================================
