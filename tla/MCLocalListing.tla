--------------------------- MODULE MCLocalListing ---------------------------
(* LocalListing with names on whose order the two comparisons agree or not. *)
EXTENDS LocalListing

\* Files beside and inside directories, some of them at a second level.
MCPaths == {<<"a">>, <<"a", "b">>, <<"a", "c">>, <<"b", "a", "b">>, <<"b", "b">>, <<"c">>}

\* Lower-case names: both comparisons order them in the same way.
MCAgreeing == "" :> 0 @@ "a" :> 1 @@ "b" :> 2 @@ "c" :> 3

\* An upper-case name: localeCompare puts it last, its code units come first.
MCMixedPaths  == {<<"a">>, <<"B">>}
MCMixedLocale == "" :> 0 @@ "a" :> 1 @@ "B" :> 2
MCMixedCode   == "" :> 0 @@ "B" :> 1 @@ "a" :> 2
=============================================================================
