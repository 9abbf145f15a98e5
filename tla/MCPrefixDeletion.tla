-------------------------- MODULE MCPrefixDeletion --------------------------
(* PrefixDeletion on a handful of keys. *)
EXTENDS PrefixDeletion, TLC

\* The storage is confined to "r", the view to "t".  "r/pq" begins like the
\* prefix, somebody has stored keys with "..", and the name of "r/p\a" is normalised
\* to that of "r/p/a", which is not under the prefix "p\".
MCOrder ==
    << <<"r", "p", "..">>, <<"r", "p", "a">>, <<"r", "p\\a">>, <<"r", "pq">>,
       <<"r", "t", "p", "..">>, <<"r", "t", "p", "a">> >>

MCRoot       == <<"r">>
MCScopes     == {<<>>, <<"t">>}
MCPrefixes   == {<<"p">>, <<"p", "">>, <<"p\\">>, <<"", "">>, <<".">>}
MCRefused    == {".."}
MCBeginnings == {<<"p", "pq">>, <<"p", "p\\">>, <<"p", "p\\a">>, <<"p\\", "p\\a">>}
MCPieces     == "p\\" :> <<"p">> @@ "p\\a" :> <<"p", "a">>

\* A bucket with the object that a console makes for a folder.
MCMarkerOrder    == << <<"p">>, <<"p", "">>, <<"p", "a">> >>
MCMarkerPrefixes == {<<"p", "">>}
MCNoRoot         == <<>>
MCNoScope        == {<<>>}
MCNoPieces       == <<>>
=============================================================================
