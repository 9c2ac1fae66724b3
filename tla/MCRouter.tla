------------------------------ MODULE MCRouter ------------------------------
(* Two spellings of one method and one of another; directories a, b and ab *)
(* and the empty one; two tags, of which <(b)> finds a b anywhere, as two  *)
(* groups, and <> anything.  The routes shadow each other in every way: a  *)
(* directory before a tag, a tag before a tag, in the first and in the     *)
(* second directory, and a route that ends where another goes on.          *)
EXTENDS Router, TLC

MCNames == {"get", "GET", "PUT"}

MCUpper == [n \in MCNames |-> IF n = "get" THEN "GET" ELSE n]

MCTagB == <<"<", "(", "b", ")", ">">>

MCTagAny == <<"<", ">">>

MCTagOrder == <<MCTagB, MCTagAny>>

MCDirs == {<<>>, <<"a">>, <<"b">>, <<"a", "b">>}

MCGroups ==
  (<<"(", "(", "b", ")", ")">> :>
      [d \in MCDirs |-> IF d \in {<<"b">>, <<"a", "b">>}
                          THEN << <<"b">>, <<"b">> >> ELSE NoMatch])
  @@ (<<"(", ".*", ")">> :> [d \in MCDirs |-> <<d>>])

MCRoutes ==
  {<<"/", "a">>, <<"a", "/", "b">>, <<"/">> \o MCTagAny,
   <<"/">> \o MCTagAny \o <<"/", "b">>, <<"/">> \o MCTagB \o <<"/", "a">>,
   <<"/">> \o MCTagAny \o <<"/">> \o MCTagB}

MCPaths ==
  {<<"/">>, <<"/", "a">>, <<"b">>, <<"/", "a", "/", "b">>,
   <<"/", "b", "/", "a">>, <<"/", "b", "/", "b">>, <<"/", "a", "/", "a", "b">>}

MCSymbols == {"a", "/", "<", ">", "\\"}

=============================================================================
