------------------------------- MODULE MCValues -------------------------------
(***************************************************************************)
(* Two dictionaries with four Values between them.  The paths go down one, *)
(* two and three dictionaries and some have empty components, first,       *)
(* between dots and last.                                                  *)
(***************************************************************************)
EXTENDS Values, TLC

MCPaths ==
  {<<"a">>, <<"a", "a">>, <<"a", "">>, <<"", "a">>, <<"", "">>,
   <<"a", "a", "a">>, <<"a", "", "a">>, <<"", "a", "">>}
MCSymmetry == Permutations(Roots)
=============================================================================
