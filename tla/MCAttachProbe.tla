--------------------------- MODULE MCAttachProbe ---------------------------
(***************************************************************************)
(* Model-checking instance of AttachProbe: five function symbols of four   *)
(* names, one of them twice, and a data symbol; b and d have one hash, and *)
(* a and c are aliases of one address.  Symbol 5 and c are local.          *)
(***************************************************************************)
EXTENDS AttachProbe, TLC

MCSymbols  == 1 .. 6
MCFuncSyms == 1 .. 5
MCName     == <<"a", "b", "c", "d", "a", "v">>
MCBind     == <<"global", "global", "local", "global", "local", "global">>
MCHash     == ("a" :> 11) @@ ("b" :> 12) @@ ("c" :> 13) @@ ("d" :> 12) @@ ("v" :> 14)
MCAddress  == ("a" :> 101) @@ ("b" :> 102) @@ ("c" :> 101) @@ ("d" :> 104) @@ ("v" :> 105)

Nothing == [bindExclude |-> {}, bindInclude |-> {NoFilter},
            exclude |-> {}, include |-> {NoFilter}]

\* No filter; each pattern alone; both, with a name that matches both, and with
\* nothing left; and the lists of binds, which only the package's options set.
MCFilters ==
  { Nothing,
    [Nothing EXCEPT !.exclude = {"b"}],
    [Nothing EXCEPT !.include = {"a", "d", "v"}],
    [Nothing EXCEPT !.include = {"a", "b", "c"}, !.exclude = {"a"}],
    [Nothing EXCEPT !.include = {"c"}, !.exclude = {"c"}],
    [Nothing EXCEPT !.bindExclude = {"local"}],
    [Nothing EXCEPT !.bindInclude = {"local"}, !.exclude = {"c"}] }
=============================================================================
