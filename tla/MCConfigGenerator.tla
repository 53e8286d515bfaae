------------------------- MODULE MCConfigGenerator -------------------------
(***************************************************************************)
(* Small inputs for ConfigGenerator.                                       *)
(***************************************************************************)
EXTENDS ConfigGenerator

Dashed == <<"a", "-", "b">>
Dotted == <<"a", ".", "b">>
Root == <<"/">>

TwoUpstreams == {Dashed, Dotted}
TwoRoutes == {<<"x">>, <<"y">>}
OnePath == {Root}
=============================================================================
