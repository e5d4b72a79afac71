------------------------------ MODULE MCDomainRoutes ----------------------------
(***************************************************************************)
(* DomainRoutes with two paths of one host, one of which has two services  *)
(* to choose from, or with that path alone.                                *)
(***************************************************************************)
EXTENDS DomainRoutes

SomeRoutes == {<<"p", "x">>, <<"p", "y">>, <<"q", "x">>}
OnePath == {<<"p", "x">>, <<"p", "y">>}
===============================================================================
