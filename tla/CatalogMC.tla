------------------------------ MODULE CatalogMC ------------------------------
(* A small instance of Catalog: two servers and a name that none may have. *)
EXTENDS Catalog, TLC

\* A server, another one, and a name that would make a:b:get ambiguous.
A == <<"a">>
C == <<"c">>
AB == <<"a", ":", "b">>

Get1 == <<"get">>
BGet == <<"b", ":", "get">>
Do == <<"do">>

OfferedNames == {A, C, AB}
OfferedBy == (A :> {Get1, BGet}) @@ (C :> {Do}) @@ (AB :> {Get1})
UpstreamText == (Get1 :> "other") @@ (BGet :> "none") @@ (Do :> "gets")
ReadNames == {Get1, BGet}

Sorted == <<A \o <<":">> \o BGet, A \o <<":">> \o Get1, C \o <<":">> \o Do>>

\* What may be imported: a plain configuration, one that spells out a default, one
\* of a bad name, one that refers to a server there is not, one with an override
\* that changes nothing.
Plain == [exposure |-> "passthrough", enabled |-> TRUE]
Imported ==
  {[NoConfig EXCEPT !.servers = (A :> Plain) @@ (C :> Plain)],
   [NoConfig EXCEPT !.servers = (A :> Plain), !.modes = (A :> "all")],
   [NoConfig EXCEPT !.servers = (AB :> Plain)],
   [NoConfig EXCEPT !.servers = (A :> Plain), !.policies = (C :> "all-safe")],
   [NoConfig EXCEPT !.servers = (A :> Plain) @@ (C :> Plain),
                    !.active = (A :> (Get1 :> TRUE)) @@ (C :> (Do :> FALSE))]}
=============================================================================
