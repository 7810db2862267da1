------------------------- MODULE MCDriverLifecycle -------------------------
(***************************************************************************)
(* Registries of three drivers: well formed ones (a chain that is declared *)
(* in the wrong order, providers of a shared capability, more capabilities *)
(* than the table holds), cycles through drivers, through a capability and *)
(* of one driver, one registry for every error of build_registry, and the  *)
(* registries of every relation "requires" among three drivers.            *)
(***************************************************************************)
EXTENDS DriverLifecycle

Three == <<"a", "b", "c">>
Functions(s) == [k \in DOMAIN s |-> <<s[k], "function">>]
Provides(s) == [k \in DOMAIN s |-> <<s[k][1], s[k][2], "resolve">>]

R(drivers, requires, needs, provides) ==
    [drivers |-> drivers, init |-> Functions(drivers), exit |-> Functions(drivers),
     requires |-> requires, needs |-> needs, provides |-> Provides(provides)]

Chain == R(Three, <<<<"a", "b">>, <<"b", "c">>>>, <<<<"a", "x">>>>, <<<<"c", "x">>>>)
Shared == [R(Three, <<<<"b", "c">>>>, <<<<"a", "y">>>>, <<<<"b", "y">>, <<"c", "y">>>>)
             EXCEPT !.init = Functions(<<"a", "c">>), !.exit = Functions(<<"a", "b">>)]
Crowded == R(Three, <<>>, <<<<"c", "y">>>>, <<<<"a", "y">>, <<"b", "x">>, <<"b", "y">>>>)

Sound == {Chain, Shared, Crowded}

Circular ==
    {R(Three, <<<<"a", "b">>, <<"b", "c">>, <<"c", "a">>>>, <<>>, <<>>),
     R(Three, <<<<"b", "c">>>>, <<<<"c", "x">>>>, <<<<"b", "x">>>>),
     R(Three, <<<<"c", "c">>>>, <<>>, <<>>)}

Broken ==
    {R(<<"a", "b", "a">>, <<>>, <<>>, <<>>),
     R(<<"a", "b", "c", "d">>, <<>>, <<>>, <<>>),
     R(<<"a", NULL>>, <<>>, <<>>, <<>>),
     R(Three, <<<<"a", "d">>>>, <<>>, <<>>),
     R(Three, <<<<"d", "a">>>>, <<>>, <<>>),
     R(Three, <<>>, <<<<"a", "x">>>>, <<>>),
     R(Three, <<>>, <<>>, <<<<"a", "x">>, <<"b", "x">>>>),
     R(Three, <<>>, <<>>, <<<<"d", "x">>>>),
     [Chain EXCEPT !.init = Functions(<<"a", "b", "a">>)],
     [Chain EXCEPT !.exit = Functions(<<"a", "b", "a">>)],
     [Chain EXCEPT !.init = Functions(<<"d">>)],
     [Chain EXCEPT !.exit = <<<<"a", NULL>>>>]}

Pairs == [n \in 0 .. 8 |-> <<Three[(n \div 3) + 1], Three[(n % 3) + 1]>>]
Relations ==
    {R(Three, SelectSeq([n \in 1 .. 9 |-> Pairs[n - 1]], LAMBDA e : e \in edges), <<>>, <<>>) :
       edges \in SUBSET {Pairs[n] : n \in 0 .. 8}}

MCRegistries == Relations \cup Sound \cup Circular \cup Broken
=============================================================================
