----------------------------- MODULE MCSettings ------------------------------
(* A model-checking instance of Settings: a padding that the panel cuts to 32, a
   font family that is not written when it is empty, and lists of two hosts.  Every
   value is a sequence, for TLC to compare them. *)
EXTENDS Settings

MCValues ==
  [size |-> {<<"small">>, <<"large">>}, padding |-> {<<"8">>, <<"32">>, <<"40">>},
   family |-> {<<"mono">>, << >>},
   hosts |-> {<< >>, <<"a">>, <<"b">>, <<"a", "b">>, <<"new">>, <<"a", "new">>, <<"b", "new">>}]

MCDefault == [size |-> <<"small">>, padding |-> <<"8">>, family |-> <<"mono">>, hosts |-> << >>]

MCShown == [f \in Field |-> [v \in Values[f] |-> IF v = <<"40">> THEN <<"32">> ELSE v]]

MCUnwritten == [f \in Field |-> IF f = "family" THEN {<< >>} ELSE {}]

ByUser(size, padding, hosts, inline) ==
  Good([MCDefault EXCEPT !.size = <<size>>, !.padding = <<padding>>, !.hosts = hosts],
       TRUE, hosts, inline)

MCTexts ==
  {ByUser("small", "40", <<"a", "b">>, FALSE), ByUser("large", "8", <<"b">>, FALSE),
   ByUser("small", "8", <<"a">>, TRUE), Bad, Missing}
=============================================================================
