--------------------------- MODULE MCServiceRegistry ---------------------------
(* Finite instances of ServiceRegistry for TLC.                            *)
EXTENDS ServiceRegistry

Config(models, resources) ==
  [enabledModels |-> models, resources |-> resources, actions |-> <<"read">>]

\* Three configurations of one service that differ in one or both of two
\* columns, so that an update can touch either of them alone.
Configs == {Config(<<"RBAC">>, <<"post">>), Config(<<"RBAC", "ACL">>, <<"post">>),
            Config(<<"RBAC">>, <<"post", "comment">>)}

Symmetry == Permutations(Request)
=============================================================================
