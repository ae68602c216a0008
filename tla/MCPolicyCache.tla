---------------------------- MODULE MCPolicyCache ----------------------------
(* A finite instance of PolicyCache for TLC.                               *)
EXTENDS PolicyCache, TLC

CONSTANT other                  \* who a request says it is from

Named(service, resource, action) ==
  [service |-> service, resource |-> resource, action |-> action]

ReadPost == Named(<<"blog">>, <<"post">>, <<"read">>)

\* One target with two policies of the default priority that contradict
\* each other, and one before both that throws.
OneTarget == {ReadPost}
OneInput  == {other}
Rows == {PolicyRow(ReadPost, "ALLOW", 100, {other}, {}),
         PolicyRow(ReadPost, "DENY", 100, {other}, {}),
         PolicyRow(ReadPost, "ALLOW", 50, {}, {other})}

Symmetry == Permutations(Request)
=============================================================================
