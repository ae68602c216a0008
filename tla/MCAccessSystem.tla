--------------------------- MODULE MCAccessSystem ---------------------------
(* A finite instance of AccessSystem for TLC.                              *)
EXTENDS AccessSystem

\* PolicyGuard falls back on the path of the route for the resource, which
\* has the colon of its parameter in it: /posts/:id.
Blog     == <<"blog">>
Post     == <<"/posts/", "id">>
Services == {Blog}
ReadPost == [service |-> Blog, resource |-> Post, action |-> <<"read">>]
EditPost == [service |-> Blog, resource |-> Post, action |-> <<"edit">>]

\* POST authorize takes any names: these read like ReadPost once joined.
Other    == [service |-> Blog, resource |-> <<"/posts/">>, action |-> <<"id", "read">>]
Targets  == {ReadPost, EditPost, Other}
Inputs   == {"owner"}

\* May u1 read posts?
Queries == {[user |-> "u1", service |-> Blog, resource |-> Post, action |-> <<"read">>,
             id |-> NoId, rules |-> DefaultRules, context |-> << >>, input |-> "owner"]}

\* A policy that allows reading, and one that throws for the target of the
\* same key; nobody wrote one for editing.
Rows == {PolicyRow(ReadPost, "ALLOW", 100, {"owner"}, {}),
         PolicyRow(Other, "DENY", 100, {}, {"owner"})}

\* PBAC decides alone; with other models around it is in MCAuthorizationEngine.
Configs == {<<"PBAC">>}
=============================================================================
