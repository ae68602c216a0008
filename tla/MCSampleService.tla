--------------------------- MODULE MCSampleService ---------------------------
(* A finite instance of SampleService, with AccessTokens, for TLC.         *)
EXTENDS SampleService

\* One role of two services, and another one of another user.
Blog  == <<"blog">>
Wiki  == <<"wiki">>
Users == {"u1", "u2"}
Roles == {UserRole("u1", Role("editor", Blog)), UserRole("u1", Role("editor", Wiki)),
           UserRole("u2", Role("admin", Blog))}
Names == {"a", "b"}
=============================================================================
