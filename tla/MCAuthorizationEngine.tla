----------------------- MODULE MCAuthorizationEngine -----------------------
(* Finite instances of AuthorizationEngine for TLC.                        *)
EXTENDS AuthorizationEngine

Blog == <<"blog">>
Wiki == <<"wiki">>
OneService  == {Blog}
TwoServices == {Blog, Wiki}

ReadPost == <<"blog", "post", "read">>

\* POST authorize: may u1 read post 7 of the blog?
Ask(rules, context, id) ==
  [user |-> "u1", service |-> Blog, resource |-> <<"post">>, action |-> <<"read">>,
   id |-> id, rules |-> rules, context |-> context, input |-> "u1"]

NoContext   == << >>
OwnerInBody == "resource.ownerId" :> "u1"
SameTeam    == {<<<<"user", "team">>, <<"resource", "team">>>>}

\* Each about one post and about posts in general, or about two posts.
PlainQueries == {Ask(DefaultRules, NoContext, id) : id \in {"7", NoId}}
TeamQueries  == {Ask(SameTeam, NoContext, id) : id \in {"7", NoId}}
OwnerQueries == {Ask(DefaultRules, OwnerInBody, id) : id \in {"7", "8"}}

\* A handler that requires blog.post.read, and passes the id of its route.
GuardCalls == {[user |-> "u1", permission |-> ReadPost, id |-> id,
                context |-> NoContext, input |-> "u1"] : id \in {"7", NoId}}

Acl7 == AclEntry("u1", <<"post">>, "7", ReadPost)
Team(team) == UserAttribute("u1", "team", team)
PostTeam(service, team) == ResourceAttribute(service, <<"post">>, "7", "team", team)
PostTarget == [service |-> Blog, resource |-> <<"post">>, action |-> <<"read">>]
PostTargets == {PostTarget}
Rule(effect, priority, throws) ==
  PolicyRow(PostTarget, effect, priority, {"u1"}, throws)

\* Roles of two services that hold the same permission.
Editors  == {Role("editor", Blog), Role("editor", Wiki)}
RoleRows == {UserRole("u1", role) : role \in Editors}
              \cup {RolePermission(role, ReadPost) : role \in Editors} \cup {Acl7}

\* Ids no two kinds of node share, and the same with a team named like the
\* organisation.
GraphRows == {Relationship(UserType, "u1", <<"post">>, "7"),
              Relationship(UserType, "u1", OrgType, "o1"),
              Relationship(OrgType, "o1", <<"post">>, "7"),
              Relationship(OrgType, "o2", <<"post">>, "7")}
MixedRows == {Relationship(UserType, "u1", OrgType, "o1"),
              Relationship(<<"team">>, "o1", <<"post">>, "7")}

\* Attributes that change hands, an ACL entry and policies that contradict
\* each other, one of which throws.
TeamRows  == {Team("red"), Team("blue"), PostTeam(Blog, "red"), PostTeam(Wiki, "red")}
ModelRows == TeamRows \cup {Acl7, Rule("ALLOW", 100, {}), Rule("DENY", 100, {"u1"})}

\* The endpoint takes known models only; the column is text[], and a row
\* written with SQL may name others, which the switch passes over.
GrantRows    == RoleRows \cup GraphRows
GrantConfigs == {<<"RBAC", "ReBAC", "ACL">>, <<"ACL", "LDAP">>}
GraphConfigs == {<<"ReBAC">>, <<"LDAP", "ReBAC">>}
TeamConfigs  == {<<"ABAC">>}
ModelConfigs == {<<"ACL", "PBAC", "ABAC">>, <<"LDAP">>, <<"ABAC", "ACL", "ACL">>}
=============================================================================
