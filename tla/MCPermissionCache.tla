-------------------------- MODULE MCPermissionCache --------------------------
(* TLC instance of PermissionCache: two roles that overlap in nothing.        *)
EXTENDS PermissionCache

MCRoles == {"viewer", "editor"}
MCPerms == {"read", "write"}
MCRolePerms == [r \in MCRoles |-> IF r = "viewer" THEN {"read"} ELSE {"write"}]
=============================================================================
