---------------------------- MODULE MemoryStore ----------------------------
(***************************************************************************)
(* The persistence contract of store/store.go as store/memory.go           *)
(* implements it: whole User and Role objects under their names.  Every    *)
(* method holds the store's mutex, so each is one atomic step; objects are *)
(* cloned on the way in and out, so a value read is never changed by a     *)
(* later write.  Slices of roles and permissions are sets: no caller       *)
(* depends on their order or on duplicates.                                *)
(***************************************************************************)
EXTENDS Permission

CONSTANTS
    UserIDs,      \* the non-empty user names callers use
    RoleIDs,      \* the non-empty role names callers use
    Permissions,  \* the permissions callers pass, well-formed or not
    Nil           \* an absent map entry, a nil pointer, the empty Parent

VARIABLES
    users,        \* users[id] is the stored User, or Nil
    roles         \* roles[name] is the stored Role, or Nil

User == [roles : SUBSET RoleIDs, direct : SUBSET Permissions]
Role == [permissions : SUBSET Permissions, parent : RoleIDs \cup {Nil}]

ASSUME NilAssumption ==
    /\ Nil \notin User /\ Nil \notin Role /\ Nil \notin RoleIDs
    /\ \A S \in SUBSET RoleIDs : Nil # S
    /\ \A S \in SUBSET Permissions : Nil # S

\* GetUser and GetRole return no error.
UserExists(id)   == users[id] # Nil
RoleExists(name) == roles[name] # Nil

\* The Parent of a stored role; Nil for a name with no role or no parent.
ParentOf(name) == IF RoleExists(name) THEN roles[name].parent ELSE Nil

StoreInit ==
    /\ users = [id \in UserIDs |-> Nil]
    /\ roles = [name \in RoleIDs |-> Nil]

StoreCreateUser(id, u) == ~UserExists(id) /\ users' = [users EXCEPT ![id] = u]
StoreUpdateUser(id, u) == UserExists(id) /\ users' = [users EXCEPT ![id] = u]
StoreDeleteUser(id)    == UserExists(id) /\ users' = [users EXCEPT ![id] = Nil]

StoreCreateRole(name, r) == ~RoleExists(name) /\ roles' = [roles EXCEPT ![name] = r]
StoreUpdateRole(name, r) == RoleExists(name) /\ roles' = [roles EXCEPT ![name] = r]
StoreDeleteRole(name)    == RoleExists(name) /\ roles' = [roles EXCEPT ![name] = Nil]

StoreTypeOK ==
    /\ users \in [UserIDs -> User \cup {Nil}]
    /\ roles \in [RoleIDs -> Role \cup {Nil}]
=============================================================================
