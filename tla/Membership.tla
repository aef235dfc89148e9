----------------------------- MODULE Membership -----------------------------
(***************************************************************************)
(* One place: its members, roles, invites, bans and timeouts.  Every       *)
(* mutation is one transaction that first locks the place's row, so each   *)
(* is one action here; the checks PlacesService makes before it only       *)
(* refuse requests and are left out.  Role names, ban reasons and clocks   *)
(* are abstracted: an expiry is a step of its own, and an id no row        *)
(* mentions any more stands for a fresh one.                               *)
(***************************************************************************)
EXTENDS Integers, FiniteSets

CONSTANTS
    Users,        \* accounts with a verified address
    Founder,      \* the user who creates the place
    Seeded,       \* the system roles of the instance
    CustomRoles,  \* ids of roles made later
    Positions,    \* positions a request may ask for
    Bundles,      \* permission sets a request may ask for
    Invites,      \* ids of invites
    UseLimits,    \* values of maxUses
    None          \* no role, no e-mail address, no invite

\* The permissions that guard an action below; "content" stands for the nine
\* that guard topics, posts, chat, voice and uploads.
PlacePermissions ==
    {"place.manage", "role.manage", "member.manage", "moderation.manage", "content"}

\* DEFAULT_PLACE_ROLES
SeedPosition == [Owner |-> 100, Admin |-> 80, Moderator |-> 50, Member |-> 10]
SeedGrants ==
    [Owner     |-> PlacePermissions,
     Admin     |-> PlacePermissions \ {"place.manage"},
     Moderator |-> {"member.manage", "moderation.manage", "content"},
     Member    |-> {"content"}]

Roles == Seeded \union CustomRoles

ASSUME MembershipAssumption ==
    /\ Founder \in Users
    /\ {"Owner", "Member"} \subseteq Seeded /\ Seeded \subseteq DOMAIN SeedPosition
    /\ CustomRoles \intersect DOMAIN SeedPosition = {}
    /\ Positions \subseteq Nat
    /\ Bundles \subseteq SUBSET PlacePermissions
    /\ UseLimits \subseteq Nat \ {0}
    /\ None \notin Users \union Roles \union Invites

VARIABLES
    archived,     \* places.archived_at is set
    joinPolicy,   \* places.join_policy
    owner,        \* places.owner_user_id
    status,       \* place_members.status, "none" without a row
    memberRoles,  \* member_roles
    roles,        \* rows of roles
    position,     \* roles.position
    grants,       \* role_permissions
    invite,       \* invites that are neither revoked nor expired, or None
    banned,       \* users with a ban in force
    timedOut      \* users with a timeout in force

placeVars  == <<archived, joinPolicy, owner>>
memberVars == <<status, memberRoles>>
roleVars   == <<roles, position, grants>>
vars == <<placeVars, memberVars, roleVars, invite, banned, timedOut>>

Policies == {"open", "approval", "invite_only"}
Invite   == [role : Roles \union {None}, email : Users \union {None},
             maxUses : UseLimits, useCount : Nat]

\* PlacesRepository.create
Init ==
    /\ archived = FALSE
    /\ joinPolicy \in Policies
    /\ owner = Founder
    /\ status = [u \in Users |-> IF u = Founder THEN "active" ELSE "none"]
    /\ memberRoles = [u \in Users |-> IF u = Founder THEN {"Owner"} ELSE {}]
    /\ roles = Seeded
    /\ position = [r \in Roles |-> IF r \in Seeded THEN SeedPosition[r] ELSE 0]
    /\ grants = [r \in Roles |-> IF r \in Seeded THEN SeedGrants[r] ELSE {}]
    /\ invite = [i \in Invites |-> None]
    /\ banned = {}
    /\ timedOut = {}

-----------------------------------------------------------------------------
(* Authority.                                                              *)

Permissions(u) == UNION {grants[r] : r \in memberRoles[u]}

\* loadPlaceMutationPolicy: the permissions of an active member who is not
\* timed out, in a place that is not archived.
Can(a, permission) ==
    /\ ~archived
    /\ status[a] = "active"
    /\ a \notin timedOut
    /\ permission \in Permissions(a)

\* The actor's highest role is above position p, which is never negative.
Above(a, p) == \E r \in memberRoles[a] : position[r] > p

\* The actor's highest role is above the target's, 0 standing for no role.
Outranks(a, u) ==
    \E r \in memberRoles[a] :
        position[r] > 0 /\ \A s \in memberRoles[u] : position[s] < position[r]

CanManageRole_AnyGrant(a, p, bundle) ==   \* mutated: grants are not compared
    Can(a, "role.manage") /\ Above(a, p)
CanManageRole(a, p, bundle) ==
    /\ Can(a, "role.manage")
    /\ Above(a, p)
    /\ bundle \subseteq Permissions(a)

-----------------------------------------------------------------------------
(* Joining and leaving.                                                    *)

\* The invite a join may use: live, not used up, and not for someone else.
Usable_NoLimit(i, u) ==    \* mutated: the use count is not compared
    invite[i] # None /\ invite[i].email \in {None, u}
Usable(i, u) ==
    /\ invite[i] # None
    /\ invite[i].useCount < invite[i].maxUses
    /\ invite[i].email \in {None, u}

Admit(u, extra) ==
    /\ status' = [status EXCEPT ![u] = "active"]
    /\ memberRoles' = [memberRoles EXCEPT ![u] = @ \union {"Member"} \union extra]

\* Without an invite the place's policy decides.
JoinFreely(u) ==
    /\ \/ joinPolicy = "open" /\ Admit(u, {})
       \/ /\ joinPolicy = "approval"
          /\ status' = [status EXCEPT ![u] = "pending"]
          /\ UNCHANGED memberRoles
    /\ UNCHANGED invite

JoinByInvite(u, i) ==
    /\ Usable(i, u)
    /\ Admit(u, {invite[i].role} \ {None})
    /\ invite' = [invite EXCEPT ![i].useCount = @ + 1]

\* MembershipsRepository.join; a member who joins again is left as he is.
Join(u) ==
    /\ ~archived
    /\ u \notin banned
    /\ status[u] # "active"
    /\ JoinFreely(u) \/ \E i \in Invites : JoinByInvite(u, i)
    /\ UNCHANGED <<placeVars, roleVars, banned, timedOut>>

\* approve
Approve(a, u) ==
    /\ Can(a, "member.manage")
    /\ status[u] = "pending"
    /\ u \notin banned
    /\ Admit(u, {})
    /\ UNCHANGED <<placeVars, roleVars, invite, banned, timedOut>>

\* What leave, remove and ban do to the row of a member.
PutOut_ActiveOnly(u) ==    \* mutated: a pending request stays
    /\ status' = [status EXCEPT ![u] = IF @ = "active" THEN "left" ELSE @]
    /\ memberRoles' = [memberRoles EXCEPT ![u] = {}]
PutOut(u) ==
    /\ status' = [status EXCEPT ![u] = IF @ = "none" THEN "none" ELSE "left"]
    /\ memberRoles' = [memberRoles EXCEPT ![u] = {}]

\* leave
Leave(u) ==
    /\ ~archived
    /\ u # owner
    /\ status[u] = "active"
    /\ PutOut(u)
    /\ UNCHANGED <<placeVars, roleVars, invite, banned, timedOut>>

\* remove; a pending request is refused the same way.
Remove(a, u) ==
    /\ Can(a, "member.manage")
    /\ status[u] # "none"
    /\ u # owner
    /\ Outranks(a, u)
    /\ PutOut(u)
    /\ UNCHANGED <<placeVars, roleVars, invite, banned, timedOut>>

\* transferOwnership
HandOver_KeepsRole(u) ==    \* mutated: the former owner's role stays
    memberRoles' = [memberRoles EXCEPT ![owner] = @ \union {"Member"},
                                       ![u] = @ \union {"Owner"}]
HandOver(u) ==
    memberRoles' = [memberRoles EXCEPT ![owner] = (@ \ {"Owner"}) \union {"Member"},
                                       ![u] = @ \union {"Owner"}]

TransferOwnership(a, u) ==
    /\ ~archived
    /\ a = owner /\ status[a] = "active"
    /\ u # a /\ status[u] = "active"
    /\ owner' = u
    /\ HandOver(u)
    /\ UNCHANGED <<archived, joinPolicy, status, roleVars, invite, banned, timedOut>>

-----------------------------------------------------------------------------
(* Invites.                                                                *)

\* createInvite
CreateInvite(a, i, r, email, limit) ==
    /\ invite[i] = None
    /\ Can(a, "member.manage")
    /\ r # None => r \in roles /\ CanManageRole(a, position[r], grants[r])
    /\ invite' = [invite EXCEPT ![i] =
           [role |-> r, email |-> email, maxUses |-> limit, useCount |-> 0]]
    /\ UNCHANGED <<placeVars, memberVars, roleVars, banned, timedOut>>

\* revokeInvite
RevokeInvite(a, i) ==
    /\ Can(a, "member.manage")
    /\ invite[i] # None
    /\ invite' = [invite EXCEPT ![i] = None]
    /\ UNCHANGED <<placeVars, memberVars, roleVars, banned, timedOut>>

InviteExpires(i) ==
    /\ invite[i] # None
    /\ invite' = [invite EXCEPT ![i] = None]
    /\ UNCHANGED <<placeVars, memberVars, roleVars, banned, timedOut>>

-----------------------------------------------------------------------------
(* Bans and timeouts.  A ban by MembershipsRepository.ban and one by        *)
(* executeAction make the same checks and changes; the second needs a row  *)
(* of place_members.                                                       *)

Ban(a, u) ==
    /\ Can(a, "moderation.manage")
    /\ u # owner
    /\ status[u] # "none" => Outranks(a, u)
    /\ u \notin banned
    /\ banned' = banned \union {u}
    /\ PutOut(u)
    /\ UNCHANGED <<placeVars, roleVars, invite, timedOut>>

\* revokeBan
RevokeBan(a, u) ==
    /\ Can(a, "moderation.manage")
    /\ u \in banned
    /\ banned' = banned \ {u}
    /\ UNCHANGED <<placeVars, memberVars, roleVars, invite, timedOut>>

BanExpires(u) ==
    /\ u \in banned
    /\ banned' = banned \ {u}
    /\ UNCHANGED <<placeVars, memberVars, roleVars, invite, timedOut>>

\* applyMemberAction with a timeout
Timeout(a, u) ==
    /\ Can(a, "moderation.manage")
    /\ status[u] # "none"
    /\ u # owner
    /\ Outranks(a, u)
    /\ timedOut' = timedOut \union {u}
    /\ UNCHANGED <<placeVars, memberVars, roleVars, invite, banned>>

\* revokeSanction, of the last timeout in force
RevokeTimeout(a, u) ==
    /\ Can(a, "moderation.manage")
    /\ u \in timedOut
    /\ timedOut' = timedOut \ {u}
    /\ UNCHANGED <<placeVars, memberVars, roleVars, invite, banned>>

TimeoutExpires(u) ==
    /\ u \in timedOut
    /\ timedOut' = timedOut \ {u}
    /\ UNCHANGED <<placeVars, memberVars, roleVars, invite, banned>>

-----------------------------------------------------------------------------
(* Roles.                                                                  *)

SetRole(r, p, bundle) ==
    /\ position' = [position EXCEPT ![r] = p]
    /\ grants' = [grants EXCEPT ![r] = bundle]

\* create
CreateRole(a, r, p, bundle) ==
    /\ r \in CustomRoles \ roles
    /\ CanManageRole(a, p, bundle)
    /\ roles' = roles \union {r}
    /\ SetRole(r, p, bundle)
    /\ UNCHANGED <<placeVars, memberVars, invite, banned, timedOut>>

\* Roles a request may change or delete: not those with is_system.
Changeable_All == roles            \* mutated: is_system is not checked
Changeable     == roles \ Seeded

\* update: the actor must be above the role as it is and as it will be.
MayUpdate_OldOnly(a, r, p, bundle) ==    \* mutated: the new values are not checked
    r \in Changeable /\ CanManageRole(a, position[r], grants[r])
MayUpdate(a, r, p, bundle) ==
    /\ r \in Changeable
    /\ CanManageRole(a, position[r], grants[r])
    /\ CanManageRole(a, p, bundle)

UpdateRole(a, r, p, bundle) ==
    /\ MayUpdate(a, r, p, bundle)
    /\ SetRole(r, p, bundle)
    /\ UNCHANGED <<roles, placeVars, memberVars, invite, banned, timedOut>>

\* delete: invites lose the role, assignments go by ON DELETE CASCADE.
ClearInvites_Not(r) == UNCHANGED invite    \* mutated: invites keep the role
ClearInvites(r) ==
    invite' = [i \in Invites |->
                  IF invite[i] # None /\ invite[i].role = r
                  THEN [invite[i] EXCEPT !.role = None] ELSE invite[i]]

DeleteRole(a, r) ==
    /\ r \in Changeable
    /\ CanManageRole(a, position[r], grants[r])
    /\ roles' = roles \ {r}
    /\ SetRole(r, 0, {})
    /\ memberRoles' = [u \in Users |-> memberRoles[u] \ {r}]
    /\ ClearInvites(r)
    /\ UNCHANGED <<placeVars, status, banned, timedOut>>

\* assign
AssignRole(a, u, r) ==
    /\ status[u] = "active" /\ r \in roles
    /\ CanManageRole(a, position[r], grants[r])
    /\ Outranks(a, u)
    /\ memberRoles' = [memberRoles EXCEPT ![u] = @ \union {r}]
    /\ UNCHANGED <<placeVars, status, roleVars, invite, banned, timedOut>>

\* remove
RemoveRole(a, u, r) ==
    /\ r \in roles \ {"Owner"}
    /\ Can(a, "role.manage")
    /\ Above(a, position[r])
    /\ Outranks(a, u)
    /\ r \in memberRoles[u]
    /\ memberRoles' = [memberRoles EXCEPT ![u] = @ \ {r}]
    /\ UNCHANGED <<placeVars, status, roleVars, invite, banned, timedOut>>

-----------------------------------------------------------------------------
(* The place.                                                              *)

\* update
UpdatePlace(a, policy) ==
    /\ Can(a, "place.manage")
    /\ joinPolicy' = policy
    /\ UNCHANGED <<archived, owner, memberVars, roleVars, invite, banned, timedOut>>

\* archive: nothing restores an archived place.
Archive(a) ==
    /\ Can(a, "place.manage")
    /\ archived' = TRUE
    /\ UNCHANGED <<joinPolicy, owner, memberVars, roleVars, invite, banned, timedOut>>

\* Each group opens with the guard its actions share, which spares TLC their
\* parameters.
ManageRoles(a) ==
    /\ Can(a, "role.manage")
    /\ \/ \E r \in Roles, p \in Positions, bundle \in Bundles :
             CreateRole(a, r, p, bundle) \/ UpdateRole(a, r, p, bundle)
       \/ \E r \in Roles : DeleteRole(a, r)
       \/ \E u \in Users, r \in Roles : AssignRole(a, u, r) \/ RemoveRole(a, u, r)

ManageMembers(a) ==
    /\ Can(a, "member.manage")
    /\ \/ \E u \in Users : Approve(a, u) \/ Remove(a, u)
       \/ \E i \in Invites, r \in Roles \union {None}, email \in Users \union {None},
            limit \in UseLimits : CreateInvite(a, i, r, email, limit)
       \/ \E i \in Invites : RevokeInvite(a, i)

ManagePlace(a) ==
    \/ \E u \in Users : TransferOwnership(a, u)
    \/ \E policy \in Policies : UpdatePlace(a, policy)
    \/ Archive(a)

ModerateMembers(a) ==
    /\ Can(a, "moderation.manage")
    /\ \E u \in Users : Ban(a, u) \/ RevokeBan(a, u) \/ Timeout(a, u) \/ RevokeTimeout(a, u)

Lapses ==
    \/ \E i \in Invites : InviteExpires(i)
    \/ \E u \in Users : BanExpires(u) \/ TimeoutExpires(u)

Next ==
    \/ \E u \in Users : Join(u) \/ Leave(u)
    \/ \E a \in Users :
          ManageRoles(a) \/ ManageMembers(a) \/ ManagePlace(a) \/ ModerateMembers(a)
    \/ Lapses

Spec == Init /\ [][Next]_vars

-----------------------------------------------------------------------------
(* Properties.                                                             *)

\* The shape of the rows of a place.
TypeOK ==
    /\ archived \in BOOLEAN /\ joinPolicy \in Policies /\ owner \in Users
    /\ status \in [Users -> {"none", "pending", "active", "left"}]
    /\ memberRoles \in [Users -> SUBSET Roles]
    /\ Seeded \subseteq roles /\ roles \subseteq Roles
    /\ position \in [Roles -> Nat]
    /\ grants \in [Roles -> SUBSET PlacePermissions]
    /\ invite \in [Invites -> Invite \union {None}]
    /\ banned \subseteq Users /\ timedOut \subseteq Users

\* A place always has one owner who can act: he is an active member, and he and
\* nobody else has the Owner role, through transfers, departures, removals, bans
\* and role changes in any order.
OneOwner ==
    /\ status[owner] = "active"
    /\ \A u \in Users : "Owner" \in memberRoles[u] <=> u = owner

\* No chain of role creations, updates, assignments and invites lifts a member to
\* the owner's position, so nobody can ever act on the owner.
OwnerOutranksAll == \A u \in Users \ {owner} : Outranks(owner, u) /\ ~Outranks(u, owner)

\* While a ban is in force its user is neither a member nor in the queue of
\* requests, whatever request was pending or invite was held when it began.
BannedStayOut == \A u \in banned : status[u] \in {"none", "left"}

\* Roles end with the membership and with the role: who comes back starts again
\* as a plain member, and nothing refers to a deleted role.
RolesEndWithMembership ==
    /\ \A u \in Users : status[u] # "active" => memberRoles[u] = {}
    /\ \A u \in Users : memberRoles[u] \subseteq roles
    /\ \A i \in Invites : invite[i] # None => invite[i].role \in roles \union {None}

\* An invite admits at most maxUses users.
InviteLimitHolds == \A i \in Invites : invite[i] # None => invite[i].useCount <= invite[i].maxUses

\* Member u keeps role r, no higher than it was.
Kept(u, r) == r \in memberRoles[u] /\ position'[r] <= position[r]

Gains(u) ==
    \/ ~(Permissions(u)' \subseteq Permissions(u))
    \/ \E r \in memberRoles'[u] : ~Kept(u, r)

\* Managing roles gives no member, the actor included, a permission the actor
\* does not have or a role that is not below the actor's own.
NoEscalation ==
    [][\A a, u \in Users :
          Gains(u) /\ ManageRoles(a) =>
             /\ Permissions(u)' \ Permissions(u) \subseteq Permissions(a)
             /\ \A r \in memberRoles'[u] : Kept(u, r) \/ Above(a, position'[r])]_vars

\* Why: the Owner role stays as it was seeded, above every role a request can
\* make, and no invite carries it.
OwnerRoleFixed ==
    /\ \A r \in Seeded : position[r] = SeedPosition[r] /\ grants[r] = SeedGrants[r]
    /\ \A r \in CustomRoles : position[r] < SeedPosition["Owner"]
    /\ \A i \in Invites : invite[i] # None => invite[i].role # "Owner"

PlaceInv ==
    /\ TypeOK
    /\ OneOwner
    /\ OwnerRoleFixed
    /\ BannedStayOut
    /\ RolesEndWithMembership
    /\ InviteLimitHolds
=============================================================================
