-------------------------- MODULE MembershipProofs --------------------------
(***************************************************************************)
(* One owner, bans, roles and invite limits hold in every place, for any   *)
(* number of users, roles and invites.  PlaceInv is inductive: the owner   *)
(* is safe because the Owner role stays out of reach (OwnerRoleFixed), and *)
(* that needs every role a member holds to exist (RolesEndWithMembership). *)
(***************************************************************************)
EXTENDS Membership, TLAPS

\* The seeded positions are natural numbers, and 100, the Owner's, is the highest.
LEMMA Seeds ==
  /\ "Owner" \in Seeded /\ "Member" \in Seeded
  /\ None \notin Roles
  /\ CustomRoles \intersect Seeded = {}
  /\ \A r \in Seeded : SeedPosition[r] \in Nat
  /\ \A r \in Seeded \ {"Owner"} : SeedPosition[r] < SeedPosition["Owner"]
  /\ \A r \in Seeded : SeedGrants[r] \subseteq PlacePermissions
  BY MembershipAssumption DEF SeedPosition, SeedGrants, PlacePermissions, Roles

\* No role is above the Owner role.
LEMMA NothingAboveOwner ==
  ASSUME TypeOK, OwnerRoleFixed
  PROVE  /\ \A r \in Roles : position[r] <= position["Owner"]
         /\ \A r \in Roles \ {"Owner"} : position[r] < position["Owner"]
         /\ \A a \in Users : ~Above(a, position["Owner"])
  <1>1. \A r \in Roles \ {"Owner"} : position[r] < position["Owner"]
    BY Seeds DEF OwnerRoleFixed, Roles
  <1>2. position["Owner"] \in Nat
    BY Seeds DEF TypeOK, Roles
  <1>3. QED
    BY <1>1, <1>2 DEF TypeOK, Above

\* Every step keeps the types.
LEMMA TypeStep == TypeOK /\ [Next]_vars => TypeOK'
  <1> SUFFICES ASSUME TypeOK, [Next]_vars PROVE TypeOK'
    OBVIOUS
  <1> USE DEF TypeOK, placeVars, memberVars, roleVars
  <1>1. ASSUME NEW u \in Users, Join(u) PROVE TypeOK'
    <2>1. ASSUME JoinFreely(u) PROVE TypeOK'
      BY <1>1, <2>1, Seeds DEF Join, JoinFreely, Admit, Roles
    <2>2. ASSUME NEW i \in Invites, JoinByInvite(u, i) PROVE TypeOK'
      <3>1. invite[i] \in Invite
        BY <2>2 DEF JoinByInvite, Usable
      <3>2. invite' \in [Invites -> Invite \union {None}]
        BY <2>2, <3>1 DEF JoinByInvite, Invite
      <3>3. {invite[i].role} \ {None} \subseteq Roles
        BY <3>1 DEF Invite
      <3>4. QED
        BY <1>1, <2>2, <3>2, <3>3, Seeds DEF Join, JoinByInvite, Admit, Roles
    <2>3. QED
      BY <1>1, <2>1, <2>2 DEF Join
  <1>2. ASSUME NEW u \in Users, Leave(u) PROVE TypeOK'
    BY <1>2 DEF Leave, PutOut
  <1>3. ASSUME NEW a \in Users, ManageRoles(a) PROVE TypeOK'
    <2>1. ASSUME NEW r \in Roles, NEW p \in Positions, NEW bundle \in Bundles,
                 CreateRole(a, r, p, bundle) \/ UpdateRole(a, r, p, bundle)
          PROVE  TypeOK'
      BY <2>1, MembershipAssumption
      DEF CreateRole, UpdateRole, SetRole, MayUpdate, Roles
    <2>2. ASSUME NEW r \in Roles, DeleteRole(a, r) PROVE TypeOK'
      <3>1. invite' \in [Invites -> Invite \union {None}]
        BY <2>2 DEF DeleteRole, ClearInvites, Invite
      <3>2. QED
        BY <2>2, <3>1 DEF DeleteRole, SetRole, Changeable
    <2>3. ASSUME NEW u \in Users, NEW r \in Roles, AssignRole(a, u, r) \/ RemoveRole(a, u, r)
          PROVE  TypeOK'
      BY <2>3 DEF AssignRole, RemoveRole
    <2>4. QED
      BY <1>3, <2>1, <2>2, <2>3 DEF ManageRoles
  <1>4. ASSUME NEW a \in Users, ManageMembers(a) PROVE TypeOK'
    <2>1. ASSUME NEW u \in Users, Approve(a, u) \/ Remove(a, u) PROVE TypeOK'
      BY <2>1, Seeds DEF Approve, Admit, Remove, PutOut, Roles
    <2>2. ASSUME NEW i \in Invites, NEW r \in Roles \union {None},
                 NEW email \in Users \union {None}, NEW limit \in UseLimits,
                 CreateInvite(a, i, r, email, limit)
          PROVE  TypeOK'
      BY <2>2 DEF CreateInvite, Invite
    <2>3. ASSUME NEW i \in Invites, RevokeInvite(a, i) PROVE TypeOK'
      BY <2>3 DEF RevokeInvite
    <2>4. QED
      BY <1>4, <2>1, <2>2, <2>3 DEF ManageMembers
  <1>5. ASSUME NEW a \in Users, ManagePlace(a) PROVE TypeOK'
    <2>1. ASSUME NEW u \in Users, TransferOwnership(a, u) PROVE TypeOK'
      BY <2>1, Seeds DEF TransferOwnership, HandOver, Roles
    <2>2. ASSUME NEW policy \in Policies, UpdatePlace(a, policy) PROVE TypeOK'
      BY <2>2 DEF UpdatePlace
    <2>3. ASSUME Archive(a) PROVE TypeOK'
      BY <2>3 DEF Archive
    <2>4. QED
      BY <1>5, <2>1, <2>2, <2>3 DEF ManagePlace
  <1>6. ASSUME NEW a \in Users, ModerateMembers(a) PROVE TypeOK'
    BY <1>6 DEF ModerateMembers, Ban, PutOut, RevokeBan, Timeout, RevokeTimeout
  <1>7. ASSUME Lapses PROVE TypeOK'
    BY <1>7 DEF Lapses, InviteExpires, BanExpires, TimeoutExpires
  <1>8. ASSUME UNCHANGED vars PROVE TypeOK'
    BY <1>8 DEF vars
  <1>9. QED
    BY <1>1, <1>2, <1>3, <1>4, <1>5, <1>6, <1>7, <1>8 DEF Next

\* A step of the place that neither the joining, approving, transferring nor the
\* managing of roles makes can only put a member out.
Departs(u) == u # owner /\ PutOut(u)

\* What any step does to the owner and the members.
LEMMA MemberSteps ==
  ASSUME [Next]_vars
  PROVE  \/ UNCHANGED <<owner, memberVars, roles>>
         \/ \E u \in Users : Join(u)
         \/ \E a, u \in Users : Approve(a, u) \/ TransferOwnership(a, u)
         \/ \E u \in Users : Departs(u) /\ UNCHANGED <<placeVars, roleVars, invite>>
         \/ \E a \in Users : ManageRoles(a)
  <1> USE DEF placeVars, memberVars, roleVars
  <1>1. ASSUME NEW u \in Users, Leave(u)
        PROVE  Departs(u) /\ UNCHANGED <<placeVars, roleVars, invite>>
    BY <1>1 DEF Leave, Departs
  <1>2. ASSUME NEW a \in Users, ManageMembers(a)
        PROVE  \/ \E u \in Users : Approve(a, u)
               \/ \E u \in Users : Departs(u) /\ UNCHANGED <<placeVars, roleVars, invite>>
               \/ UNCHANGED <<owner, memberVars, roles>>
    BY <1>2 DEF ManageMembers, Remove, Departs, CreateInvite, RevokeInvite
  <1>3. ASSUME NEW a \in Users, ManagePlace(a)
        PROVE  \/ \E u \in Users : TransferOwnership(a, u)
               \/ UNCHANGED <<owner, memberVars, roles>>
    BY <1>3 DEF ManagePlace, UpdatePlace, Archive
  <1>4. ASSUME NEW a \in Users, ModerateMembers(a)
        PROVE  \/ \E u \in Users : Departs(u) /\ UNCHANGED <<placeVars, roleVars, invite>>
               \/ UNCHANGED <<owner, memberVars, roles>>
    BY <1>4 DEF ModerateMembers, Ban, Departs, RevokeBan, Timeout, RevokeTimeout
  <1>5. ASSUME Lapses PROVE UNCHANGED <<owner, memberVars, roles>>
    BY <1>5 DEF Lapses, InviteExpires, BanExpires, TimeoutExpires
  <1>6. ASSUME UNCHANGED vars PROVE UNCHANGED <<owner, memberVars, roles>>
    BY <1>6 DEF vars
  <1>7. QED
    BY <1>1, <1>2, <1>3, <1>4, <1>5, <1>6 DEF Next

\* Managing roles neither hands out nor takes away the Owner role.
LEMMA RoleSteps ==
  ASSUME TypeOK, OneOwner, OwnerRoleFixed, NEW a \in Users, ManageRoles(a)
  PROVE  /\ UNCHANGED <<owner, status>>
         /\ \A u \in Users : "Owner" \in memberRoles'[u] <=> "Owner" \in memberRoles[u]
  <1> USE DEF placeVars, memberVars, roleVars, TypeOK
  <1>1. ASSUME NEW r \in Roles, NEW p \in Positions, NEW bundle \in Bundles,
               CreateRole(a, r, p, bundle) \/ UpdateRole(a, r, p, bundle)
        PROVE  UNCHANGED <<owner, memberVars>>
    BY <1>1 DEF CreateRole, UpdateRole
  <1>2. ASSUME NEW r \in Roles, DeleteRole(a, r)
        PROVE  /\ UNCHANGED <<owner, status>>
               /\ \A u \in Users : "Owner" \in memberRoles'[u] <=> "Owner" \in memberRoles[u]
    BY <1>2, Seeds DEF DeleteRole, Changeable
  <1>3. ASSUME NEW u \in Users, NEW r \in Roles, AssignRole(a, u, r) \/ RemoveRole(a, u, r)
        PROVE  /\ UNCHANGED <<owner, status>>
               /\ \A v \in Users : "Owner" \in memberRoles'[v] <=> "Owner" \in memberRoles[v]
    <2>1. r # "Owner"
      BY <1>3, NothingAboveOwner DEF AssignRole, RemoveRole, CanManageRole
    <2>2. QED
      BY <1>3, <2>1 DEF AssignRole, RemoveRole
  <1>4. QED
    BY <1>1, <1>2, <1>3 DEF ManageRoles

\* Every step leaves one owner.
LEMMA OwnerStep ==
  TypeOK /\ OneOwner /\ OwnerRoleFixed /\ [Next]_vars => OneOwner'
  <1> SUFFICES ASSUME TypeOK, OneOwner, OwnerRoleFixed, [Next]_vars PROVE OneOwner'
    OBVIOUS
  <1> USE DEF TypeOK, OneOwner, placeVars, memberVars, roleVars
  <1>1. ASSUME UNCHANGED <<owner, memberVars, roles>> PROVE OneOwner'
    BY <1>1
  <1>2. ASSUME NEW u \in Users, Join(u) PROVE OneOwner'
    <2>1. ASSUME JoinFreely(u) PROVE OneOwner'
      BY <1>2, <2>1 DEF Join, JoinFreely, Admit
    <2>2. ASSUME NEW i \in Invites, JoinByInvite(u, i) PROVE OneOwner'
      <3>1. invite[i].role # "Owner"
        BY <2>2 DEF JoinByInvite, Usable, OwnerRoleFixed
      <3>2. QED
        BY <1>2, <2>2, <3>1 DEF Join, JoinByInvite, Admit
    <2>3. QED
      BY <1>2, <2>1, <2>2 DEF Join
  <1>3. ASSUME NEW a \in Users, NEW u \in Users, Approve(a, u) PROVE OneOwner'
    BY <1>3 DEF Approve, Admit
  <1>4. ASSUME NEW a \in Users, NEW u \in Users, TransferOwnership(a, u) PROVE OneOwner'
    BY <1>4 DEF TransferOwnership, HandOver
  <1>5. ASSUME NEW u \in Users, Departs(u), UNCHANGED <<placeVars, roleVars, invite>>
        PROVE  OneOwner'
    BY <1>5 DEF Departs, PutOut
  <1>6. ASSUME NEW a \in Users, ManageRoles(a) PROVE OneOwner'
    BY <1>6, RoleSteps
  <1>7. QED
    BY <1>1, <1>2, <1>3, <1>4, <1>5, <1>6, MemberSteps

\* A change of a custom role by an actor who can manage it leaves the role below
\* the Owner role, and no such actor can give the Owner role to an invite.
LEMMA OwnerRoleStep ==
  TypeOK /\ OwnerRoleFixed /\ [Next]_vars => OwnerRoleFixed'
  <1> SUFFICES ASSUME TypeOK, OwnerRoleFixed, [Next]_vars PROVE OwnerRoleFixed'
    OBVIOUS
  <1> USE DEF TypeOK, OwnerRoleFixed, placeVars, memberVars, roleVars
  <1>1. ASSUME NEW u \in Users, Join(u) PROVE OwnerRoleFixed'
    <2>1. ASSUME NEW i \in Invites, JoinByInvite(u, i)
          PROVE  \A j \in Invites : invite'[j] # None => invite'[j].role # "Owner"
      <3>1. invite[i] \in Invite /\ invite[i].role # "Owner"
        BY <2>1 DEF JoinByInvite, Usable
      <3>2. invite'[i].role = invite[i].role
        BY <2>1, <3>1 DEF JoinByInvite, Invite
      <3>3. \A j \in Invites \ {i} : invite'[j] = invite[j]
        BY <2>1 DEF JoinByInvite
      <3>4. QED
        BY <3>1, <3>2, <3>3
    <2>2. QED
      BY <1>1, <2>1 DEF Join, JoinFreely
  <1>2. ASSUME NEW u \in Users, Leave(u) PROVE OwnerRoleFixed'
    BY <1>2 DEF Leave
  <1>3. ASSUME NEW a \in Users, ManageRoles(a) PROVE OwnerRoleFixed'
    <2>1. ASSUME NEW r \in Roles, NEW p \in Positions, NEW bundle \in Bundles,
                 CreateRole(a, r, p, bundle) \/ UpdateRole(a, r, p, bundle)
          PROVE  OwnerRoleFixed'
      <3>1. r \notin Seeded /\ UNCHANGED invite /\ SetRole(r, p, bundle) /\ Above(a, p)
        <4>1. CASE CreateRole(a, r, p, bundle)
          BY <4>1, Seeds DEF CreateRole, CanManageRole
        <4>2. CASE UpdateRole(a, r, p, bundle)
          BY <4>2 DEF UpdateRole, MayUpdate, CanManageRole, Changeable
        <4>3. QED
          BY <2>1, <4>1, <4>2
      <3>2. p \in Nat /\ p < position["Owner"]
        BY <3>1, NothingAboveOwner, MembershipAssumption, Seeds DEF Above, Roles
      <3>3. QED
        BY <3>1, <3>2, Seeds DEF SetRole, Roles
    <2>2. ASSUME NEW r \in Roles, DeleteRole(a, r) PROVE OwnerRoleFixed'
      <3>1. \A i \in Invites : invite'[i] # None => invite'[i].role # "Owner"
        BY <2>2, Seeds DEF DeleteRole, ClearInvites, Invite, Roles
      <3>2. QED
        BY <2>2, <3>1, Seeds DEF DeleteRole, SetRole, Changeable, Roles, SeedPosition
    <2>3. ASSUME NEW u \in Users, NEW r \in Roles, AssignRole(a, u, r) \/ RemoveRole(a, u, r)
          PROVE  OwnerRoleFixed'
      BY <2>3 DEF AssignRole, RemoveRole
    <2>4. QED
      BY <1>3, <2>1, <2>2, <2>3 DEF ManageRoles
  <1>4. ASSUME NEW a \in Users, ManageMembers(a) PROVE OwnerRoleFixed'
    <2>1. ASSUME NEW i \in Invites, NEW r \in Roles \union {None},
                 NEW email \in Users \union {None}, NEW limit \in UseLimits,
                 CreateInvite(a, i, r, email, limit)
          PROVE  OwnerRoleFixed'
      <3>1. r # "Owner"
        BY <2>1, NothingAboveOwner, Seeds DEF CreateInvite, CanManageRole, Roles
      <3>2. QED
        BY <2>1, <3>1 DEF CreateInvite
    <2>2. QED
      BY <1>4, <2>1 DEF ManageMembers, Approve, Remove, RevokeInvite
  <1>5. ASSUME NEW a \in Users, ManagePlace(a) \/ ModerateMembers(a) PROVE OwnerRoleFixed'
    BY <1>5 DEF ManagePlace, TransferOwnership, UpdatePlace, Archive,
                ModerateMembers, Ban, RevokeBan, Timeout, RevokeTimeout
  <1>6. ASSUME Lapses PROVE OwnerRoleFixed'
    BY <1>6 DEF Lapses, InviteExpires, BanExpires, TimeoutExpires
  <1>7. ASSUME UNCHANGED vars PROVE OwnerRoleFixed'
    BY <1>7 DEF vars
  <1>8. QED
    BY <1>1, <1>2, <1>3, <1>4, <1>5, <1>6, <1>7 DEF Next

\* Only a join or an approval makes somebody a member, and both look for a ban.
LEMMA BanStep == TypeOK /\ BannedStayOut /\ [Next]_vars => BannedStayOut'
  <1> SUFFICES ASSUME TypeOK, BannedStayOut, [Next]_vars PROVE BannedStayOut'
    OBVIOUS
  <1> USE DEF TypeOK, BannedStayOut, placeVars, memberVars, roleVars
  <1>1. ASSUME NEW u \in Users, Join(u) \/ Leave(u) PROVE BannedStayOut'
    BY <1>1 DEF Join, JoinFreely, JoinByInvite, Admit, Leave, PutOut
  <1>2. ASSUME NEW a \in Users, ManageRoles(a) PROVE BannedStayOut'
    BY <1>2 DEF ManageRoles, CreateRole, UpdateRole, DeleteRole, AssignRole, RemoveRole
  <1>3. ASSUME NEW a \in Users, ManageMembers(a) PROVE BannedStayOut'
    BY <1>3 DEF ManageMembers, Approve, Admit, Remove, PutOut, CreateInvite, RevokeInvite
  <1>4. ASSUME NEW a \in Users, ManagePlace(a) PROVE BannedStayOut'
    BY <1>4 DEF ManagePlace, TransferOwnership, UpdatePlace, Archive
  <1>5. ASSUME NEW a \in Users, ModerateMembers(a) PROVE BannedStayOut'
    BY <1>5 DEF ModerateMembers, Ban, PutOut, RevokeBan, Timeout, RevokeTimeout
  <1>6. ASSUME Lapses PROVE BannedStayOut'
    BY <1>6 DEF Lapses, InviteExpires, BanExpires, TimeoutExpires
  <1>7. ASSUME UNCHANGED vars PROVE BannedStayOut'
    BY <1>7 DEF vars
  <1>8. QED
    BY <1>1, <1>2, <1>3, <1>4, <1>5, <1>6, <1>7 DEF Next

\* Admission gives only roles that exist; putting out takes all of them.
LEMMA RolesStep ==
  TypeOK /\ OneOwner /\ OwnerRoleFixed /\ RolesEndWithMembership /\ [Next]_vars
    => RolesEndWithMembership'
  <1> SUFFICES ASSUME TypeOK, OneOwner, OwnerRoleFixed, RolesEndWithMembership, [Next]_vars
               PROVE  RolesEndWithMembership'
    OBVIOUS
  <1> USE DEF TypeOK, RolesEndWithMembership, placeVars, memberVars, roleVars
  <1>1. ASSUME NEW u \in Users, Join(u) PROVE RolesEndWithMembership'
    <2>1. ASSUME JoinFreely(u) PROVE RolesEndWithMembership'
      BY <1>1, <2>1, Seeds DEF Join, JoinFreely, Admit
    <2>2. ASSUME NEW i \in Invites, JoinByInvite(u, i) PROVE RolesEndWithMembership'
      <3>1. invite[i] \in Invite /\ invite[i].role \in roles \union {None}
        BY <2>2 DEF JoinByInvite, Usable
      <3>2. invite'[i].role = invite[i].role
        BY <2>2, <3>1 DEF JoinByInvite, Invite
      <3>3. \A j \in Invites \ {i} : invite'[j] = invite[j]
        BY <2>2 DEF JoinByInvite
      <3>4. QED
        BY <1>1, <2>2, <3>1, <3>2, <3>3, Seeds DEF Join, JoinByInvite, Admit
    <2>3. QED
      BY <1>1, <2>1, <2>2 DEF Join
  <1>2. ASSUME NEW u \in Users, Leave(u) PROVE RolesEndWithMembership'
    BY <1>2 DEF Leave, PutOut
  <1>3. ASSUME NEW a \in Users, ManageRoles(a) PROVE RolesEndWithMembership'
    <2>1. ASSUME NEW r \in Roles, NEW p \in Positions, NEW bundle \in Bundles,
                 CreateRole(a, r, p, bundle) \/ UpdateRole(a, r, p, bundle)
          PROVE  RolesEndWithMembership'
      BY <2>1 DEF CreateRole, UpdateRole
    <2>2. ASSUME NEW r \in Roles, DeleteRole(a, r) PROVE RolesEndWithMembership'
      <3>1. \A i \in Invites : invite'[i] # None => invite'[i].role \in (roles \ {r}) \union {None}
        BY <2>2 DEF DeleteRole, ClearInvites, Invite
      <3>2. QED
        BY <2>2, <3>1 DEF DeleteRole
    <2>3. ASSUME NEW u \in Users, NEW r \in Roles, AssignRole(a, u, r) \/ RemoveRole(a, u, r)
          PROVE  RolesEndWithMembership'
      BY <2>3 DEF AssignRole, RemoveRole
    <2>4. QED
      BY <1>3, <2>1, <2>2, <2>3 DEF ManageRoles
  <1>4. ASSUME NEW a \in Users, ManageMembers(a) PROVE RolesEndWithMembership'
    <2>1. ASSUME NEW u \in Users, Approve(a, u) \/ Remove(a, u) PROVE RolesEndWithMembership'
      BY <2>1, Seeds DEF Approve, Admit, Remove, PutOut
    <2>2. ASSUME NEW i \in Invites, NEW r \in Roles \union {None},
                 NEW email \in Users \union {None}, NEW limit \in UseLimits,
                 CreateInvite(a, i, r, email, limit)
          PROVE  RolesEndWithMembership'
      BY <2>2 DEF CreateInvite
    <2>3. ASSUME NEW i \in Invites, RevokeInvite(a, i) PROVE RolesEndWithMembership'
      BY <2>3 DEF RevokeInvite
    <2>4. QED
      BY <1>4, <2>1, <2>2, <2>3 DEF ManageMembers
  <1>5. ASSUME NEW a \in Users, ManagePlace(a) PROVE RolesEndWithMembership'
    BY <1>5, Seeds DEF ManagePlace, TransferOwnership, HandOver, UpdatePlace, Archive
  <1>6. ASSUME NEW a \in Users, ModerateMembers(a) PROVE RolesEndWithMembership'
    BY <1>6 DEF ModerateMembers, Ban, PutOut, RevokeBan, Timeout, RevokeTimeout
  <1>7. ASSUME Lapses PROVE RolesEndWithMembership'
    BY <1>7 DEF Lapses, InviteExpires, BanExpires, TimeoutExpires
  <1>8. ASSUME UNCHANGED vars PROVE RolesEndWithMembership'
    BY <1>8 DEF vars
  <1>9. QED
    BY <1>1, <1>2, <1>3, <1>4, <1>5, <1>6, <1>7, <1>8 DEF Next

\* The use count grows only while it is below the limit.
LEMMA LimitStep == TypeOK /\ InviteLimitHolds /\ [Next]_vars => InviteLimitHolds'
  <1> SUFFICES ASSUME TypeOK, InviteLimitHolds, [Next]_vars PROVE InviteLimitHolds'
    OBVIOUS
  <1> USE DEF TypeOK, InviteLimitHolds, placeVars, memberVars, roleVars
  <1>1. ASSUME NEW u \in Users, Join(u) PROVE InviteLimitHolds'
    <2>1. ASSUME NEW i \in Invites, JoinByInvite(u, i) PROVE InviteLimitHolds'
      <3>1. invite[i] \in Invite /\ invite[i].useCount < invite[i].maxUses
        BY <2>1 DEF JoinByInvite, Usable
      <3>2. invite'[i].useCount = invite[i].useCount + 1 /\ invite'[i].maxUses = invite[i].maxUses
        BY <2>1, <3>1 DEF JoinByInvite, Invite
      <3>3. invite'[i].useCount <= invite'[i].maxUses
        <4>1. invite[i].useCount \in Nat /\ invite[i].maxUses \in UseLimits
          BY <3>1 DEF Invite
        <4>2. invite[i].maxUses \in Nat
          BY <4>1, MembershipAssumption
        <4>3. QED
          BY <3>1, <3>2, <4>1, <4>2
      <3>4. \A j \in Invites \ {i} : invite'[j] = invite[j]
        BY <2>1 DEF JoinByInvite
      <3>5. QED
        BY <3>3, <3>4
    <2>2. QED
      BY <1>1, <2>1 DEF Join, JoinFreely
  <1>2. ASSUME NEW a \in Users, ManageRoles(a) PROVE InviteLimitHolds'
    <2>1. ASSUME NEW r \in Roles, DeleteRole(a, r) PROVE InviteLimitHolds'
      <3>1. ASSUME NEW i \in Invites
            PROVE  \/ invite'[i] = invite[i]
                   \/ /\ invite[i] # None
                      /\ invite'[i].useCount = invite[i].useCount
                      /\ invite'[i].maxUses = invite[i].maxUses
        BY <2>1 DEF DeleteRole, ClearInvites, Invite
      <3>2. QED
        BY <3>1
    <2>2. QED
      BY <1>2, <2>1 DEF ManageRoles, CreateRole, UpdateRole, AssignRole, RemoveRole
  <1>3. ASSUME NEW a \in Users, ManageMembers(a) PROVE InviteLimitHolds'
    <2>1. ASSUME NEW i \in Invites, NEW r \in Roles \union {None},
                 NEW email \in Users \union {None}, NEW limit \in UseLimits,
                 CreateInvite(a, i, r, email, limit)
          PROVE  InviteLimitHolds'
      <3>1. invite'[i].useCount = 0 /\ invite'[i].maxUses \in Nat
        BY <2>1, MembershipAssumption DEF CreateInvite
      <3>2. \A j \in Invites \ {i} : invite'[j] = invite[j]
        BY <2>1 DEF CreateInvite
      <3>3. QED
        BY <3>1, <3>2
    <2>2. QED
      BY <1>3, <2>1 DEF ManageMembers, Approve, Remove, RevokeInvite
  <1>4. ASSUME NEW a \in Users, ManagePlace(a) \/ ModerateMembers(a) PROVE InviteLimitHolds'
    BY <1>4 DEF ManagePlace, TransferOwnership, UpdatePlace, Archive,
                ModerateMembers, Ban, RevokeBan, Timeout, RevokeTimeout
  <1>5. ASSUME Lapses \/ \E u \in Users : Leave(u) PROVE InviteLimitHolds'
    BY <1>5 DEF Lapses, InviteExpires, BanExpires, TimeoutExpires, Leave
  <1>6. ASSUME UNCHANGED vars PROVE InviteLimitHolds'
    BY <1>6 DEF vars
  <1>7. QED
    BY <1>1, <1>2, <1>3, <1>4, <1>5, <1>6 DEF Next

-----------------------------------------------------------------------------

\* PlaceInv holds in every reachable state.
THEOREM PlaceInvariant == Spec => []PlaceInv
  <1>1. Init => PlaceInv
    <2> SUFFICES ASSUME Init PROVE PlaceInv
      OBVIOUS
    <2> USE DEF Init
    <2>1. TypeOK
      BY Seeds, MembershipAssumption DEF TypeOK, Policies, Roles
    <2>2. OneOwner /\ BannedStayOut
      BY MembershipAssumption DEF OneOwner, BannedStayOut
    <2>3. OwnerRoleFixed
      BY Seeds DEF OwnerRoleFixed, Roles, SeedPosition
    <2>4. RolesEndWithMembership /\ InviteLimitHolds
      BY Seeds DEF RolesEndWithMembership, InviteLimitHolds
    <2>5. QED
      BY <2>1, <2>2, <2>3, <2>4 DEF PlaceInv
  <1>2. PlaceInv /\ [Next]_vars => PlaceInv'
    BY TypeStep, OwnerStep, OwnerRoleStep, BanStep, RolesStep, LimitStep DEF PlaceInv
  <1>3. QED
    BY <1>1, <1>2, PTL DEF Spec

\* Every variable of a place keeps its type.
THEOREM TypeCorrect == Spec => []TypeOK
  BY PlaceInvariant, PTL DEF PlaceInv

\* A place always has one owner, an active member who alone has the Owner role.
THEOREM OneOwnerAlways == Spec => []OneOwner
  BY PlaceInvariant, PTL DEF PlaceInv

\* Nobody comes to rank with the owner.
THEOREM OwnerOnTop == Spec => []OwnerOutranksAll
  <1>1. PlaceInv => OwnerOutranksAll
    <2> SUFFICES ASSUME PlaceInv, NEW u \in Users, u # owner
                 PROVE  Outranks(owner, u) /\ ~Outranks(u, owner)
      BY DEF OwnerOutranksAll
    <2> USE DEF PlaceInv
    <2>1. "Owner" \in memberRoles[owner] /\ memberRoles[u] \subseteq Roles \ {"Owner"}
      BY DEF TypeOK, OneOwner
    <2>2. position["Owner"] = 100
      BY Seeds DEF OwnerRoleFixed, SeedPosition
    <2>3. \A s \in memberRoles[u] : position[s] < position["Owner"]
      BY <2>1, NothingAboveOwner
    <2>4. QED
      BY <2>1, <2>2, <2>3, Seeds DEF Outranks, TypeOK, Roles
  <1>2. QED
    BY <1>1, PlaceInvariant, PTL

\* Bans hold: no interleaving of requests, invites and approvals lets a user in.
THEOREM BansHold == Spec => []BannedStayOut
  BY PlaceInvariant, PTL DEF PlaceInv

\* Roles end with the membership and with the role.
THEOREM NoDanglingRoles == Spec => []RolesEndWithMembership
  BY PlaceInvariant, PTL DEF PlaceInv

\* An invite is never used more often than it allows.
THEOREM InviteLimits == Spec => []InviteLimitHolds
  BY PlaceInvariant, PTL DEF PlaceInv

\* What one role operation of actor a may do to the authority of member u.
Within(a, u) ==
  /\ Permissions(u)' \ Permissions(u) \subseteq Permissions(a)
  /\ \A r \in memberRoles'[u] : Kept(u, r) \/ Above(a, position'[r])

\* Each of the five role operations stays within the actor's authority.  That a
\* new role enriches nobody needs that nobody holds it before it exists.
LEMMA RoleAuthority ==
  ASSUME PlaceInv, NEW a \in Users, NEW u \in Users, ManageRoles(a)
  PROVE  Within(a, u)
  <1> USE DEF PlaceInv, TypeOK, Within, Permissions, Kept, roleVars, memberVars
  <1>1. ASSUME NEW r \in Roles, NEW p \in Positions, NEW bundle \in Bundles,
               CreateRole(a, r, p, bundle)
        PROVE  Within(a, u)
    <2>1. r \notin memberRoles[u] /\ memberRoles' = memberRoles
      BY <1>1 DEF CreateRole, RolesEndWithMembership
    <2>2. \A s \in memberRoles[u] : position'[s] = position[s] /\ grants'[s] = grants[s]
      BY <1>1, <2>1 DEF CreateRole, SetRole
    <2>3. QED
      BY <2>1, <2>2
  <1>2. ASSUME NEW r \in Roles, NEW p \in Positions, NEW bundle \in Bundles,
               UpdateRole(a, r, p, bundle)
        PROVE  Within(a, u)
    <2>1. bundle \subseteq Permissions(a) /\ Above(a, p)
      BY <1>2 DEF UpdateRole, MayUpdate, CanManageRole
    <2>2. memberRoles' = memberRoles
      BY <1>2 DEF UpdateRole
    <2>3. position'[r] = p /\ grants'[r] = bundle
      BY <1>2 DEF UpdateRole, SetRole
    <2>4. \A s \in Roles \ {r} : position'[s] = position[s] /\ grants'[s] = grants[s]
      BY <1>2 DEF UpdateRole, SetRole
    <2>5. QED
      BY <2>1, <2>2, <2>3, <2>4
  <1>3. ASSUME NEW r \in Roles, DeleteRole(a, r) PROVE Within(a, u)
    <2>1. memberRoles'[u] = memberRoles[u] \ {r}
      BY <1>3 DEF DeleteRole
    <2>2. \A s \in Roles \ {r} : position'[s] = position[s] /\ grants'[s] = grants[s]
      BY <1>3 DEF DeleteRole, SetRole
    <2>3. QED
      BY <2>1, <2>2
  <1>4. ASSUME NEW v \in Users, NEW r \in Roles, AssignRole(a, v, r) PROVE Within(a, u)
    <2>1. grants[r] \subseteq Permissions(a) /\ Above(a, position[r])
      BY <1>4 DEF AssignRole, CanManageRole
    <2>2. UNCHANGED roleVars /\ memberRoles'[u] \subseteq memberRoles[u] \union {r}
      BY <1>4 DEF AssignRole
    <2>3. QED
      BY <2>1, <2>2
  <1>5. ASSUME NEW v \in Users, NEW r \in Roles, RemoveRole(a, v, r) PROVE Within(a, u)
    <2>1. UNCHANGED roleVars /\ memberRoles'[u] \subseteq memberRoles[u]
      BY <1>5 DEF RemoveRole
    <2>2. QED
      BY <2>1
  <1>6. QED
    BY <1>1, <1>2, <1>3, <1>4, <1>5 DEF ManageRoles

\* No role operation hands out authority its actor does not have.
THEOREM RolesNeverEscalate == Spec => NoEscalation
  <1>1. PlaceInv => [\A a, u \in Users :
                        Gains(u) /\ ManageRoles(a) =>
                           /\ Permissions(u)' \ Permissions(u) \subseteq Permissions(a)
                           /\ \A r \in memberRoles'[u] : Kept(u, r) \/ Above(a, position'[r])]_vars
    BY RoleAuthority DEF Within
  <1>2. QED
    BY <1>1, PlaceInvariant, PTL DEF NoEscalation

=============================================================================
