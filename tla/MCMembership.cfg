SPECIFICATION Spec
CONSTANTS
    Users = {u1, u2}
    Founder = u1
    Seeded = {"Owner", "Admin", "Member"}
    CustomRoles = {c1}
    Positions = {60, 100}
    Bundles = {{"member.manage", "moderation.manage"}, {"place.manage", "role.manage"}}
    Invites = {i1}
    UseLimits = {1, 2}
    None = None
INVARIANTS
    TypeOK
    OneOwner
    OwnerOutranksAll
    BannedStayOut
    RolesEndWithMembership
    InviteLimitHolds
PROPERTIES
    NoEscalation
CHECK_DEADLOCK FALSE
