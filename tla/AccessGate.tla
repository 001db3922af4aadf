------------------------------ MODULE AccessGate ------------------------------
(***************************************************************************)
(* pkg/access: who may see a node.  A context and a node are records of    *)
(* the fields the decision reads; "" is an absent tenant, sensitivity or   *)
(* clearance, and "unknown" stands for every unrecognised string.          *)
(***************************************************************************)
EXTENDS Integers

Sensitivities == {"", "public", "internal", "confidential", "restricted", "unknown"}
Clearances    == Sensitivities

ChunkTypes ==
    {"document", "section", "chunk", "entity", "claim", "community-summary",
     "procedure", "definition", "decision", "permission-record"}

\* An unknown sensitivity counts as restricted, an unknown clearance as public.
SensitivityOrdinal(s) ==
    CASE s = "public"            -> 0
      [] s \in {"", "internal"}  -> 1
      [] s = "confidential"      -> 2
      [] OTHER                   -> 3

ClearanceOrdinal(c) ==
    CASE c \in {"", "internal"}  -> 1
      [] c = "confidential"      -> 2
      [] c = "restricted"        -> 3
      [] OTHER                   -> 0

RequiresAgenticApproval(chunk) == chunk \in {"permission-record", "decision", "procedure"}

\* ctx: [clearance, tenant, trusted, unapproved], unapproved being the
\* allow_unapproved_agentic_nodes attribute.
CanSeeNode(ctx, node) ==
    /\ node.tenant \in {"", ctx.tenant}
    /\ SensitivityOrdinal(node.sensitivity) <= ClearanceOrdinal(ctx.clearance)
    /\ SensitivityOrdinal(node.sensitivity) >= 2 /\ node.approvedBy # {} =>
         node.approvedBy \cap ctx.trusted # {}
    /\ RequiresAgenticApproval(node.chunk) /\ node.approvedBy = {} => ctx.unapproved

GovOneRoles ==
    {"super_admin", "tenant_admin", "governance_lead", "operator", "auditor",
     "viewer", "unknown"}

ClearanceForGovOneRole(role) ==
    CASE role \in {"super_admin", "tenant_admin"}    -> "restricted"
      [] role \in {"governance_lead", "operator"}    -> "confidential"
      [] role \in {"auditor", "viewer"}              -> "internal"
      [] OTHER                                       -> "public"

\* The tenant becomes the caller's only trusted approver.
ContextFromGovOne(role, tenant) ==
    [clearance  |-> ClearanceForGovOneRole(role),
     tenant     |-> tenant,
     trusted    |-> IF tenant = "" THEN {} ELSE {tenant},
     unapproved |-> FALSE]

\* The context DefaultPacker.Pack ranks with: only the clearance is passed on.
PackerContext(clearance) ==
    [clearance |-> clearance, tenant |-> "", trusted |-> {}, unapproved |-> TRUE]
=============================================================================
