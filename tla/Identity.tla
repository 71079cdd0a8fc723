------------------------------ MODULE Identity -----------------------------
(* Who may act in a workspace: sign-ins that find or create the user's        *)
(* workspace and sign a session with the server's key ring, and the guarded   *)
(* requests that spend a session to add members and workspaces.               *)
EXTENDS Naturals

CONSTANTS
  SignIns,        \* posts of an OpenID token to /auth/callback
  Guarded,        \* guarded requests to /workspaces
  Servers,        \* API processes, each with its own key ring
  Identities,     \* what the provider may vouch for: [id, email, workspace, tenant]
  MaxWorkspaces,  \* bounds the workspaces created
  IdentityFaults  \* "database": a query fails; "secret": the ring is not refreshed in time;
                  \* "rotation": a secret changes under its key id

\* A user whom an invitation creates gets a random id: the request's name stands for it.
Users      == {i.id : i \in Identities} \cup Guarded
Emails     == {i.email : i \in Identities}
Workspaces == 1..MaxWorkspaces
Roles      == {"OWNER", "ADMIN", "MEMBER"}   \* OPERATOR may add as few as MEMBER

ASSUME IdentityAssumption ==
  /\ MaxWorkspaces \in Nat /\ Identities # {}
  /\ \A i \in Identities : i.id \notin Guarded /\ i.id # "none" /\ i.workspace \in Nat
  /\ "none" \notin Guarded /\ "none" \notin Emails

\* The provider vouches for one email per user: the row of a user is keyed by his email and
\* his role is looked up by his id.
ASSUME EmailAssumption == \A i, j \in Identities : i.id = j.id => i.email = j.email

VARIABLES
  userRow,       \* identity.users: the id that has the email
  workspaceRow,  \* identity.workspaces: the owner, who is also the tenant
  memberRow,     \* identity.memberships: the role and, as the audit log has it, who gave it
  held,          \* every <<workspace, user, role>> memberRow has had
  secrets,       \* the secret under key 1's id, and whether that key is past its validity
  ring,          \* HmacTokenIssuer.ring of each server
  signIn,        \* the sign-ins, with the session each one ends with
  guarded        \* the requests

accounts     == <<userRow, workspaceRow, memberRow, held>>
identityVars == <<accounts, secrets, ring, signIn, guarded>>

NoMember  == [role |-> "none", by |-> "none"]
NoSession == [user |-> "none", workspace |-> 0, role |-> "none", kid |-> 0, key |-> "none"]

\* The ring of a server: the first deployment signs with key 1; the second signs with key 2
\* and still verifies what key 1 signed, as long as its validity lasts.
Ring(deployment) ==
  [deployment |-> deployment, first |-> secrets.first, fresh |-> TRUE]

IdentityInit ==
  /\ userRow = [e \in Emails |-> "none"]
  /\ workspaceRow = [w \in Workspaces |-> "none"]
  /\ memberRow = [w \in Workspaces |-> [u \in Users |-> NoMember]]
  /\ held = {}
  /\ secrets = [first |-> "old", retired |-> FALSE]
  /\ ring = [v \in Servers |-> Ring(1)]
  /\ \E at \in [SignIns \cup Guarded -> Servers] :
       /\ signIn = [s \in SignIns |-> [pc |-> "idle", server |-> at[s], user |-> "none",
                      identity |-> CHOOSE i \in Identities : TRUE, session |-> NoSession]]
       /\ guarded = [c \in Guarded |-> [pc |-> "idle", server |-> at[c], session |-> NoSession,
                       email |-> "none", role |-> "none", user |-> "none"]]

DatabaseFails == "database" \in IdentityFaults

-----------------------------------------------------------------------------
(* The repository.                                                            *)

UserExists(user) == \E e \in Emails : userRow[e] = user

\* INSERT .. ON CONFLICT (email) DO UPDATE SET name: a known email keeps its id, and the
\* primary key refuses an id that another email has.
Upserts(email, id) ==
  /\ userRow[email] = "none" => ~UserExists(id)
  /\ userRow' = [userRow EXCEPT ![email] = IF @ = "none" THEN id ELSE @]

\* One transaction inserts the workspace, of which the owner is the tenant, and his
\* membership.
FreeWorkspaces == {w \in Workspaces : workspaceRow[w] = "none"}
InsertsWorkspace(owner, w) ==
  /\ w \in FreeWorkspaces /\ \A x \in FreeWorkspaces : w <= x
  /\ workspaceRow' = [workspaceRow EXCEPT ![w] = owner]
  /\ memberRow' = [memberRow EXCEPT ![w][owner] = [role |-> "OWNER", by |-> "none"]]
  /\ held' = held \cup {<<w, owner, "OWNER">>}

\* The row policies let the caller, who is taken for the tenant, see his own workspaces only.
WorkspacesOf(user) ==
  {w \in Workspaces : workspaceRow[w] = user /\ memberRow[w][user].role # "none"}

-----------------------------------------------------------------------------
(* AuthService.authenticate                                                   *)

SignInTo(s, pc) == signIn' = [signIn EXCEPT ![s].pc = pc]

\* The provider's verdict on the token; a refused token ends the sign-in.
Authenticate(s) ==
  /\ signIn[s].pc = "idle"
  /\ \/ SignInTo(s, "denied")
     \/ \E i \in Identities : signIn' = [signIn EXCEPT ![s].pc = "upsert", ![s].identity = i]
  /\ UNCHANGED <<accounts, secrets, ring, guarded>>

UpsertUser(s) ==
  /\ signIn[s].pc = "upsert"
  /\ LET i == signIn[s].identity
     IN  /\ Upserts(i.email, i.id)
         /\ signIn' = [signIn EXCEPT ![s].pc = "resolve", ![s].user = userRow'[i.email]]
  /\ UNCHANGED <<workspaceRow, memberRow, held, secrets, ring, guarded>>

\* The workspace the provider names, if it is the tenant's; else one of the user's own, in
\* no order; else a new one.
ResolveWorkspace(s) ==
  /\ signIn[s].pc = "resolve"
  /\ LET i   == signIn[s].identity
         own == WorkspacesOf(signIn[s].user)
         Resolved(w) == signIn' = [signIn EXCEPT ![s].pc = "members", ![s].session.workspace = w]
     IN  \/ /\ i.workspace # 0
            /\ IF i.workspace \in Workspaces /\ workspaceRow[i.workspace] = i.tenant
               THEN Resolved(i.workspace) ELSE SignInTo(s, "denied")
         \/ i.workspace = 0 /\ \E w \in own : Resolved(w)
         \/ i.workspace = 0 /\ own = {} /\ SignInTo(s, "create")
  /\ UNCHANGED <<accounts, secrets, ring, guarded>>

CreateFirstWorkspace(s) ==
  /\ signIn[s].pc = "create"
  /\ \E w \in Workspaces :
       /\ InsertsWorkspace(signIn[s].user, w)
       /\ signIn' = [signIn EXCEPT ![s].pc = "members", ![s].session.workspace = w]
  /\ UNCHANGED <<userRow, secrets, ring, guarded>>

\* The role is that of the member whose id the provider gave, MEMBER if there is none.
RoleIn(workspace, id) ==
  IF UserExists(id) /\ memberRow[workspace][id].role # "none" THEN memberRow[workspace][id].role
  ELSE "MEMBER"

ReadRole(s) ==
  /\ signIn[s].pc = "members"
  /\ signIn' = [signIn EXCEPT ![s].pc = "issue",
                  ![s].session.role = RoleIn(signIn[s].session.workspace, signIn[s].identity.id)]
  /\ UNCHANGED <<accounts, secrets, ring, guarded>>

\* A deployment signs with its own key.
Signing(v) == IF v.deployment = 1 THEN v.first ELSE "second"

\* The session bears the row's id; a server whose ring is stale signs nothing.
Issue(s) ==
  LET v == ring[signIn[s].server]
  IN  /\ signIn[s].pc = "issue"
      /\ signIn' = IF v.fresh
                   THEN [signIn EXCEPT ![s].pc = "signedIn", ![s].session.user = signIn[s].user,
                           ![s].session.kid = v.deployment, ![s].session.key = Signing(v)]
                   ELSE [signIn EXCEPT ![s].pc = "thrown"]
      /\ UNCHANGED <<accounts, secrets, ring, guarded>>

SignInThrows(s) ==
  /\ \/ signIn[s].pc = "upsert" /\ LET i == signIn[s].identity
                                   IN  userRow[i.email] = "none" /\ UserExists(i.id)
     \/ signIn[s].pc \in {"upsert", "resolve", "create", "members"} /\ DatabaseFails
  /\ SignInTo(s, "thrown")
  /\ UNCHANGED <<accounts, secrets, ring, guarded>>

-----------------------------------------------------------------------------
(* The guards and the workspace controller.                                   *)

GuardedTo(c, pc) == guarded' = [guarded EXCEPT ![c].pc = pc]

\* JwtAuthGuard: the key the token names is in the server's ring and signed it.  That the
\* token has not expired is left to the choice of the session.
VerifiedBy(v, session) ==
  IF session.kid = v.deployment THEN session.key = Signing(v)
  ELSE session.kid = 1 /\ ~secrets.retired /\ session.key = v.first

\* TenantGuard and the controller: the workspace asked for is the session's.
\* Variant: the workspace asked for is not compared with the session's.
OwnWorkspace_Unchecked(session, workspace) == workspace \in Workspaces
OwnWorkspace(session, workspace) == workspace = session.workspace

\* PermissionsGuard on member:invite.
MayInvite(role) == role \in {"OWNER", "ADMIN"}

\* The three guards in a row.
Admitted(v, session, workspace) ==
  VerifiedBy(v, session) /\ OwnWorkspace(session, workspace) /\ MayInvite(session.role)

Invite(c) ==
  /\ guarded[c].pc = "idle"
  /\ \E s \in SignIns, w \in Workspaces, email \in Emails, role \in Roles :
       /\ signIn[s].pc = "signedIn" /\ workspaceRow[w] # "none"
       /\ LET session == signIn[s].session
          IN  guarded' = IF Admitted(ring[guarded[c].server], session, w)
                         THEN [guarded EXCEPT ![c].pc = "find", ![c].email = email, ![c].role = role,
                                 ![c].session = [session EXCEPT !.workspace = w]]
                         ELSE [guarded EXCEPT ![c].pc = "refused"]
  /\ UNCHANGED <<accounts, secrets, ring, signIn>>

FindInvitee(c) ==
  /\ guarded[c].pc = "find"
  /\ LET row == userRow[guarded[c].email]
     IN  guarded' = [guarded EXCEPT ![c].pc = IF row = "none" THEN "invent" ELSE "add",
                                    ![c].user = IF row = "none" THEN c ELSE row]
  /\ UNCHANGED <<accounts, secrets, ring, signIn>>

\* The id the upsert returns is not looked at: a user who came to exist meanwhile keeps his
\* own, and the invented one stays without a row.
InventUser(c) ==
  /\ guarded[c].pc = "invent"
  /\ Upserts(guarded[c].email, c)
  /\ GuardedTo(c, "add")
  /\ UNCHANGED <<workspaceRow, memberRow, held, secrets, ring, signIn>>

\* ON CONFLICT DO UPDATE SET role: also the role of the workspace's owner.
AddMember(c) ==
  LET g == guarded[c]
  IN  /\ g.pc = "add" /\ UserExists(g.user)
      /\ memberRow' = [memberRow EXCEPT ![g.session.workspace][g.user] =
                         [role |-> g.role, by |-> g.session.user]]
      /\ held' = held \cup {<<g.session.workspace, g.user, g.role>>}
      /\ GuardedTo(c, "done")
      /\ UNCHANGED <<userRow, workspaceRow, secrets, ring, signIn>>

\* POST /workspaces asks for no permission and gives the caller another workspace.
CreateWorkspace(c) ==
  /\ guarded[c].pc = "idle"
  /\ \E s \in SignIns, w \in Workspaces :
       /\ signIn[s].pc = "signedIn" /\ VerifiedBy(ring[guarded[c].server], signIn[s].session)
       /\ InsertsWorkspace(signIn[s].session.user, w)
  /\ GuardedTo(c, "done")
  /\ UNCHANGED <<userRow, secrets, ring, signIn>>

\* The foreign key refuses a membership of a user without a row.
GuardedThrows(c) ==
  /\ \/ guarded[c].pc = "add" /\ ~UserExists(guarded[c].user)
     \/ guarded[c].pc \in {"find", "invent", "add"} /\ DatabaseFails
  /\ GuardedTo(c, "thrown")
  /\ UNCHANGED <<accounts, secrets, ring, signIn>>

-----------------------------------------------------------------------------
(* The key ring.                                                              *)

\* A deployment restarts the server on the next configuration of keys; what was under way
\* there is lost.
Deploy(v) ==
  /\ ring[v].deployment = 1
  /\ ring' = [ring EXCEPT ![v] = Ring(2)]
  /\ signIn' = [s \in SignIns |-> IF signIn[s].server = v
                   /\ signIn[s].pc \notin {"idle", "denied", "signedIn", "thrown"}
                   THEN [signIn[s] EXCEPT !.pc = "thrown"] ELSE signIn[s]]
  /\ guarded' = [c \in Guarded |-> IF guarded[c].server = v
                   /\ guarded[c].pc \in {"find", "invent", "add"}
                   THEN [guarded[c] EXCEPT !.pc = "thrown"] ELSE guarded[c]]
  /\ UNCHANGED <<accounts, secrets>>

\* The timer swaps the ring; when the secrets cannot be read the old one stays.
Refresh(v) ==
  /\ ring' = [ring EXCEPT ![v] = Ring(ring[v].deployment)]
  /\ UNCHANGED <<accounts, secrets, signIn, guarded>>

GrowStale(v) ==
  /\ "secret" \in IdentityFaults
  /\ ring' = [ring EXCEPT ![v].fresh = FALSE]
  /\ UNCHANGED <<accounts, secrets, signIn, guarded>>

\* The secret under key 1's id is replaced, once, or the validity of that key ends.
SecretsChange ==
  /\ "rotation" \in IdentityFaults
  /\ \/ secrets.first = "old" /\ secrets' = [secrets EXCEPT !.first = "new"]
     \/ ~secrets.retired /\ secrets' = [secrets EXCEPT !.retired = TRUE]
  /\ UNCHANGED <<accounts, ring, signIn, guarded>>

-----------------------------------------------------------------------------
IdentityNext ==
  \/ \E s \in SignIns :
       \/ Authenticate(s) \/ UpsertUser(s) \/ ResolveWorkspace(s) \/ CreateFirstWorkspace(s)
       \/ ReadRole(s) \/ Issue(s) \/ SignInThrows(s)
  \/ \E c \in Guarded :
       \/ Invite(c) \/ FindInvitee(c) \/ InventUser(c) \/ AddMember(c) \/ CreateWorkspace(c)
       \/ GuardedThrows(c)
  \/ \E v \in Servers : Deploy(v) \/ Refresh(v) \/ GrowStale(v)
  \/ SecretsChange

IdentitySpec == IdentityInit /\ [][IdentityNext]_identityVars

-----------------------------------------------------------------------------

\* Whoever gave a user his role in a workspace had, at some time, been its OWNER or ADMIN:
\* the session he did it with may be a day old, on a key since rotated, and of a user whose
\* row has another id than the provider gave (auth.service.ts:75-78,
\* workspace.controller.ts:57, auth.guard.ts:92).
RolesAreGivenByInviters ==
  \A w \in Workspaces, u \in Users :
    memberRow[w][u].by # "none" =>
      \E role \in {"OWNER", "ADMIN"} : <<w, memberRow[w][u].by, role>> \in held
=============================================================================
