---------------------------- MODULE Credentials -----------------------------
(***************************************************************************)
(* Agent credentials: the tables principals, credentials and attestations, *)
(* the requests a running server binds to an agent, and the operator tool  *)
(* that changes the tables from a process of its own.                      *)
(*                                                                         *)
(* A lane is one agent of one tenant.  The token of a credential is known  *)
(* by the number of the credential; a token of no credential is Forged.    *)
(* The server's calls are one SQL statement each, so the operator's        *)
(* exclusive transaction comes between any two of them, as                 *)
(* docs/AGENT-CREDENTIAL-OPERATOR.md:19-21 admits, never inside one.       *)
(***************************************************************************)
EXTENDS Integers, FiniteSets

CONSTANTS
    Lanes,      \* records [tenant, agent]
    Starts,     \* what a lane may be at first
    Claims,     \* agents a call names as its actor
    Bases,      \* [tenant, trusted, scopes] of the deployment or tenant key
    Grants,     \* [from, until, scopes] a credential is given
    Modes,      \* authentication modes a server is started in
    MaxIds, MaxNow, MaxAge, MaxFaults

VARIABLES
    now,
    mode,       \* of the running server
    principals, \* lane -> enforcement state
    creds,      \* credential -> row
    attested,   \* credential -> its last whoami
    files,      \* credentials whose secret file is on disk
    op,         \* the operator's run
    req,        \* the request being served
    canaries,   \* credential -> its last whoami under mixed or required
    slips       \* failures of the operator's file and database calls

credentialVars == <<now, mode, principals, creds, attested, files, op, req, canaries, slips>>
tables == <<principals, creds>>
server == <<mode, req, attested, canaries>>

None == 0
Forged == -1
Nobody == "nobody"
Ids == 1..MaxIds
States == {"absent", "staged", "enforced", "disabled"}
NewId == Cardinality(files \union DOMAIN creds) + 1     \* it is drawn at random

Idle == [step |-> "idle"]
With(rows, c, row) == [d \in DOMAIN rows \union {c} |-> IF d = c THEN row ELSE rows[d]]

(* What the operator's commands and the schema let the parameters be. *)
CredentialsAssumption ==
    /\ Starts \subseteq [Lanes -> States]
    /\ {MaxIds, MaxNow, MaxAge, MaxFaults} \subseteq Nat

CredentialsInit ==
    /\ now = 0 /\ mode \in Modes
    /\ principals \in Starts
    /\ creds = [c \in {} |-> None] /\ attested = [c \in {} |-> None]
    /\ canaries = attested
    /\ files = {} /\ slips = 0
    /\ op = Idle /\ req = Idle

----------------------------------------------------------------------------
(* The store *)

(* isCredentialBindingActive, and the order-free part of validateCredential *)
Usable(c, t) ==
    /\ c \in DOMAIN creds /\ creds[c].active
    /\ principals[creds[c].lane] # "disabled"
    /\ creds[c].grant.from <= t /\ t < creds[c].grant.until

(* validateCredential: a token of another tenant proves nothing here *)
Validates(c, tenant) == Usable(c, now) /\ creds[c].lane.tenant = tenant

----------------------------------------------------------------------------
(* The server *)

Free == op = Idle      \* no exclusive lock on the database

Covers(scopes) == scopes \intersect {"all", "area", "exact"} # {}
BaseCovers(base) == base.trusted \/ Covers(base.scopes)

(* createAgentCredentialMiddleware, to its first write.  A key in the URL, a   *)
(* malformed header, a proof that is not valid or an asserted agent that is    *)
(* not the proved one is answered at once; a request without proof goes on.    *)
Present ==
    /\ req.step = "idle" /\ Free
    /\ \E base \in Bases, token \in Ids \union {None, Forged},
          asserted \in Claims \union {Nobody} :
          /\ IF token = None THEN asserted = Nobody
             ELSE /\ Validates(token, base.tenant)
                  /\ asserted \in {Nobody, creds[token].lane.agent}
          /\ req' = [step |-> IF token = None THEN "handle" ELSE "mark",
                     as |-> Nobody, base |-> base, token |-> token,
                     state |-> IF token = None THEN "absent"
                               ELSE principals[creds[token].lane]]
    /\ UNCHANGED <<now, mode, tables, attested, files, op, canaries, slips>>

(* markCredentialUsed: it throws for a credential revoked meanwhile *)
MarkUsed ==
    /\ req.step = "mark" /\ Free
    /\ req' = IF creds[req.token].active THEN [req EXCEPT !.step = "handle"] ELSE Idle
    /\ UNCHANGED <<now, mode, tables, attested, files, op, canaries, slips>>

(* markCredentialAttested *)
Attests(c) == c # None /\ Usable(c, now)

(* GET /agent/whoami *)
Whoami ==
    /\ req.step = "handle" /\ Free
    /\ IF Attests(req.token)
       THEN LET proof == [counts |-> mode # "observe", at |-> now]
            IN /\ attested' = With(attested, req.token, proof)
               /\ canaries' = IF mode = "observe" THEN canaries
                              ELSE With(canaries, req.token, now)
       ELSE UNCHANGED <<attested, canaries>>
    /\ req' = Idle
    /\ UNCHANGED <<now, mode, tables, files, op, slips>>

(* getPrincipal *)
StateOf(tenant, agent) ==
    IF [tenant |-> tenant, agent |-> agent] \in Lanes
    THEN principals[[tenant |-> tenant, agent |-> agent]] ELSE "absent"

(* decideAgentAuthorization: the proved agent's state is the request's own     *)
(* copy, the claimed agent's state is read again                               *)
Allows(claim) ==
    IF req.token # None
    THEN req.state # "disabled" /\ claim \in {Nobody, creds[req.token].lane.agent}
    ELSE /\ mode # "required"
         /\ StateOf(req.base.tenant, claim) # "disabled"
         /\ mode = "mixed" => StateOf(req.base.tenant, claim) # "enforced"

(* assertAgentCredentialScope *)
InScope == IF req.token = None THEN mode # "required"
           ELSE Covers(creds[req.token].grant.scopes) /\ BaseCovers(req.base)

(* AGENT_ID_RULES and AGENT_SCOPE_ONLY_RULES: a tool acts as an agent, or it    *)
(* only needs a scope                                                           *)
Rules == {"agent id", "scope only"}

(* bindAgentInvocation: without a proof and a claim only observe lets a tool    *)
(* that acts through, as nobody                                                 *)
Bind ==
    /\ req.step = "handle" /\ Free
    /\ \E claim \in Claims \union {Nobody}, rule \in Rules :
          LET acting == rule = "agent id"
              agent == IF req.token = None THEN claim ELSE creds[req.token].lane.agent
              allowed == IF ~acting THEN InScope
                         ELSE /\ Allows(claim)
                              /\ agent = Nobody => mode = "observe"
                              /\ req.token # None => InScope
          IN req' = IF allowed
                    THEN [req EXCEPT !.step = "acts",
                                     !.as = IF acting THEN agent ELSE Nobody]
                    ELSE Idle
    /\ UNCHANGED <<now, mode, tables, attested, files, op, canaries, slips>>

Answered ==
    /\ req.step = "acts"
    /\ req' = Idle
    /\ UNCHANGED <<now, mode, tables, attested, files, op, canaries, slips>>

(* the process stops with its requests; the next one may run in another mode *)
Restart ==
    /\ mode' \in Modes
    /\ req' = Idle
    /\ UNCHANGED <<now, tables, attested, files, op, canaries, slips>>

----------------------------------------------------------------------------
(* The operator: runAgentAuthOperator *)

Run(step, new, p, c) == op' = [step |-> step, at |-> now, new |-> new, p |-> p, c |-> c]

(* a mutant of Proven: any attestation of the credential will do *)
ProvenOnce(c) == Usable(c, now) /\ c \in DOMAIN attested

(* hasCanaryProvenCredential *)
Proven(c) ==
    /\ Usable(c, now) /\ c \in DOMAIN attested
    /\ attested[c].counts       \* its auth_mode is mixed or required
    /\ creds[c].grant.from <= attested[c].at
    /\ attested[c].at <= now /\ attested[c].at >= now - MaxAge

Fresh(lane, grant) == [lane |-> lane, active |-> TRUE, next |-> None, grant |-> grant]

(* ensurePrincipal *)
Ensured(lane) ==
    [principals EXCEPT ![lane] = IF @ = "absent" THEN "staged" ELSE @]

(* The exclusive transaction begins; a refusal in it changes nothing. *)
Issue ==
    /\ op = Idle /\ NewId \in Ids
    /\ \E lane \in Lanes, create \in BOOLEAN, grant \in Grants :
          /\ principals[lane] \in IF create THEN {"absent"} ELSE {"staged", "enforced"}
          /\ Run("secret", NewId,
                 IF create THEN Ensured(lane) ELSE principals,
                 With(creds, NewId, Fresh(lane, grant)))
    /\ UNCHANGED <<now, server, tables, files, slips>>

(* a credential of the lane, named exactly *)
Own(c, lane) == c \in DOMAIN creds /\ creds[c].lane = lane

(* an enforced lane stays as it is *)
Promote ==
    /\ op = Idle
    /\ \E lane \in Lanes, c \in Ids :
          /\ Own(c, lane) /\ principals[lane] = "staged" /\ Proven(c)
          /\ Run("commit", None, [principals EXCEPT ![lane] = "enforced"], creds)
    /\ UNCHANGED <<now, server, tables, files, slips>>

(* rotateCredential: the old credential stays active next to its replacement *)
Retired(row, new) == [row EXCEPT !.next = new]

Rotate ==
    /\ op = Idle /\ NewId \in Ids
    /\ \E lane \in Lanes, c \in Ids, grant \in Grants :
          /\ Own(c, lane) /\ principals[lane] \in {"staged", "enforced"}
          /\ creds[c].active /\ creds[c].next = None
          /\ Run("secret", NewId, principals,
                 [With(creds, NewId, Fresh(lane, grant)) EXCEPT ![c] = Retired(@, NewId)])
    /\ UNCHANGED <<now, server, tables, files, slips>>

Revoke ==
    /\ op = Idle
    /\ \E lane \in Lanes, c \in Ids :
          /\ Own(c, lane) /\ principals[lane] # "absent" /\ creds[c].active
          /\ Run("commit", None, principals, [creds EXCEPT ![c].active = FALSE])
    /\ UNCHANGED <<now, server, tables, files, slips>>

(* a mutant of WriteSecret: the transaction is committed first *)
SecretLast ==
    /\ op # Idle /\ op.step = "secret"
    /\ principals' = op.p /\ creds' = op.c
    /\ op' = [op EXCEPT !.step = "commit"]
    /\ UNCHANGED <<now, server, files, slips>>

(* writeSecretOnce: a new file, on disk before the transaction is committed *)
WriteSecret ==
    /\ op # Idle /\ op.step = "secret"
    /\ files' = files \union {op.new}
    /\ op' = [op EXCEPT !.step = "commit"]
    /\ UNCHANGED <<now, server, tables, slips>>

CommitRun ==
    /\ op # Idle /\ op.step = "commit"
    /\ principals' = op.p /\ creds' = op.c
    /\ op' = Idle
    /\ UNCHANGED <<now, server, files, slips>>

(* A call fails: the transaction rolls back and the secret file goes, if it *)
(* can be removed; or the process dies and leaves it.                       *)
FailRun ==
    /\ op # Idle /\ slips < MaxFaults
    /\ slips' = slips + 1
    /\ op' = Idle
    /\ files' \in {files \ {op.new}, files}
    /\ UNCHANGED <<now, server, tables>>

Tick ==
    /\ now < MaxNow
    /\ now' = now + 1
    /\ UNCHANGED <<server, tables, files, op, slips>>

CredentialsNext ==
    \/ Present \/ MarkUsed \/ Whoami \/ Bind \/ Answered \/ Restart \/ Tick
    \/ Issue \/ Promote \/ Rotate \/ Revoke \/ WriteSecret \/ CommitRun \/ FailRun

CredentialsSpec == CredentialsInit /\ [][CredentialsNext]_credentialVars

----------------------------------------------------------------------------
(* A call that acts was let through by what the operator gave out: a token    *)
(* proves the agent of its lane in the tenant of the base key, with a scope   *)
(* of both; without a token the server does not require one.                  *)
ActsAreProven ==
    req.step = "acts" =>
        IF req.token \in DOMAIN creds
        THEN LET lane == creds[req.token].lane
             IN /\ lane.tenant = req.base.tenant
                /\ req.as \in {Nobody, lane.agent}
                /\ Covers(creds[req.token].grant.scopes) /\ BaseCovers(req.base)
        ELSE req.token = None /\ mode # "required"

(* Every credential in the tables has had its secret delivered, and a secret  *)
(* without a credential is left only by a run that failed.                    *)
SecretsAreDelivered ==
    /\ DOMAIN creds \subseteq files
    /\ op = Idle /\ slips = 0 => files = DOMAIN creds

(* A replacement belongs to the lane of what it replaces. *)
ChainsStayInLane ==
    \A c \in DOMAIN creds : creds[c].next # None =>
        creds[c].next \in DOMAIN creds /\ creds[creds[c].next].lane = creds[c].lane

CredentialsAreSafe == ActsAreProven /\ SecretsAreDelivered /\ ChainsStayInLane

(* A lane becomes enforced only when one of its credentials that is still     *)
(* usable was shown to work under mixed or required, recently.                *)
(* Only a revocation takes an active credential away, and a replacement once  *)
(* named stays.                                                               *)
CredentialStep ==
    /\ \A lane \in Lanes : principals[lane] # "enforced" /\ principals'[lane] = "enforced" =>
          \E c \in DOMAIN canaries : /\ creds[c].lane = lane /\ creds[c].active
                                     /\ op.at - canaries[c] \in 0..MaxAge
    /\ \A c \in DOMAIN creds :
          /\ creds[c].next # None => creds'[c].next = creds[c].next
          /\ creds[c].next # creds'[c].next => creds'[c].active
=============================================================================
