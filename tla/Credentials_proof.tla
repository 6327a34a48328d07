-------------------------- MODULE Credentials_proof --------------------------
(***************************************************************************)
(* Proofs about Credentials, for any lanes, grants and base keys, any      *)
(* number of credentials and failures and any age of a proof.              *)
(***************************************************************************)
EXTENDS Credentials, FiniteSetTheorems, TLAPS

(* The operator's run is at its secret, or at its commit. *)
AtSecret == op # Idle /\ op.step = "secret"
AtCommit == op # Idle /\ op.step = "commit"

CredentialRows == [lane : Lanes, active : BOOLEAN, next : Ids \cup {None}, grant : Grants]
Tables == UNION {[D -> CredentialRows] : D \in SUBSET Ids}
Agents == Claims \cup {Nobody} \cup {lane.agent : lane \in Lanes}
Calls == [step : {"mark", "handle", "acts"}, as : Agents, base : Bases,
          token : Ids \cup {None}, state : States]
OperatorRuns == [step : {"secret", "commit"}, at : Int, new : Ids \cup {None},
                 p : [Lanes -> States], c : Tables]

Typed ==
    /\ now \in Int /\ slips \in Nat
    /\ principals \in [Lanes -> States] /\ creds \in Tables
    /\ req = Idle \/ req \in Calls
    /\ op = Idle \/ op \in OperatorRuns

(* Files are numbered without a gap; the run's own is the next or the last. *)
Numbered == \E n \in Nat :
    /\ files = 1..n
    /\ AtSecret => op.new = n + 1
    /\ AtCommit => op.new \in {None, n}

(* Rows stay in their lane, keep their grant and their replacement, and an  *)
(* active one is the only one that is replaced.                             *)
Follows(new, old) ==
    /\ DOMAIN old \subseteq DOMAIN new
    /\ \A c \in DOMAIN old :
          /\ new[c].lane = old[c].lane /\ new[c].grant = old[c].grant
          /\ old[c].next # None => new[c].next = old[c].next
          /\ old[c].next # new[c].next => new[c].active

Chained(rows) == \A c \in DOMAIN rows : rows[c].next # None =>
    rows[c].next \in DOMAIN rows /\ rows[rows[c].next].lane = rows[c].lane

(* A lane is about to be enforced on a proof that stands. *)
Shown(lane) == \E c \in DOMAIN canaries :
    creds[c].lane = lane /\ creds[c].active /\ op.at - canaries[c] \in 0..MaxAge

(* What the run in progress will commit. *)
Pending ==
    op # Idle =>
        /\ Follows(op.c, creds) /\ Chained(op.c)
        /\ \A lane \in Lanes :
              principals[lane] # "enforced" /\ op.p[lane] = "enforced" => Shown(lane)

(* The secrets that are out are those of the rows the run will leave. *)
Delivered ==
    /\ DOMAIN creds \subseteq files
    /\ AtSecret => DOMAIN op.c = DOMAIN creds \cup {op.new}
    /\ AtCommit => DOMAIN op.c \subseteq files /\ op.new \notin DOMAIN creds
    /\ slips = 0 => /\ ~AtCommit => files = DOMAIN creds
                    /\ AtCommit => files = DOMAIN op.c

(* A token that was let in is of a row in the tenant of the base key. *)
Admitted ==
    req # Idle /\ req.token # None =>
        req.token \in DOMAIN creds /\ creds[req.token].lane.tenant = req.base.tenant

(* An attestation that counts is the canary. *)
Attested == \A c \in DOMAIN attested :
    attested[c].counts => /\ c \in DOMAIN canaries
                          /\ canaries[c] = attested[c].at /\ attested[c].at \in Int

CredentialInv ==
    /\ Typed /\ Numbered /\ Chained(creds) /\ Pending /\ Delivered
    /\ Admitted /\ ActsAreProven /\ Attested
-----------------------------------------------------------------------------
(* An identifier that is drawn is of no row and no file. *)
LEMMA NewIdIsFresh ==
    ASSUME Numbered, Delivered
    PROVE  NewId \notin files /\ files = 1..(NewId - 1) /\ NewId \in Nat \ {0}
<1>1. PICK n \in Nat : files = 1..n
  BY DEF Numbered
<1>2. files \cup DOMAIN creds = 1..n
  BY <1>1 DEF Delivered
<1>3. Cardinality(1..n) = n
  BY FS_Interval
<1>4. NewId = n + 1
  BY <1>2, <1>3 DEF NewId
<1> QED BY <1>1, <1>4

LEMMA TableForm ==
    ASSUME NEW c
    PROVE  c \in Tables <=> DOMAIN c \subseteq Ids /\ c \in [DOMAIN c -> CredentialRows]
BY DEF Tables

LEMMA InitialState == CredentialsAssumption /\ CredentialsInit => CredentialInv
<1> SUFFICES ASSUME CredentialsAssumption, CredentialsInit PROVE CredentialInv
  OBVIOUS
<1> USE DEF CredentialsInit, CredentialsAssumption, Idle
<1>1. creds \in [{} -> CredentialRows] /\ DOMAIN creds = {}
  OBVIOUS
<1>2. Typed
  <2>1. creds \in Tables
    BY <1>1, TableForm
  <2>2. now \in Int /\ slips \in Nat /\ principals \in [Lanes -> States]
    OBVIOUS
  <2> QED BY <2>1, <2>2 DEF Typed
<1>3. Numbered
  <2>1. files = 1..0
    OBVIOUS
  <2> QED BY <2>1 DEF Numbered, AtSecret, AtCommit
<1>4. Chained(creds) /\ Pending /\ Delivered
  BY <1>1 DEF Chained, Pending, Delivered, AtSecret, AtCommit
<1>5. Admitted /\ ActsAreProven /\ Attested
  BY DEF Admitted, ActsAreProven, Attested
<1> QED BY <1>2, <1>3, <1>4, <1>5 DEF CredentialInv
-----------------------------------------------------------------------------
(* The server's steps: they write requests, attestations and the clock. *)
TablesStay == UNCHANGED <<principals, creds, op, files, slips>>

LEMMA TablesKept ==
    ASSUME CredentialInv, TablesStay, op = Idle \/ UNCHANGED canaries
    PROVE  Numbered' /\ Chained(creds)' /\ Pending' /\ Delivered'
<1> USE DEF CredentialInv, TablesStay
<1>1. Numbered' /\ Delivered'
  BY DEF Numbered, Delivered, AtSecret, AtCommit
<1>2. Chained(creds)'
  BY DEF Chained
<1>3. Pending'
  BY DEF Pending, Shown, Follows, Chained
<1> QED BY <1>1, <1>2, <1>3

LEMMA ProvenTypes ==
    ASSUME Typed, NEW c \in DOMAIN creds
    PROVE  c \in Ids /\ creds[c] \in CredentialRows
BY TableForm DEF Typed

LEMMA PresentKeeps == CredentialsAssumption /\ CredentialInv /\ Present => CredentialInv'
<1> SUFFICES ASSUME CredentialsAssumption, CredentialInv, Present PROVE CredentialInv'
  OBVIOUS
<1>1. TablesStay /\ UNCHANGED <<now, mode, attested, canaries>> /\ req' # Idle
  BY DEF Present, TablesStay, tables, Idle
<1>2. PICK base \in Bases, token \in Ids \cup {None, Forged} :
        /\ token # None => Validates(token, base.tenant)
        /\ req' = [step |-> IF token = None THEN "handle" ELSE "mark",
                   as |-> Nobody, base |-> base, token |-> token,
                   state |-> IF token = None THEN "absent"
                             ELSE principals[creds[token].lane]]
  BY DEF Present
<1>3. token # None => /\ token \in DOMAIN creds /\ token \in Ids
                      /\ creds[token] \in CredentialRows
                      /\ creds[token].lane.tenant = base.tenant
  BY <1>2, ProvenTypes DEF Validates, Usable, CredentialInv
<1>4. req' \in Calls
  <2>1. token # None => principals[creds[token].lane] \in States
    BY <1>3 DEF CredentialInv, Typed, CredentialRows
  <2>2. token \in Ids \cup {None}
    BY <1>3
  <2> QED BY <1>2, <2>1, <2>2 DEF Calls, Agents, States
<1>5. Typed'
  BY <1>1, <1>4 DEF CredentialInv, Typed, TablesStay
<1>6. Admitted' /\ ActsAreProven'
  BY <1>1, <1>2, <1>3 DEF Admitted, ActsAreProven, TablesStay
<1>7. Attested'
  BY <1>1 DEF Attested, CredentialInv
<1> QED BY <1>1, <1>5, <1>6, <1>7, TablesKept DEF CredentialInv

LEMMA MarkUsedKeeps == CredentialInv /\ MarkUsed => CredentialInv'
<1> SUFFICES ASSUME CredentialInv, MarkUsed PROVE CredentialInv'
  OBVIOUS
<1>1. TablesStay /\ UNCHANGED <<now, mode, attested, canaries>>
  BY DEF MarkUsed, TablesStay, tables
<1>2. req \in Calls /\ req # Idle
  BY DEF MarkUsed, CredentialInv, Typed, Idle
<1>3. req' = Idle \/ req' = [req EXCEPT !.step = "handle"]
  BY DEF MarkUsed
<1>4. req' = Idle \/ (/\ req' \in Calls /\ req'.step = "handle"
                       /\ req'.token = req.token /\ req'.base = req.base)
  BY <1>2, <1>3 DEF Calls
<1>5. Typed'
  BY <1>1, <1>4 DEF CredentialInv, Typed, TablesStay
<1>6. Admitted' /\ ActsAreProven'
  BY <1>1, <1>2, <1>4 DEF CredentialInv, Admitted, ActsAreProven, TablesStay, Idle
<1>7. Attested'
  BY <1>1 DEF Attested, CredentialInv
<1> QED BY <1>1, <1>5, <1>6, <1>7, TablesKept DEF CredentialInv

LEMMA WhoamiKeeps == CredentialInv /\ Whoami => CredentialInv'
<1> SUFFICES ASSUME CredentialInv, Whoami PROVE CredentialInv'
  OBVIOUS
<1>1. TablesStay /\ UNCHANGED <<now, mode>> /\ op = Idle /\ req' = Idle
  BY DEF Whoami, TablesStay, tables, Free
<1>2. Typed' /\ Admitted' /\ ActsAreProven'
  BY <1>1 DEF CredentialInv, Typed, TablesStay, Admitted, ActsAreProven, Idle
<1>3. Attested'
  <2>1. CASE Attests(req.token)
    <3> DEFINE proof == [counts |-> mode # "observe", at |-> now]
    <3>1. attested' = With(attested, req.token, proof)
      BY <2>1 DEF Whoami
    <3>2. canaries' = IF mode = "observe" THEN canaries
                      ELSE With(canaries, req.token, now)
      BY <2>1 DEF Whoami
    <3>3. now \in Int
      BY DEF CredentialInv, Typed
    <3> QED BY <3>1, <3>2, <3>3 DEF Attested, CredentialInv, With
  <2>2. CASE ~Attests(req.token)
    BY <2>2 DEF Whoami, Attested, CredentialInv
  <2> QED BY <2>1, <2>2
<1> QED BY <1>1, <1>2, <1>3, TablesKept DEF CredentialInv
LEMMA BindKeeps == CredentialInv /\ Bind => CredentialInv'
<1> SUFFICES ASSUME CredentialInv, Bind PROVE CredentialInv'
  OBVIOUS
<1>1. TablesStay /\ UNCHANGED <<now, mode, attested, canaries>>
  BY DEF Bind, TablesStay, tables
<1>2. req \in Calls /\ req # Idle
  <2>1. req.step = "handle"
    BY DEF Bind
  <2> QED BY <2>1 DEF CredentialInv, Typed, Idle
<1> DEFINE lane == creds[req.token].lane
<1>3. req.token # None => /\ req.token \in DOMAIN creds /\ lane.tenant = req.base.tenant
                          /\ lane \in Lanes
  BY <1>2, ProvenTypes DEF CredentialInv, Admitted, CredentialRows
<1>4. PICK claim \in Claims \cup {Nobody}, rule \in Rules :
        LET acting == rule = "agent id"
            agent == IF req.token = None THEN claim ELSE lane.agent
            allowed == IF ~acting THEN InScope
                       ELSE /\ Allows(claim)
                            /\ agent = Nobody => mode = "observe"
                            /\ req.token # None => InScope
        IN req' = IF allowed
                  THEN [req EXCEPT !.step = "acts", !.as = IF acting THEN agent ELSE Nobody]
                  ELSE Idle
  BY DEF Bind
<1> DEFINE as == IF rule # "agent id" THEN Nobody
                 ELSE IF req.token = None THEN claim ELSE lane.agent
<1>5. \/ req' = Idle
      \/ /\ req' = [req EXCEPT !.step = "acts", !.as = as]
         /\ req.token = None => mode # "required"
         /\ req.token # None => Covers(creds[req.token].grant.scopes) /\ BaseCovers(req.base)
  BY <1>4 DEF InScope, Allows
<1>6. as \in Agents
  BY <1>3 DEF Agents
<1>7. \/ req' = Idle
      \/ /\ req' \in Calls /\ req'.as = as
         /\ req'.token = req.token /\ req'.base = req.base
         /\ req.token = None => mode # "required"
         /\ req.token # None => Covers(creds[req.token].grant.scopes) /\ BaseCovers(req.base)
  <2>1. [req EXCEPT !.step = "acts", !.as = as] \in Calls
    BY <1>2, <1>6 DEF Calls
  <2>2. /\ [req EXCEPT !.step = "acts", !.as = as].as = as
        /\ [req EXCEPT !.step = "acts", !.as = as].token = req.token
        /\ [req EXCEPT !.step = "acts", !.as = as].base = req.base
    BY <1>2 DEF Calls
  <2> QED BY <1>5, <2>1, <2>2
<1>8. Typed'
  BY <1>1, <1>7 DEF CredentialInv, Typed, TablesStay
<1>9. Admitted'
  BY <1>1, <1>3, <1>7 DEF Admitted, TablesStay
<1>10. ActsAreProven'
  <2>1. CASE req' = Idle
    BY <2>1 DEF ActsAreProven, Idle
  <2>2. CASE req' # Idle /\ req.token = None
    <3>1. None \notin DOMAIN creds
      BY ProvenTypes DEF None, Ids, CredentialInv
    <3> QED BY <1>1, <1>7, <2>2, <3>1 DEF ActsAreProven, TablesStay
  <2>3. CASE req' # Idle /\ req.token # None
    <3>1. as \in {Nobody, lane.agent}
      BY <2>3
    <3> QED BY <1>1, <1>3, <1>7, <2>3, <3>1 DEF ActsAreProven, TablesStay
  <2> QED BY <2>1, <2>2, <2>3
<1>11. Attested'
  BY <1>1 DEF Attested, CredentialInv
<1> QED BY <1>1, <1>8, <1>9, <1>10, <1>11, TablesKept DEF CredentialInv

LEMMA ServerRestKeeps ==
    CredentialsAssumption /\ CredentialInv /\ (Answered \/ Restart \/ Tick) => CredentialInv'
<1> SUFFICES ASSUME CredentialsAssumption, CredentialInv, Answered \/ Restart \/ Tick
             PROVE  CredentialInv'
  OBVIOUS
<1>1. TablesStay /\ UNCHANGED <<attested, canaries>>
  BY DEF Answered, Restart, Tick, TablesStay, tables, server
<1>2. now' \in Int /\ (req' = Idle \/ UNCHANGED <<req, mode>>)
  BY DEF Answered, Restart, Tick, server, CredentialInv, Typed
<1>3. Typed' /\ Admitted' /\ ActsAreProven'
  BY <1>1, <1>2 DEF CredentialInv, Typed, TablesStay, Admitted, ActsAreProven, Idle
<1>4. Attested'
  BY <1>1 DEF Attested, CredentialInv
<1> QED BY <1>1, <1>3, <1>4, TablesKept DEF CredentialInv
-----------------------------------------------------------------------------
(* The operator's steps leave the request alone; only a commit writes the   *)
(* tables.                                                                  *)
LEMMA RequestKept ==
    ASSUME CredentialInv, UNCHANGED <<now, server>>, Follows(creds', creds), creds' \in Tables
    PROVE  /\ Admitted' /\ ActsAreProven' /\ Attested'
           /\ now' \in Int /\ (req' = Idle \/ req' \in Calls)
<1> USE DEF CredentialInv, server
<1>1. now' \in Int /\ (req' = Idle \/ req' \in Calls)
  BY DEF Typed
<1>2. Admitted'
  BY DEF Admitted, Follows
<1>3. ActsAreProven'
  <2> SUFFICES ASSUME req.step = "acts" PROVE ActsAreProven'
    BY DEF ActsAreProven
  <2>1. req # Idle
    BY DEF Idle
  <2>2. CASE req.token = None
    <3>1. req.token \notin DOMAIN creds /\ req.token \notin DOMAIN creds'
      BY <2>2, TableForm DEF None, Ids, Typed
    <3>2. mode # "required"
      BY <3>1 DEF ActsAreProven
    <3> QED BY <2>2, <3>1, <3>2 DEF ActsAreProven
  <2>3. CASE req.token # None
    BY <2>1, <2>3 DEF ActsAreProven, Admitted, Follows
  <2> QED BY <2>2, <2>3
<1>4. Attested'
  BY DEF Attested
<1> QED BY <1>1, <1>2, <1>3, <1>4
LEMMA FollowsItself == ASSUME NEW c PROVE Follows(c, c)
BY DEF Follows

(* What the checks of a command have to establish for its run to begin. *)
LEMMA RunBegins ==
    ASSUME CredentialInv, op = Idle, UNCHANGED <<now, server, tables, files, slips>>,
           NEW step \in {"secret", "commit"}, NEW new, NEW p \in [Lanes -> States],
           NEW c \in Tables, Run(step, new, p, c), Follows(c, creds), Chained(c),
           step = "secret" => /\ new = NewId /\ new \in Ids
                              /\ DOMAIN c = DOMAIN creds \cup {new},
           step = "commit" => new = None /\ DOMAIN c = DOMAIN creds,
           \A lane \in Lanes : principals[lane] # "enforced" /\ p[lane] = "enforced" =>
               \E d \in DOMAIN canaries : /\ creds[d].lane = lane /\ creds[d].active
                                         /\ now - canaries[d] \in 0..MaxAge
    PROVE  CredentialInv'
<1>1. UNCHANGED <<principals, creds>> /\ UNCHANGED <<mode, req, attested, canaries>>
  BY DEF tables, server
<1>2. op' = [step |-> step, at |-> now, new |-> new, p |-> p, c |-> c]
  BY DEF Run
<1>3. op'.step = step /\ op'.at = now /\ op'.new = new /\ op'.p = p /\ op'.c = c
  BY <1>2
<1>4. op' \in OperatorRuns /\ op' # Idle
  BY <1>2 DEF OperatorRuns, CredentialInv, Typed, Idle
<1>5. creds \in Tables
  BY DEF CredentialInv, Typed
<1>6. /\ Admitted' /\ ActsAreProven' /\ Attested'
      /\ now' \in Int /\ (req' = Idle \/ req' \in Calls)
  BY <1>1, <1>5, RequestKept, FollowsItself
<1>7. Typed'
  BY <1>1, <1>4, <1>6 DEF CredentialInv, Typed
<1>8. Numbered'
  <2>1. PICK n \in Nat : files = 1..n
    BY DEF CredentialInv, Numbered
  <2>2. step = "secret" => new = n + 1
    <3>1. NewId \notin files /\ files = 1..(NewId - 1) /\ NewId \in Nat \ {0}
      BY NewIdIsFresh DEF CredentialInv
    <3>2. n = NewId - 1
      <4>1. n \in 1..(NewId - 1) \/ n = 0
        BY <2>1, <3>1
      <4>2. NewId - 1 \in 1..n \/ NewId - 1 = 0
        BY <2>1, <3>1
      <4> QED BY <2>1, <3>1, <4>1, <4>2
    <3> QED BY <2>1, <3>1, <3>2
  <2> QED BY <1>3, <2>1, <2>2 DEF Numbered, AtSecret, AtCommit
<1>9. Chained(creds)' /\ Chained(op.c)' /\ Follows(op.c, creds)'
  BY <1>1, <1>3 DEF CredentialInv, Chained, Follows
<1>10. Pending'
  BY <1>1, <1>3, <1>9 DEF Pending, Shown
<1>11. Delivered'
  <2>1. None \notin DOMAIN creds
    BY <1>5, TableForm DEF None, Ids
  <2> QED BY <1>1, <1>3, <2>1 DEF CredentialInv, Delivered, AtSecret, AtCommit
<1> QED BY <1>6, <1>7, <1>8, <1>9, <1>10, <1>11 DEF CredentialInv

(* A new row in the table, for a lane that is there. *)
LEMMA FreshRow ==
    ASSUME CredentialInv, op = Idle, NewId \in Ids, NEW lane \in Lanes, NEW grant \in Grants
    PROVE  LET c == With(creds, NewId, Fresh(lane, grant)) IN
           /\ c \in Tables /\ Follows(c, creds) /\ Chained(c)
           /\ DOMAIN c = DOMAIN creds \cup {NewId} /\ NewId \notin DOMAIN creds
           /\ c[NewId] = Fresh(lane, grant)
           /\ \A d \in DOMAIN creds : c[d] = creds[d]
<1> DEFINE c == With(creds, NewId, Fresh(lane, grant))
<1>1. NewId \notin DOMAIN creds
  BY NewIdIsFresh DEF CredentialInv, Delivered
<1>2. /\ DOMAIN c = DOMAIN creds \cup {NewId} /\ c[NewId] = Fresh(lane, grant)
      /\ \A d \in DOMAIN creds : c[d] = creds[d]
  BY <1>1 DEF With
<1>3. Fresh(lane, grant) \in CredentialRows
  BY DEF Fresh, CredentialRows, None
<1>4. DOMAIN creds \subseteq Ids /\ creds \in [DOMAIN creds -> CredentialRows]
  BY TableForm DEF CredentialInv, Typed
<1>5. c \in Tables
  <2>1. c = [d \in DOMAIN c |-> c[d]]
    BY DEF With
  <2>2. \A d \in DOMAIN c : c[d] \in CredentialRows
    BY <1>2, <1>3, <1>4
  <2>3. c \in [DOMAIN c -> CredentialRows]
    BY <2>1, <2>2
  <2>4. DOMAIN c \subseteq Ids
    BY <1>2, <1>4
  <2> QED BY <2>3, <2>4, TableForm
<1>6. Follows(c, creds)
  BY <1>2 DEF Follows
<1>7. Chained(c)
  <2>1. c[NewId].next = None
    BY <1>2 DEF Fresh
  <2> QED BY <1>2, <2>1 DEF Chained, CredentialInv
<1> QED BY <1>1, <1>2, <1>5, <1>6, <1>7

LEMMA IssueKeeps == CredentialsAssumption /\ CredentialInv /\ Issue => CredentialInv'
<1> SUFFICES ASSUME CredentialsAssumption, CredentialInv, Issue PROVE CredentialInv'
  OBVIOUS
<1>1. op = Idle /\ NewId \in Ids /\ UNCHANGED <<now, server, tables, files, slips>>
  BY DEF Issue
<1>2. PICK lane \in Lanes, create \in BOOLEAN, grant \in Grants :
        Run("secret", NewId, IF create THEN Ensured(lane) ELSE principals,
            With(creds, NewId, Fresh(lane, grant)))
  BY DEF Issue
<1> DEFINE p == IF create THEN Ensured(lane) ELSE principals
           c == With(creds, NewId, Fresh(lane, grant))
<1>3. principals \in [Lanes -> States]
  BY DEF CredentialInv, Typed
<1>4. p \in [Lanes -> States]
  BY <1>3 DEF Ensured, States
<1>5. \A l \in Lanes : p[l] = "enforced" => principals[l] = "enforced"
  BY <1>3 DEF Ensured
<1>6. /\ c \in Tables /\ Follows(c, creds) /\ Chained(c)
      /\ DOMAIN c = DOMAIN creds \cup {NewId}
  BY <1>1, FreshRow
<1>7. Run("secret", NewId, p, c)
  BY <1>2
<1> HIDE DEF p, c
<1> QED BY <1>1, <1>4, <1>5, <1>6, <1>7, RunBegins

LEMMA RotateKeeps == CredentialsAssumption /\ CredentialInv /\ Rotate => CredentialInv'
<1> SUFFICES ASSUME CredentialsAssumption, CredentialInv, Rotate PROVE CredentialInv'
  OBVIOUS
<1>1. op = Idle /\ NewId \in Ids /\ UNCHANGED <<now, server, tables, files, slips>>
  BY DEF Rotate
<1>2. PICK lane \in Lanes, old \in Ids, grant \in Grants :
        /\ Own(old, lane) /\ creds[old].active /\ creds[old].next = None
        /\ Run("secret", NewId, principals,
               [With(creds, NewId, Fresh(lane, grant)) EXCEPT ![old] = Retired(@, NewId)])
  BY DEF Rotate
<1> DEFINE b == With(creds, NewId, Fresh(lane, grant))
           c == [b EXCEPT ![old] = Retired(@, NewId)]
<1>3. /\ b \in Tables /\ Chained(b) /\ DOMAIN b = DOMAIN creds \cup {NewId}
      /\ NewId \notin DOMAIN creds /\ b[NewId] = Fresh(lane, grant)
      /\ \A d \in DOMAIN creds : b[d] = creds[d]
  BY <1>1, FreshRow
<1>4. old \in DOMAIN creds /\ creds[old].lane = lane /\ creds[old] \in CredentialRows
  BY <1>2, ProvenTypes DEF Own, CredentialInv
<1> HIDE DEF b
<1>5. /\ DOMAIN c = DOMAIN b /\ c[old] = [creds[old] EXCEPT !.next = NewId]
      /\ \A d \in DOMAIN b : d # old => c[d] = b[d]
  BY <1>3, <1>4 DEF Retired
<1>6. /\ c[old] \in CredentialRows /\ c[old].lane = lane /\ c[old].active
      /\ c[old].grant = creds[old].grant /\ c[old].next = NewId
  BY <1>1, <1>2, <1>4, <1>5 DEF CredentialRows
<1>7. c \in Tables
  <2>1. DOMAIN b \subseteq Ids /\ b \in [DOMAIN b -> CredentialRows]
    BY <1>3, TableForm
  <2>2. c \in [DOMAIN c -> CredentialRows]
    BY <1>5, <1>6, <2>1
  <2> QED BY <1>5, <2>1, <2>2, TableForm
<1>8. Follows(c, creds)
  BY <1>2, <1>3, <1>4, <1>5, <1>6 DEF Follows
<1>9. Chained(c)
  <2> SUFFICES ASSUME NEW d \in DOMAIN c, c[d].next # None
               PROVE  c[d].next \in DOMAIN c /\ c[c[d].next].lane = c[d].lane
    BY DEF Chained
  <2>0. \A e \in DOMAIN b : c[e].lane = b[e].lane
    BY <1>3, <1>4, <1>5, <1>6
  <2>1. CASE d = old
    <3>1. NewId \in DOMAIN b /\ b[NewId].lane = lane
      BY <1>3 DEF Fresh
    <3> QED BY <1>5, <1>6, <2>0, <2>1, <3>1
  <2>2. CASE d # old
    BY <1>3, <1>5, <2>0, <2>2 DEF Chained
  <2> QED BY <2>1, <2>2
<1>10. principals \in [Lanes -> States]
  BY DEF CredentialInv, Typed
<1>11. Run("secret", NewId, principals, c)
  BY <1>2 DEF b
<1> HIDE DEF c
<1> QED BY <1>1, <1>3, <1>5, <1>7, <1>8, <1>9, <1>10, <1>11, RunBegins
LEMMA PromoteKeeps == CredentialsAssumption /\ CredentialInv /\ Promote => CredentialInv'
<1> SUFFICES ASSUME CredentialsAssumption, CredentialInv, Promote PROVE CredentialInv'
  OBVIOUS
<1>1. op = Idle /\ UNCHANGED <<now, server, tables, files, slips>>
  BY DEF Promote
<1>2. PICK lane \in Lanes, c \in Ids :
        /\ Own(c, lane) /\ Proven(c)
        /\ Run("commit", None, [principals EXCEPT ![lane] = "enforced"], creds)
  BY DEF Promote
<1> DEFINE p == [principals EXCEPT ![lane] = "enforced"]
<1>3. principals \in [Lanes -> States] /\ creds \in Tables /\ now \in Int
  BY DEF CredentialInv, Typed
<1>4. p \in [Lanes -> States] /\ \A l \in Lanes : l # lane => p[l] = principals[l]
  BY <1>3 DEF States
<1>5. c \in DOMAIN canaries /\ canaries[c] \in Int /\ now - canaries[c] \in 0..MaxAge
  <2>1. c \in DOMAIN canaries /\ canaries[c] = attested[c].at /\ attested[c].at \in Int
    BY <1>2 DEF Proven, CredentialInv, Attested
  <2>2. attested[c].at <= now /\ attested[c].at >= now - MaxAge /\ MaxAge \in Nat
    BY <1>2 DEF Proven, CredentialsAssumption
  <2> QED BY <1>3, <2>1, <2>2
<1>6. creds[c].lane = lane /\ creds[c].active
  BY <1>2 DEF Own, Proven, Usable
<1>7. \A l \in Lanes : principals[l] # "enforced" /\ p[l] = "enforced" =>
        \E d \in DOMAIN canaries : /\ creds[d].lane = l /\ creds[d].active
                                  /\ now - canaries[d] \in 0..MaxAge
  BY <1>4, <1>5, <1>6
<1>8. Chained(creds) /\ Follows(creds, creds)
  BY FollowsItself DEF CredentialInv
<1>9. Run("commit", None, p, creds)
  BY <1>2
<1> HIDE DEF p
<1> QED BY <1>1, <1>3, <1>4, <1>7, <1>8, <1>9, RunBegins

LEMMA RevokeKeeps == CredentialInv /\ Revoke => CredentialInv'
<1> SUFFICES ASSUME CredentialInv, Revoke PROVE CredentialInv'
  OBVIOUS
<1>1. op = Idle /\ UNCHANGED <<now, server, tables, files, slips>>
  BY DEF Revoke
<1>2. PICK c \in Ids : /\ c \in DOMAIN creds
                       /\ Run("commit", None, principals, [creds EXCEPT ![c].active = FALSE])
  BY DEF Revoke, Own
<1> DEFINE left == [creds EXCEPT ![c].active = FALSE]
<1>3. principals \in [Lanes -> States] /\ creds \in Tables
  BY DEF CredentialInv, Typed
<1>4. creds \in [DOMAIN creds -> CredentialRows] /\ DOMAIN creds \subseteq Ids
  BY <1>3, TableForm
<1>5. left = [creds EXCEPT ![c] = [creds[c] EXCEPT !.active = FALSE]]
  OBVIOUS
<1>6. LET row == [creds[c] EXCEPT !.active = FALSE] IN
      /\ row \in CredentialRows /\ row.lane = creds[c].lane
      /\ row.grant = creds[c].grant /\ row.next = creds[c].next
  BY <1>2, <1>4 DEF CredentialRows
<1>7. /\ DOMAIN left = DOMAIN creds /\ left[c] = [creds[c] EXCEPT !.active = FALSE]
      /\ \A d \in DOMAIN creds : d # c => left[d] = creds[d]
  BY <1>2, <1>5
<1>8. left \in Tables
  <2>1. left \in [DOMAIN left -> CredentialRows]
    BY <1>4, <1>5, <1>6, <1>7
  <2> QED BY <1>4, <1>7, <2>1, TableForm
<1>9. \A d \in DOMAIN creds : /\ left[d].lane = creds[d].lane
                              /\ left[d].grant = creds[d].grant
                              /\ left[d].next = creds[d].next
  BY <1>6, <1>7
<1>10. Run("commit", None, principals, left)
  BY <1>2
<1> HIDE DEF left
<1>11. Follows(left, creds) /\ Chained(left)
  BY <1>7, <1>9 DEF Follows, Chained, CredentialInv
<1> QED BY <1>1, <1>3, <1>7, <1>8, <1>10, <1>11, RunBegins

LEMMA WriteSecretKeeps == CredentialInv /\ WriteSecret => CredentialInv'
<1> SUFFICES ASSUME CredentialInv, WriteSecret PROVE CredentialInv'
  OBVIOUS
<1>1. /\ AtSecret /\ op' = [op EXCEPT !.step = "commit"] /\ files' = files \cup {op.new}
      /\ UNCHANGED <<now, server, slips>> /\ UNCHANGED <<principals, creds>>
  BY DEF WriteSecret, AtSecret, tables
<1>2. op \in OperatorRuns
  BY <1>1 DEF CredentialInv, Typed, AtSecret
<1>3. /\ op' \in OperatorRuns /\ op'.step = "commit" /\ op'.at = op.at
      /\ op'.new = op.new /\ op'.p = op.p /\ op'.c = op.c
  BY <1>1, <1>2 DEF OperatorRuns
<1>4. op' # Idle
  BY <1>3 DEF Idle
<1>5. /\ Admitted' /\ ActsAreProven' /\ Attested'
      /\ now' \in Int /\ (req' = Idle \/ req' \in Calls)
  BY <1>1, RequestKept, FollowsItself DEF CredentialInv, Typed
<1>6. Typed'
  BY <1>1, <1>3, <1>5 DEF CredentialInv, Typed
<1>7. PICK n \in Nat : files = 1..n /\ op.new = n + 1
  BY <1>1 DEF CredentialInv, Numbered
<1>8. Numbered'
  <2>1. files' = 1..(n + 1)
    BY <1>1, <1>7
  <2> QED BY <1>3, <1>7, <2>1 DEF Numbered, AtSecret, AtCommit
<1>9. Chained(creds)' /\ Pending'
  BY <1>1, <1>3 DEF CredentialInv, Chained, Pending, Follows, Shown, AtSecret, server
<1>10. Delivered'
  <2>1. op.new \notin DOMAIN creds
    BY <1>7 DEF CredentialInv, Delivered
  <2> QED BY <1>1, <1>3, <1>4, <2>1 DEF CredentialInv, Delivered, AtSecret, AtCommit
<1> QED BY <1>5, <1>6, <1>8, <1>9, <1>10 DEF CredentialInv

LEMMA CommitRunKeeps == CredentialInv /\ CommitRun => CredentialInv'
<1> SUFFICES ASSUME CredentialInv, CommitRun PROVE CredentialInv'
  OBVIOUS
<1>1. /\ AtCommit /\ op' = Idle /\ principals' = op.p /\ creds' = op.c
      /\ UNCHANGED <<now, server, files, slips>>
  BY DEF CommitRun, AtCommit
<1>2. op \in OperatorRuns /\ Follows(op.c, creds) /\ Chained(op.c)
  BY <1>1 DEF CredentialInv, Typed, Pending, AtCommit
<1>3. principals' \in [Lanes -> States] /\ creds' \in Tables
  BY <1>1, <1>2 DEF OperatorRuns
<1>4. /\ Admitted' /\ ActsAreProven' /\ Attested'
      /\ now' \in Int /\ (req' = Idle \/ req' \in Calls)
  BY <1>1, <1>2, <1>3, RequestKept
<1>5. Typed'
  BY <1>1, <1>3, <1>4 DEF CredentialInv, Typed
<1>6. Numbered' /\ Pending'
  BY <1>1 DEF CredentialInv, Numbered, Pending, AtSecret, AtCommit
<1>7. Chained(creds)' /\ Delivered'
  BY <1>1, <1>2 DEF CredentialInv, Chained, Delivered, AtSecret, AtCommit
<1> QED BY <1>4, <1>5, <1>6, <1>7 DEF CredentialInv

LEMMA FailRunKeeps == CredentialInv /\ FailRun => CredentialInv'
<1> SUFFICES ASSUME CredentialInv, FailRun PROVE CredentialInv'
  OBVIOUS
<1>1. /\ op # Idle /\ op' = Idle /\ slips' = slips + 1
      /\ files' \in {files \ {op.new}, files}
      /\ UNCHANGED <<now, server>> /\ UNCHANGED <<principals, creds>>
  BY DEF FailRun, tables
<1>2. op \in OperatorRuns /\ slips' \in Nat /\ slips' # 0
  BY <1>1 DEF CredentialInv, Typed
<1>3. AtSecret \/ AtCommit
  BY <1>1, <1>2 DEF OperatorRuns, AtSecret, AtCommit
<1>4. /\ Admitted' /\ ActsAreProven' /\ Attested'
      /\ now' \in Int /\ (req' = Idle \/ req' \in Calls)
  BY <1>1, RequestKept, FollowsItself DEF CredentialInv, Typed
<1>5. Typed'
  BY <1>1, <1>2, <1>4 DEF CredentialInv, Typed
<1>6. PICK n \in Nat : /\ files = 1..n
                       /\ AtSecret => op.new = n + 1
                       /\ AtCommit => op.new \in {None, n}
  BY DEF CredentialInv, Numbered
<1>7. \E m \in Nat : files' = 1..m
  <2>1. CASE op.new = n /\ n # 0
    <3>1. files \ {op.new} = 1..(n - 1) /\ n - 1 \in Nat
      BY <1>6, <2>1
    <3> QED BY <1>1, <1>6, <3>1
  <2>2. CASE ~(op.new = n /\ n # 0)
    <3>1. op.new \in {None, n + 1}
      BY <1>3, <1>6, <2>2 DEF None
    <3>2. op.new \notin 1..n
      BY <3>1 DEF None
    <3>3. files \ {op.new} = files
      BY <1>6, <3>2
    <3> QED BY <1>1, <1>6, <3>3
  <2> QED BY <2>1, <2>2
<1>8. Numbered' /\ Pending' /\ Chained(creds)'
  BY <1>1, <1>7 DEF CredentialInv, Numbered, Pending, Chained, AtSecret, AtCommit
<1>9. Delivered'
  <2>1. op.new \notin DOMAIN creds
    <3>1. CASE AtSecret
      BY <1>6, <3>1 DEF CredentialInv, Delivered
    <3>2. CASE AtCommit
      BY <3>2 DEF CredentialInv, Delivered
    <3> QED BY <1>3, <3>1, <3>2
  <2> QED BY <1>1, <1>2, <2>1 DEF CredentialInv, Delivered, AtSecret, AtCommit
<1> QED BY <1>4, <1>5, <1>8, <1>9 DEF CredentialInv
-----------------------------------------------------------------------------
LEMMA CredentialInvStep ==
    CredentialsAssumption /\ CredentialInv /\ [CredentialsNext]_credentialVars => CredentialInv'
<1> SUFFICES ASSUME CredentialsAssumption, CredentialInv, [CredentialsNext]_credentialVars
             PROVE  CredentialInv'
  OBVIOUS
<1>1. CASE Present \/ MarkUsed \/ Whoami \/ Bind \/ Answered \/ Restart \/ Tick
  BY <1>1, PresentKeeps, MarkUsedKeeps, WhoamiKeeps, BindKeeps, ServerRestKeeps
<1>2. CASE Issue \/ Promote \/ Rotate \/ Revoke
  BY <1>2, IssueKeeps, PromoteKeeps, RotateKeeps, RevokeKeeps
<1>3. CASE WriteSecret \/ CommitRun \/ FailRun
  BY <1>3, WriteSecretKeeps, CommitRunKeeps, FailRunKeeps
<1>4. CASE UNCHANGED credentialVars
  <2>1. TablesStay /\ UNCHANGED <<now, mode, req, attested, canaries>>
    BY <1>4 DEF credentialVars, TablesStay
  <2>2. Typed' /\ Admitted' /\ ActsAreProven' /\ Attested'
    BY <2>1 DEF CredentialInv, Typed, Admitted, ActsAreProven, Attested, TablesStay
  <2> QED BY <2>1, <2>2, TablesKept DEF CredentialInv
<1> QED BY <1>1, <1>2, <1>3, <1>4 DEF CredentialsNext

(* A call that acts was let through by what the operator gave out, secrets   *)
(* and rows belong together, and replacements stay in their lane, whatever   *)
(* fails and whatever the operator changes during the call.                  *)
THEOREM CallsAreProven ==
    ASSUME CredentialsAssumption PROVE CredentialsSpec => []CredentialsAreSafe
<1>1. CredentialsInit => CredentialInv
  BY InitialState
<1>2. CredentialInv /\ [CredentialsNext]_credentialVars => CredentialInv'
  BY CredentialInvStep
<1>3. CredentialInv => CredentialsAreSafe
  BY DEF CredentialInv, CredentialsAreSafe, SecretsAreDelivered, ChainsStayInLane,
         Chained, Delivered, AtCommit
<1> QED BY <1>1, <1>2, <1>3, PTL DEF CredentialsSpec

(* Enforcement of a lane follows a recent proof by a credential of the lane  *)
(* that is still active, and a row keeps the replacement it has once.        *)
THEOREM EnforcementFollowsAProof ==
    ASSUME CredentialsAssumption
    PROVE  CredentialsSpec => [][CredentialStep]_credentialVars
<1>1. CredentialsInit => CredentialInv
  BY InitialState
<1>2. CredentialInv /\ [CredentialsNext]_credentialVars => CredentialInv'
  BY CredentialInvStep
<1>3. CredentialInv /\ CredentialsNext => CredentialStep
  <2> SUFFICES ASSUME CredentialInv, CredentialsNext PROVE CredentialStep
    OBVIOUS
  <2>1. CASE CommitRun
    <3>1. AtCommit /\ principals' = op.p /\ creds' = op.c
      BY <2>1 DEF CommitRun, AtCommit
    <3> QED BY <3>1 DEF CredentialInv, Pending, AtCommit, Follows, Shown, CredentialStep
  <2>2. CASE ~CommitRun
    <3>1. UNCHANGED <<principals, creds>>
      BY <2>2 DEF CredentialsNext, Present, MarkUsed, Whoami, Bind, Answered, Restart, Tick,
                  Issue, Promote, Rotate, Revoke, WriteSecret, FailRun, tables
    <3> QED BY <3>1 DEF CredentialStep
  <2> QED BY <2>1, <2>2
<1>4. CredentialInv /\ [CredentialsNext]_credentialVars => [CredentialStep]_credentialVars
  BY <1>3
<1> QED BY <1>1, <1>2, <1>4, PTL DEF CredentialsSpec
=============================================================================
