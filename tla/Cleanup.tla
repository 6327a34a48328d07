------------------------------ MODULE Cleanup -------------------------------
(***************************************************************************)
(* What becomes of a database on its way through the offline tools:        *)
(* adjudication where migration 007 refuses it, migration 007, the         *)
(* emptying of the quarantine, and the sanitation that copies a clean      *)
(* database.  Each tool works in one transaction or on a locked file; how  *)
(* they hold on to that is in Migration and Vacuum.  A step here is one    *)
(* run of a tool that got through.                                         *)
(***************************************************************************)
EXTENDS Adjudication

CONSTANTS
    Mails,     \* rows the mailbox may have
    Shareds,   \* rows shared memory may have
    Strays,    \* index rows that are not simply those of the shared rows
    Lost,      \* vectors that may be missing
    MaxRows    \* rows of a database, the index rows apart

VARIABLES
    db,      \* the database
    held,    \* private_message_residue_quarantine
    was,     \* the database as it was found
    copies   \* databases the sanitation has published

cleanupVars == <<db, held, was, copies>>

(* A mailbox row has its six columns, an entity's names include the one it is *)
(* made under, and the index keeps the type of the row that it was made from. *)
IsMail(m) == m = [id |-> m.id, tenant |-> m.tenant, from |-> m.from, to |-> m.to,
                  content |-> m.content, legacy |-> m.legacy]
CleanupAssumption ==
    /\ IsFiniteSet(Mails) /\ IsFiniteSet(Shareds)
    /\ \A m \in Mails : IsMail(m)
    /\ \A r \in Shareds : r.name # NoName => r.name \in r.names
    /\ \A x \in Strays, r \in Shareds : Key(x) = Key(r) => x.type = r.type

Distinct(S) == \A r, s \in S : Key(r) = Key(s) => r = s
Indexed(r) == [id |-> r.id, tenant |-> r.tenant, type |-> r.type, copy |-> r, slot |-> r.id]

(* any few rows, with the index rows of all of them or of none *)
Init ==
    /\ \E n \in 1..MaxRows : \E S \in kSubset(n, Mails \union Shareds) :
          /\ Distinct(S \cap Mails) /\ Distinct(S \cap Shareds)
          /\ \E all \in BOOLEAN, stray \in {{}} \union {{x} : x \in Strays}, lost \in Lost :
                LET rows == {r \in S \cap Shareds : all}
                    index == {Indexed(r) : r \in rows} \union stray
                IN /\ Distinct(index)
                   /\ db = [messages |-> S \cap Mails, shared |-> S \cap Shareds,
                            index |-> index,
                            vectors |-> {x.slot : x \in index} \ ({NoSlot} \union lost),
                            lookups |-> {Key(r) : r \in S \cap Shareds}]
    /\ held = {}
    /\ was = db
    /\ copies = {}

(* execute commits an accepted plan only when 007 would then run *)
Adjudicate ==
    /\ Findings(db) # {}
    /\ \E plan \in Manifests(Options(db, Findings(db))) :
          /\ Accepts(db, plan)
          /\ Ready(Adjudicated(db, plan))
          /\ db' = Adjudicated(db, plan)
          /\ held' = held \union Quarantined(db, plan)
    /\ UNCHANGED <<was, copies>>

(* execute of migration 007 *)
Migrate ==
    /\ Ready(db)
    /\ ~Clean(db)
    /\ db' = Migrated(db)
    /\ UNCHANGED <<held, was, copies>>

(* the owner exports the quarantined rows and empties the table *)
Release ==
    /\ held # {}
    /\ held' = {}
    /\ was' = db
    /\ UNCHANGED <<db, copies>>

(* planVacuumSanitation is ready and its run is verified *)
Sanitize ==
    /\ Clean(db)
    /\ held = {}
    /\ copies' = copies \union {db}
    /\ UNCHANGED <<db, held, was>>

Next == Adjudicate \/ Migrate \/ Release \/ Sanitize

Spec == Init /\ [][Next]_cleanupVars

----------------------------------------------------------------------------
(* No private text is lost: a shared body that is gone is in the quarantine, *)
(* or it is what some mailbox row of its tenant says; and of a copy of a     *)
(* message the message is there, in the copy's words unless it pointed.      *)
NothingIsLost ==
    \A r \in was.shared \ db.shared :
        \/ r \in held
        \/ /\ IsDetail(r)
           /\ \E m \in db.messages : m.tenant = r.tenant /\ m.content = Text(r.body)
        \/ /\ r.type = "ai_message"
           /\ \E m \in db.messages :
                 /\ m.tenant = r.tenant /\ m.from = r.sender /\ m.to = r.recipient
                 /\ r.text.shape = "text" => m.content = r.text
        \/ r.type \in {"observation", "relation"}

(* A mailbox row changes only from a pointer to the body its own sender *)
(* stored for that message in that tenant.                              *)
MailKeepsItsSender ==
    /\ {Key(m) : m \in db.messages} = {Key(m) : m \in was.messages}
    /\ \A m \in db.messages \ was.messages :
          \E d \in was.shared :
             /\ IsDetail(d) /\ d.tenant = m.tenant /\ d.by = m.from
             /\ d.name = ExpectedName(m) /\ m.content = Text(d.body)

(* A row that leaves by itself, without a decision about it, was private: a *)
(* detail, something attached to a detail only, or a copy of a message.     *)
PublicRowsStay ==
    \A r \in was.shared \ (db.shared \union held) :
        \/ IsDetail(r)
        \/ r.type = "ai_message"
        \/ r.type = "observation" /\ Parents(was, r) # {}
              /\ \A e \in Parents(was, r) : IsDetail(e)
        \/ r.type = "relation" /\ \E ref \in {r.from, r.to} :
              LET found == Resolve(was, r.tenant, ref)
              IN found # {} /\ \A e \in found : IsDetail(e)

(* Nothing of a removed row remains findable: no index row, no lookup row, *)
(* and no vector nobody owns.                                              *)
NothingDangles ==
    LET gone == {Key(r) : r \in was.shared \ db.shared}
        slots(d) == {x.slot : x \in d.index}
    IN /\ \A k \in gone : k \notin db.lookups /\ IndexOf(db, k) = {}
       /\ \A v \in db.vectors : v \in slots(was) => v \in slots(db)
       /\ \A x \in db.index : x.slot \in was.vectors => x.slot \in db.vectors

(* A published copy holds no residue and no custody of any. *)
CopiesAreClean == \A c \in copies : Clean(c) /\ Pointers(c) = {} /\ Details(c) = {}

CleanupIsSafe ==
    /\ NothingIsLost
    /\ MailKeepsItsSender
    /\ PublicRowsStay
    /\ NothingDangles
    /\ CopiesAreClean

(* One run of migration 007 is enough: what it leaves, it finds clean. *)
OneRunCleans == Migrate => Clean(db')
=============================================================================
