----------------------------- MODULE MCCleanup ------------------------------
EXTENDS Cleanup

Ids2 == {1, 2}
N(k) == [key |-> k, exact |-> TRUE]
Variant(k) == [key |-> k, exact |-> FALSE]
Ref(i, n) == [id |-> i, name |-> n]
NoRef == Ref(NoId, NoName)

Mail(i, t, from, to, c, legacy) ==
    [id |-> i, tenant |-> t, from |-> from, to |-> to, content |-> c, legacy |-> legacy]

Shared(i, t, type, by) ==
    [id |-> i, tenant |-> t, type |-> type, by |-> by, parses |-> TRUE, marked |-> FALSE,
     names |-> {}, name |-> NoName, body |-> NoBody, maker |-> "nobody",
     parent |-> NoRef, shaped |-> FALSE, from |-> NoRef, to |-> NoRef,
     sender |-> "", recipient |-> "", text |-> Text("")]
Detail(i, t, by, n, b) ==
    [Shared(i, t, "entity", by) EXCEPT !.marked = TRUE, !.names = {n}, !.name = n, !.body = b]
Entity(i, n) == [Shared(i, 1, "entity", "ann") EXCEPT !.names = {n}, !.name = n]
Observation(i, ref, shaped) ==
    [Shared(i, 1, "observation", "ann") EXCEPT !.parent = ref, !.shaped = shaped]
Relation(i, a, b) == [Shared(i, 1, "relation", "ann") EXCEPT !.from = a, !.to = b]
Copy(i, c) ==
    [Shared(i, 1, "ai_message", "ann") EXCEPT !.sender = "ann", !.recipient = "bob", !.text = c]

MCMails ==
    {Mail(1, 1, "ann", "bob", Pointer(N(1)), NoId),
     Mail(2, 1, "ann", "bob", Malformed, NoId),
     Mail(1, 1, "ann", "bob", Pointer(N(1)), 32),
     Mail(1, 1, "ann", "bob", Text("long"), NoId),
     Mail(2, 1, "ann", "bob", Text("hello"), 31),
     Mail(2, 2, "ann", "bob", Text("hello"), 31)}

MCShareds ==
    {Detail(11, 1, "ann", N(1), "long"),
     Detail(12, 1, "mal", N(1), "other"),
     Detail(12, 1, "ann", Variant(1), "long"),
     Detail(13, 2, "ann", N(1), "long"),
     [Entity(14, N(1)) EXCEPT !.names = {N(100), N(1)}],
     Entity(20, N(100)),
     Observation(15, Ref(11, NoName), FALSE),
     Observation(16, Ref(NoId, N(1)), TRUE),
     Observation(17, Ref(20, N(100)), FALSE),
     Observation(18, Ref(NoId, N(200)), TRUE),
     Relation(19, Ref(NoId, N(100)), Ref(NoId, N(1))),
     Relation(22, Ref(NoId, N(100)), Ref(NoId, N(300))),
     Copy(31, Text("hello")),
     Copy(32, Pointer(N(1))),
     [Copy(31, Text("hello")) EXCEPT !.parses = FALSE]}

Slotted(r, s) == [Indexed(r) EXCEPT !.slot = s]

(* index rows without a row of their own, or that share a vector *)
MCStrays ==
    {Slotted(Observation(41, Ref(NoId, N(200)), TRUE), 41),
     Slotted(Observation(42, Ref(NoId, N(1)), FALSE), 11),
     Slotted(Copy(1, Text("long")), 43),
     Slotted(Copy(31, Text("hello")), 31),
     Slotted(Detail(11, 1, "ann", N(1), "long"), NoSlot)}

MCLost == {{}, {11}}
=============================================================================
