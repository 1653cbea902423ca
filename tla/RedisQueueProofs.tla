-------------------------- MODULE RedisQueueProofs --------------------------
(***************************************************************************)
(* What is proved of RedisQueue, for any number of jobs, calls and tokens. *)
(*                                                                         *)
(* No operation of this queue is atomic, so the argument is about who may  *)
(* touch a row: a call grips a row from the moment the sorted set it took  *)
(* the row from has let it go, and until it puts the row back, and a row   *)
(* is in one set or in one grip.  A lease is good for as long as someone   *)
(* alive answers for it, because nobody reclaims it before it expires and  *)
(* a healthy client does not let that happen.                              *)
(***************************************************************************)
EXTENDS RedisQueue, SequenceTheorems, FiniteSetTheorems, TLAPS

\* What the contract needs of those around the queue (see ImplementsLeaseQueue):
\* nobody cancels, no client is paused past its lease, and one caller at a time
\* runs maintenance.
Peaceful ==
    /\ "cancel" \notin Ops
    /\ "stall" \notin Mishaps
    /\ \A p, q \in Reclaimers : p = q

-----------------------------------------------------------------------------
(* Where a call is *)

OpNames == {"push", "pull", "ack", "nack", "nack dead", "heartbeat", "reclaim",
            "retry", "discard"}

Last == {"enqueue", "lease", "bury", "erase"}
Words == Last \union {"mark", "unmark", "load", "save", "unready", "unlease", "undead", "slot",
                      "unslot", "extend"}

\* The store call with which an operation starts on a member.
First(op, j) ==
    CASE op = "push" -> IF Keyed(j) THEN "mark" ELSE "save"
      [] op = "pull" -> "unready"
      [] op = "reclaim" -> "unlease"
      [] op \in {"retry", "discard"} -> "undead"
      [] OTHER -> "load"

\* The one that follows `now`.
Then(op, j, now) ==
    CASE now = "mark" -> "save"
      [] now = "unready" -> "load"
      [] now = "undead" -> IF op = "retry" THEN "load" ELSE "erase"
      [] now = "load" /\ op \in Settles -> "unlease"
      [] now = "load" /\ op \in {"pull", "reclaim", "heartbeat"} /\ Serial(j) ->
            IF op = "pull" THEN "slot" ELSE IF op = "reclaim" THEN "unslot" ELSE "extend"
      [] now = "unlease" /\ op = "reclaim" -> "load"
      [] now = "unlease" /\ op = "ack" /\ Keyed(j) -> "unmark"
      [] now = "unlease" /\ op \in Settles /\ ~(op = "ack" /\ Keyed(j)) /\ Serial(j) -> "unslot"
      [] now = "unlease" /\ op = "nack dead" /\ Keyed(j) /\ ~Serial(j) -> "unmark"
      [] now = "unmark" /\ op = "ack" /\ Serial(j) -> "unslot"
      [] now = "unslot" /\ op = "nack dead" /\ Keyed(j) -> "unmark"
      [] now = "save" /\ op = "ack" -> "erase"
      [] now = "save" /\ op = "nack dead" -> "bury"
      [] now = "save" /\ op \in {"pull", "heartbeat"} -> "lease"
      [] now = "save" /\ op \in {"push", "nack", "reclaim", "retry"} -> "enqueue"
      [] OTHER -> "save"

\* The store calls an operation makes.
Makes(op) ==
    CASE op = "push" -> {"mark", "save", "enqueue"}
      [] op = "pull" -> {"unready", "load", "slot", "save", "lease", "enqueue"}
      [] op = "ack" -> {"load", "unlease", "unmark", "unslot", "save", "erase"}
      [] op = "nack" -> {"load", "unlease", "unslot", "save", "enqueue"}
      [] op = "nack dead" -> {"load", "unlease", "unmark", "unslot", "save", "bury"}
      [] op = "heartbeat" -> {"load", "extend", "save", "lease"}
      [] op = "reclaim" -> {"unlease", "load", "unslot", "save", "enqueue"}
      [] op = "retry" -> {"undead", "load", "save", "enqueue"}
      [] OTHER -> {"undead", "erase"}

\* The rest of a route: each store call is followed by the next one of its operation.
Chain(op, j, r) ==
    /\ r \in Seq(Words) /\ r # <<>>
    /\ r[1] = "mark" => Keyed(j)
    /\ \A i \in 1..Len(r) :
        /\ r[i] \in Makes(op)
        /\ IF i = Len(r) THEN r[i] \in Last
           ELSE r[i] \notin Last /\ r[i + 1] = Then(op, j, r[i])

Calls == [op : OpNames \union {"idle", "cancel"}, todo : Seq(Jobs), route : Seq(Words), copy : Held,
          token : Tokens \union {NoToken}, until : 0..LeaseLen, got : SUBSET (Jobs \X Tokens)]

\* A call that is under way.
Busily(c) ==
    /\ c.todo # <<>>
    /\ c.op \in Ops \intersect OpNames
    /\ Chain(c.op, c.todo[1], c.route)
    /\ \A a, b \in 1..Len(c.todo) : c.todo[a] = c.todo[b] => a = b
    /\ c.op \notin {"pull", "reclaim"} => Len(c.todo) = 1
    /\ c.op # "pull" => c.got = {}
    /\ c.op \in {"pull", "heartbeat"} => c.until >= 1

Acting(p) == call[p].todo # <<>>
Op(p) == call[p].op
On(p) == Head(call[p].route)
Lease1(p) == <<Job(p), call[p].token>>

Shape(p) ==
    /\ call[p] \in Calls
    /\ call[p] = Idle \/ Busily(call[p])
    /\ Acting(p) /\ Op(p) = "reclaim" => p \in Reclaimers
    /\ \A a \in 1..Len(call[p].todo) : call[p].todo[a] \in pushed

Typed ==
    /\ TypeOKR
    /\ \A p \in Callers : Shape(p)
    /\ ready \in [DOMAIN ready -> Int] /\ leased \in [DOMAIN leased -> 0..LeaseLen]
    /\ slot \in [Names -> [job : Jobs \union {NoJob}, left : 0..LeaseLen]]
    /\ pushed \subseteq Jobs /\ finished \subseteq Jobs
    /\ call \in [Callers -> Calls]

-----------------------------------------------------------------------------
(* Who may touch a row *)

\* The store calls before the one with which a call takes a row out of its set.
Before(op) ==
    CASE op = "pull" -> {"unready"}
      [] op = "reclaim" -> {"unlease"}
      [] op \in {"retry", "discard"} -> {"undead"}
      [] op \in Settles -> {"load", "unlease"}
      [] op = "heartbeat" -> {"load", "extend", "save", "lease"}
      [] OTHER -> {}

Grips(p, j) == Acting(p) /\ Job(p) = j /\ On(p) \notin Before(Op(p))

\* A row is in one set or in one grip.
InNone(j) == j \notin DOMAIN ready /\ j \notin DOMAIN leased /\ j \notin dead

OneAt(j) ==
    /\ j \in DOMAIN ready => j \notin DOMAIN leased /\ j \notin dead
    /\ j \in DOMAIN leased => j \notin dead
    /\ \A p \in Callers : Grips(p, j) => InNone(j)
    /\ \A p, q \in Callers : Grips(p, j) /\ Grips(q, j) => p = q

Waits(b) == b.state \in Waiting /\ b.token = NoToken
Runs(b) == b.state = "running" /\ b.token # NoToken
Lies(b, state) == b.state = state /\ b.token = NoToken

Ending(op) == CASE op = "ack" -> "done" [] op = "nack" -> "retrying" [] OTHER -> "dead"

\* What the row b in a grip is, and what the call c is about to write, before its
\* store call `on`.
Says(c, on, b, done) ==
    LET op == c.op
    IN
    /\ op = "push" => Waits(c.copy) /\ (on # "enqueue" => b = NoBlob /\ ~done)
    /\ on = "enqueue" => Waits(b)
    /\ op = "pull" /\ on \in {"load", "slot", "save"} => Waits(b)
    /\ op = "pull" /\ on \in {"slot", "save"} => Runs(c.copy)
    /\ op = "pull" /\ on = "lease" => Runs(b) /\ <<c.todo[1], b.token>> \in c.got
    /\ op = "reclaim" /\ on \in {"load", "unslot", "save"} => Runs(b)
    /\ op \in {"reclaim", "retry"} /\ on \in {"unslot", "save"} => Waits(c.copy)
    /\ op = "retry" /\ on \in {"load", "save"} => Lies(b, "dead")
    /\ op = "discard" /\ on = "erase" => Lies(b, "dead")
    /\ op \in Settles /\ on \in {"unmark", "unslot", "save"} => Runs(b) /\ b.token = c.token
    /\ op \in Settles /\ on \in {"unlease", "unmark", "unslot", "save"} => Lies(c.copy, Ending(op))
    /\ op = "ack" /\ on = "erase" => Lies(b, "done") /\ done
    /\ op = "nack dead" /\ on = "bury" => Lies(b, "dead")
    /\ op = "heartbeat" /\ on # "load" => c.copy = b

Written(p) == Says(call[p], On(p), blob[Job(p)], Job(p) \in finished)

\* What a row is depends on where it is.
Placed(j) ==
    /\ j \in DOMAIN ready => Waits(blob[j])
    /\ j \in DOMAIN leased => Runs(blob[j])
    /\ j \in dead => Lies(blob[j], "dead")
    /\ j \notin pushed => blob[j] = NoBlob /\ InNone(j)
    /\ j \in finished => blob[j].state \in {"done", "absent"} /\ j \in pushed

RowAt(j) == Placed(j) /\ \A p \in Callers : Acting(p) /\ Job(p) = j => Written(p)

\* A settle that has not written yet.
Answers(p) == Acting(p) /\ Op(p) \in Settles /\ On(p) \notin Last

\* A lease that nobody will take away.
Alive(j, t) == blob[j].token = t /\ j \in DOMAIN leased /\ leased[j] >= 1

\* Every lease someone answers for is alive, or its pull is about to enter it,
\* or its settle has taken the row out; and one of them answers for it.
LeaseAt(j) ==
    /\ \A t \in Tokens : <<j, t>> \in held => Alive(j, t)
    /\ \A p \in Callers, t \in Tokens : <<j, t>> \in call[p].got =>
        \/ Alive(j, t)
        \/ Acting(p) /\ Job(p) = j /\ Op(p) = "pull" /\ On(p) = "lease" /\ blob[j].token = t
    /\ \A p \in Callers :
        Answers(p) /\ Job(p) = j /\ On(p) \in {"load", "unlease"} => Alive(j, call[p].token)
    /\ \A p \in Callers : Acting(p) /\ Job(p) = j /\ Op(p) = "heartbeat" => Lease1(p) \in held
    /\ \A p \in Callers : Answers(p) /\ Job(p) = j =>
        /\ Lease1(p) \notin held
        /\ \A q \in Callers : Lease1(p) \notin call[q].got
        /\ \A q \in Callers : Answers(q) /\ Job(q) = j => p = q
    /\ \A p \in Callers, t \in Tokens : <<j, t>> \in call[p].got =>
        /\ <<j, t>> \notin held
        /\ \A q \in Callers : <<j, t>> \in call[q].got => p = q

\* The reclaims that have yet to come to j.
Pending(p, j) ==
    /\ Acting(p) /\ Op(p) = "reclaim"
    /\ \E i \in 1..Len(call[p].todo) : call[p].todo[i] = j /\ (i > 1 \/ On(p) = "unlease")

\* What a reclaim has not come to yet stays expired.
DueAt(j) == \A p \in Callers : Pending(p, j) => j \in DOMAIN leased /\ leased[j] = 0

\* The slot of a serial job outlives the lease it stands for.
Holds(j, d) == Serial(j) => SlotOf(j).job = j /\ SlotOf(j).left >= d

SlotAt(j) ==
    /\ \A t \in Tokens : <<j, t>> \in held => Holds(j, leased[j])
    /\ \A p \in Callers, t \in Tokens : <<j, t>> \in call[p].got =>
        Holds(j, IF j \in DOMAIN leased THEN leased[j] ELSE 1)
    /\ \A p \in Callers :
        Acting(p) /\ Job(p) = j /\ Op(p) \in {"pull", "heartbeat"} /\ On(p) \in {"save", "lease"} =>
            Holds(j, call[p].until)

JobInv(j) == OneAt(j) /\ RowAt(j) /\ LeaseAt(j) /\ DueAt(j) /\ SlotAt(j)

\* A call that brings the row back, or still has its marker to take away.
Keeps(op, on) ==
    \/ op = "push" /\ on # "mark"
    \/ op \in {"pull", "reclaim", "nack"}
    \/ op = "ack" /\ on = "unmark"
    \/ op = "nack dead" /\ on \in {"unslot", "unmark"}

\* The rows a key's marker stands for.
Owns(j) ==
    \/ j \in DOMAIN ready \union DOMAIN leased
    \/ \E p \in Callers : Grips(p, j) /\ Keeps(Op(p), On(p))

Marked ==
    /\ \A j \in Jobs : Keyed(j) /\ Owns(j) => KeyOf[j] \in uniq
    /\ \A i, j \in Jobs : SameKey(i, j) /\ Owns(i) /\ Owns(j) => i = j

\* The pulls that have chosen a token and not written it; no one else uses it.
Chosen(p) == Acting(p) /\ Op(p) = "pull" /\ On(p) \in {"slot", "save"}

Fresh ==
    \A p \in Callers : Chosen(p) =>
        /\ \A j \in Jobs : blob[j].token # call[p].copy.token
        /\ \A l \in Leases : l[2] # call[p].copy.token
        /\ \A q \in Callers : q # p /\ Chosen(q) => call[q].copy.token # call[p].copy.token

RqIInv == Typed /\ \A j \in Jobs : JobInv(j)

-----------------------------------------------------------------------------
(* Routes *)

LEMMA IfIs == ASSUME NEW c \in BOOLEAN, NEW a \in Words
              PROVE  If(c, a) \in Seq(Words)
<1>1. <<a>> \in Seq(Words) /\ <<>> \in Seq(Words)
  OBVIOUS
<1> QED BY <1>1 DEF If

LEMMA RouteParts ==
    /\ \A s, t \in Seq(Words) : s \o t \in Seq(Words)
    /\ <<"unready", "load">> \in Seq(Words) /\ <<"save", "lease">> \in Seq(Words)
    /\ <<"load", "unlease">> \in Seq(Words) /\ <<"save", "erase">> \in Seq(Words)
    /\ <<"save", "bury">> \in Seq(Words) /\ <<"load">> \in Seq(Words)
    /\ <<"unlease", "load">> \in Seq(Words) /\ <<"undead", "load">> \in Seq(Words)
    /\ <<"undead", "erase">> \in Seq(Words)
    /\ Requeue \in Seq(Words)
    /\ \A j \in Jobs :
        /\ If(Keyed(j), "mark") \in Seq(Words) /\ If(Keyed(j), "unmark") \in Seq(Words)
        /\ If(Serial(j), "slot") \in Seq(Words) /\ If(Serial(j), "unslot") \in Seq(Words)
        /\ If(Serial(j), "extend") \in Seq(Words)
<1>1. \A j \in Jobs : Keyed(j) \in BOOLEAN /\ Serial(j) \in BOOLEAN
  BY DEF Keyed, Serial
<1>2. ASSUME NEW j \in Jobs
      PROVE  /\ If(Keyed(j), "mark") \in Seq(Words) /\ If(Keyed(j), "unmark") \in Seq(Words)
             /\ If(Serial(j), "slot") \in Seq(Words) /\ If(Serial(j), "unslot") \in Seq(Words)
             /\ If(Serial(j), "extend") \in Seq(Words)
  BY <1>1, IfIs DEF Words
<1>3. \A s, t \in Seq(Words) : s \o t \in Seq(Words)
  BY ConcatProperties
<1>4. Requeue \in Seq(Words)
  BY DEF Requeue, Words, Last
<1>5. /\ <<"unready", "load">> \in Seq(Words) /\ <<"save", "lease">> \in Seq(Words)
      /\ <<"load", "unlease">> \in Seq(Words) /\ <<"save", "erase">> \in Seq(Words)
      /\ <<"save", "bury">> \in Seq(Words) /\ <<"load">> \in Seq(Words)
      /\ <<"unlease", "load">> \in Seq(Words) /\ <<"undead", "load">> \in Seq(Words)
      /\ <<"undead", "erase">> \in Seq(Words)
  BY DEF Words, Last
<1> QED BY <1>2, <1>3, <1>4, <1>5

LEMMA HeadFirst == ASSUME NEW r \in Seq(Words), Len(r) >= 1 PROVE r # <<>> /\ Head(r) = r[1]
OBVIOUS

LEMMA RouteSeq == ASSUME NEW op \in OpNames, NEW j \in Jobs
                  PROVE  Route(op, j) \in Seq(Words)
BY RouteParts DEF Route, OpNames

\* Every operation starts with its first store call, and each is followed by its next.
LEMMA Routes == ASSUME NEW op \in OpNames, NEW j \in Jobs
                PROVE  Chain(op, j, Route(op, j)) /\ Head(Route(op, j)) = First(op, j)
<1>1. PICK r \in Seq(Words) : r = Route(op, j)
  BY RouteSeq
<1>2. CASE op = "push"
  <2>1. CASE Keyed(j)
    <3>1. Len(r) = 3 /\ r[1] = "mark" /\ r[2] = "save" /\ r[3] = "enqueue"
      BY <1>1, <1>2, <2>1 DEF Route, If, Requeue
    <3>2. /\ {"mark", "save", "enqueue"} \subseteq Makes(op)
          /\ "enqueue" \in Last
          /\ First(op, j) = "mark"
          /\ "mark" \notin Last /\ Then(op, j, "mark") = "save"
          /\ "save" \notin Last /\ Then(op, j, "save") = "enqueue"
      BY <1>2, <2>1 DEF Makes, Last, First, Then, Settles
    <3>3. Len(r) = 3
      BY <3>1
    <3>4. r # <<>> /\ Head(r) = r[1]
      BY <3>3, HeadFirst
    <3>5. \A i \in 1..Len(r) : i = 1 \/ i = 2 \/ i = 3
      BY <3>3
    <3> QED BY <1>1, <2>1, <3>1, <3>2, <3>4, <3>5 DEF Chain
  <2>2. CASE ~Keyed(j)
    <3>1. Len(r) = 2 /\ r[1] = "save" /\ r[2] = "enqueue"
      BY <1>1, <1>2, <2>2 DEF Route, If, Requeue
    <3>2. /\ {"save", "enqueue"} \subseteq Makes(op)
          /\ "enqueue" \in Last
          /\ First(op, j) = "save"
          /\ "save" \notin Last /\ Then(op, j, "save") = "enqueue"
      BY <1>2, <2>2 DEF Makes, Last, First, Then, Settles
    <3>3. Len(r) = 2
      BY <3>1
    <3>4. r # <<>> /\ Head(r) = r[1]
      BY <3>3, HeadFirst
    <3>5. \A i \in 1..Len(r) : i = 1 \/ i = 2
      BY <3>3
    <3> QED BY <1>1, <3>1, <3>2, <3>4, <3>5 DEF Chain
  <2> QED BY <1>1, <2>1, <2>2
<1>3. CASE op = "pull"
  <2>1. CASE Serial(j)
    <3>1. Len(r) = 5 /\ r[1] = "unready" /\ r[2] = "load" /\ r[3] = "slot" /\ r[4] = "save" /\ r[5] = "lease"
      BY <1>1, <1>3, <2>1 DEF Route, If, Requeue
    <3>2. /\ {"unready", "load", "slot", "save", "lease"} \subseteq Makes(op)
          /\ "lease" \in Last
          /\ First(op, j) = "unready"
          /\ "unready" \notin Last /\ Then(op, j, "unready") = "load"
          /\ "load" \notin Last /\ Then(op, j, "load") = "slot"
          /\ "slot" \notin Last /\ Then(op, j, "slot") = "save"
          /\ "save" \notin Last /\ Then(op, j, "save") = "lease"
      BY <1>3, <2>1 DEF Makes, Last, First, Then, Settles
    <3>3. Len(r) = 5
      BY <3>1
    <3>4. r # <<>> /\ Head(r) = r[1]
      BY <3>3, HeadFirst
    <3>5. \A i \in 1..Len(r) : i = 1 \/ i = 2 \/ i = 3 \/ i = 4 \/ i = 5
      BY <3>3
    <3> QED BY <1>1, <3>1, <3>2, <3>4, <3>5 DEF Chain
  <2>2. CASE ~Serial(j)
    <3>1. Len(r) = 4 /\ r[1] = "unready" /\ r[2] = "load" /\ r[3] = "save" /\ r[4] = "lease"
      BY <1>1, <1>3, <2>2 DEF Route, If, Requeue
    <3>2. /\ {"unready", "load", "save", "lease"} \subseteq Makes(op)
          /\ "lease" \in Last
          /\ First(op, j) = "unready"
          /\ "unready" \notin Last /\ Then(op, j, "unready") = "load"
          /\ "load" \notin Last /\ Then(op, j, "load") = "save"
          /\ "save" \notin Last /\ Then(op, j, "save") = "lease"
      BY <1>3, <2>2 DEF Makes, Last, First, Then, Settles
    <3>3. Len(r) = 4
      BY <3>1
    <3>4. r # <<>> /\ Head(r) = r[1]
      BY <3>3, HeadFirst
    <3>5. \A i \in 1..Len(r) : i = 1 \/ i = 2 \/ i = 3 \/ i = 4
      BY <3>3
    <3> QED BY <1>1, <3>1, <3>2, <3>4, <3>5 DEF Chain
  <2> QED BY <1>1, <2>1, <2>2
<1>4. CASE op = "ack"
  <2>1. CASE Keyed(j) /\ Serial(j)
    <3>1. r = <<"load", "unlease">> \o <<"unmark">> \o <<"unslot">> \o <<"save", "erase">>
      BY <1>1, <1>4, <2>1 DEF Route, If
    <3>2. Len(r) = 6 /\ r[1] = "load" /\ r[2] = "unlease" /\ r[3] = "unmark" /\ r[4] = "unslot" /\ r[5] = "save" /\ r[6] = "erase"
      BY <3>1
    <3>3. /\ {"load", "unlease", "unmark", "unslot", "save", "erase"} \subseteq Makes(op)
          /\ "erase" \in Last
          /\ First(op, j) = "load"
          /\ "load" \notin Last /\ Then(op, j, "load") = "unlease"
          /\ "unlease" \notin Last /\ Then(op, j, "unlease") = "unmark"
          /\ "unmark" \notin Last /\ Then(op, j, "unmark") = "unslot"
          /\ "unslot" \notin Last /\ Then(op, j, "unslot") = "save"
          /\ "save" \notin Last /\ Then(op, j, "save") = "erase"
      BY <1>4, <2>1 DEF Makes, Last, First, Then, Settles
    <3>4. Len(r) = 6
      BY <3>2
    <3>5. r # <<>> /\ Head(r) = r[1]
      BY <3>4, HeadFirst
    <3>6. \A i \in 1..Len(r) : i = 1 \/ i = 2 \/ i = 3 \/ i = 4 \/ i = 5 \/ i = 6
      BY <3>4
    <3> QED BY <1>1, <3>2, <3>3, <3>5, <3>6 DEF Chain
  <2>2. CASE Keyed(j) /\ ~Serial(j)
    <3>1. r = <<"load", "unlease">> \o <<"unmark">> \o <<>> \o <<"save", "erase">>
      BY <1>1, <1>4, <2>2 DEF Route, If
    <3>2. Len(r) = 5 /\ r[1] = "load" /\ r[2] = "unlease" /\ r[3] = "unmark" /\ r[4] = "save" /\ r[5] = "erase"
      BY <3>1
    <3>3. /\ {"load", "unlease", "unmark", "save", "erase"} \subseteq Makes(op)
          /\ "erase" \in Last
          /\ First(op, j) = "load"
          /\ "load" \notin Last /\ Then(op, j, "load") = "unlease"
          /\ "unlease" \notin Last /\ Then(op, j, "unlease") = "unmark"
          /\ "unmark" \notin Last /\ Then(op, j, "unmark") = "save"
          /\ "save" \notin Last /\ Then(op, j, "save") = "erase"
      BY <1>4, <2>2 DEF Makes, Last, First, Then, Settles
    <3>4. Len(r) = 5
      BY <3>2
    <3>5. r # <<>> /\ Head(r) = r[1]
      BY <3>4, HeadFirst
    <3>6. \A i \in 1..Len(r) : i = 1 \/ i = 2 \/ i = 3 \/ i = 4 \/ i = 5
      BY <3>4
    <3> QED BY <1>1, <3>2, <3>3, <3>5, <3>6 DEF Chain
  <2>3. CASE ~Keyed(j) /\ Serial(j)
    <3>1. r = <<"load", "unlease">> \o <<>> \o <<"unslot">> \o <<"save", "erase">>
      BY <1>1, <1>4, <2>3 DEF Route, If
    <3>2. Len(r) = 5 /\ r[1] = "load" /\ r[2] = "unlease" /\ r[3] = "unslot" /\ r[4] = "save" /\ r[5] = "erase"
      BY <3>1
    <3>3. /\ {"load", "unlease", "unslot", "save", "erase"} \subseteq Makes(op)
          /\ "erase" \in Last
          /\ First(op, j) = "load"
          /\ "load" \notin Last /\ Then(op, j, "load") = "unlease"
          /\ "unlease" \notin Last /\ Then(op, j, "unlease") = "unslot"
          /\ "unslot" \notin Last /\ Then(op, j, "unslot") = "save"
          /\ "save" \notin Last /\ Then(op, j, "save") = "erase"
      BY <1>4, <2>3 DEF Makes, Last, First, Then, Settles
    <3>4. Len(r) = 5
      BY <3>2
    <3>5. r # <<>> /\ Head(r) = r[1]
      BY <3>4, HeadFirst
    <3>6. \A i \in 1..Len(r) : i = 1 \/ i = 2 \/ i = 3 \/ i = 4 \/ i = 5
      BY <3>4
    <3> QED BY <1>1, <3>2, <3>3, <3>5, <3>6 DEF Chain
  <2>4. CASE ~Keyed(j) /\ ~Serial(j)
    <3>1. r = <<"load", "unlease">> \o <<>> \o <<>> \o <<"save", "erase">>
      BY <1>1, <1>4, <2>4 DEF Route, If
    <3>2. Len(r) = 4 /\ r[1] = "load" /\ r[2] = "unlease" /\ r[3] = "save" /\ r[4] = "erase"
      BY <3>1
    <3>3. /\ {"load", "unlease", "save", "erase"} \subseteq Makes(op)
          /\ "erase" \in Last
          /\ First(op, j) = "load"
          /\ "load" \notin Last /\ Then(op, j, "load") = "unlease"
          /\ "unlease" \notin Last /\ Then(op, j, "unlease") = "save"
          /\ "save" \notin Last /\ Then(op, j, "save") = "erase"
      BY <1>4, <2>4 DEF Makes, Last, First, Then, Settles
    <3>4. Len(r) = 4
      BY <3>2
    <3>5. r # <<>> /\ Head(r) = r[1]
      BY <3>4, HeadFirst
    <3>6. \A i \in 1..Len(r) : i = 1 \/ i = 2 \/ i = 3 \/ i = 4
      BY <3>4
    <3> QED BY <1>1, <3>2, <3>3, <3>5, <3>6 DEF Chain
  <2> QED BY <1>1, <2>1, <2>2, <2>3, <2>4
<1>5. CASE op = "nack"
  <2>1. CASE Serial(j)
    <3>1. Len(r) = 5 /\ r[1] = "load" /\ r[2] = "unlease" /\ r[3] = "unslot" /\ r[4] = "save" /\ r[5] = "enqueue"
      BY <1>1, <1>5, <2>1 DEF Route, If, Requeue
    <3>2. /\ {"load", "unlease", "unslot", "save", "enqueue"} \subseteq Makes(op)
          /\ "enqueue" \in Last
          /\ First(op, j) = "load"
          /\ "load" \notin Last /\ Then(op, j, "load") = "unlease"
          /\ "unlease" \notin Last /\ Then(op, j, "unlease") = "unslot"
          /\ "unslot" \notin Last /\ Then(op, j, "unslot") = "save"
          /\ "save" \notin Last /\ Then(op, j, "save") = "enqueue"
      BY <1>5, <2>1 DEF Makes, Last, First, Then, Settles
    <3>3. Len(r) = 5
      BY <3>1
    <3>4. r # <<>> /\ Head(r) = r[1]
      BY <3>3, HeadFirst
    <3>5. \A i \in 1..Len(r) : i = 1 \/ i = 2 \/ i = 3 \/ i = 4 \/ i = 5
      BY <3>3
    <3> QED BY <1>1, <3>1, <3>2, <3>4, <3>5 DEF Chain
  <2>2. CASE ~Serial(j)
    <3>1. Len(r) = 4 /\ r[1] = "load" /\ r[2] = "unlease" /\ r[3] = "save" /\ r[4] = "enqueue"
      BY <1>1, <1>5, <2>2 DEF Route, If, Requeue
    <3>2. /\ {"load", "unlease", "save", "enqueue"} \subseteq Makes(op)
          /\ "enqueue" \in Last
          /\ First(op, j) = "load"
          /\ "load" \notin Last /\ Then(op, j, "load") = "unlease"
          /\ "unlease" \notin Last /\ Then(op, j, "unlease") = "save"
          /\ "save" \notin Last /\ Then(op, j, "save") = "enqueue"
      BY <1>5, <2>2 DEF Makes, Last, First, Then, Settles
    <3>3. Len(r) = 4
      BY <3>1
    <3>4. r # <<>> /\ Head(r) = r[1]
      BY <3>3, HeadFirst
    <3>5. \A i \in 1..Len(r) : i = 1 \/ i = 2 \/ i = 3 \/ i = 4
      BY <3>3
    <3> QED BY <1>1, <3>1, <3>2, <3>4, <3>5 DEF Chain
  <2> QED BY <1>1, <2>1, <2>2
<1>6. CASE op = "nack dead"
  <2>1. CASE Keyed(j) /\ Serial(j)
    <3>1. r = <<"load", "unlease">> \o <<"unslot">> \o <<"unmark">> \o <<"save", "bury">>
      BY <1>1, <1>6, <2>1 DEF Route, If
    <3>2. Len(r) = 6 /\ r[1] = "load" /\ r[2] = "unlease" /\ r[3] = "unslot" /\ r[4] = "unmark" /\ r[5] = "save" /\ r[6] = "bury"
      BY <3>1
    <3>3. /\ {"load", "unlease", "unslot", "unmark", "save", "bury"} \subseteq Makes(op)
          /\ "bury" \in Last
          /\ First(op, j) = "load"
          /\ "load" \notin Last /\ Then(op, j, "load") = "unlease"
          /\ "unlease" \notin Last /\ Then(op, j, "unlease") = "unslot"
          /\ "unslot" \notin Last /\ Then(op, j, "unslot") = "unmark"
          /\ "unmark" \notin Last /\ Then(op, j, "unmark") = "save"
          /\ "save" \notin Last /\ Then(op, j, "save") = "bury"
      BY <1>6, <2>1 DEF Makes, Last, First, Then, Settles
    <3>4. Len(r) = 6
      BY <3>2
    <3>5. r # <<>> /\ Head(r) = r[1]
      BY <3>4, HeadFirst
    <3>6. \A i \in 1..Len(r) : i = 1 \/ i = 2 \/ i = 3 \/ i = 4 \/ i = 5 \/ i = 6
      BY <3>4
    <3> QED BY <1>1, <3>2, <3>3, <3>5, <3>6 DEF Chain
  <2>2. CASE Keyed(j) /\ ~Serial(j)
    <3>1. r = <<"load", "unlease">> \o <<>> \o <<"unmark">> \o <<"save", "bury">>
      BY <1>1, <1>6, <2>2 DEF Route, If
    <3>2. Len(r) = 5 /\ r[1] = "load" /\ r[2] = "unlease" /\ r[3] = "unmark" /\ r[4] = "save" /\ r[5] = "bury"
      BY <3>1
    <3>3. /\ {"load", "unlease", "unmark", "save", "bury"} \subseteq Makes(op)
          /\ "bury" \in Last
          /\ First(op, j) = "load"
          /\ "load" \notin Last /\ Then(op, j, "load") = "unlease"
          /\ "unlease" \notin Last /\ Then(op, j, "unlease") = "unmark"
          /\ "unmark" \notin Last /\ Then(op, j, "unmark") = "save"
          /\ "save" \notin Last /\ Then(op, j, "save") = "bury"
      BY <1>6, <2>2 DEF Makes, Last, First, Then, Settles
    <3>4. Len(r) = 5
      BY <3>2
    <3>5. r # <<>> /\ Head(r) = r[1]
      BY <3>4, HeadFirst
    <3>6. \A i \in 1..Len(r) : i = 1 \/ i = 2 \/ i = 3 \/ i = 4 \/ i = 5
      BY <3>4
    <3> QED BY <1>1, <3>2, <3>3, <3>5, <3>6 DEF Chain
  <2>3. CASE ~Keyed(j) /\ Serial(j)
    <3>1. r = <<"load", "unlease">> \o <<"unslot">> \o <<>> \o <<"save", "bury">>
      BY <1>1, <1>6, <2>3 DEF Route, If
    <3>2. Len(r) = 5 /\ r[1] = "load" /\ r[2] = "unlease" /\ r[3] = "unslot" /\ r[4] = "save" /\ r[5] = "bury"
      BY <3>1
    <3>3. /\ {"load", "unlease", "unslot", "save", "bury"} \subseteq Makes(op)
          /\ "bury" \in Last
          /\ First(op, j) = "load"
          /\ "load" \notin Last /\ Then(op, j, "load") = "unlease"
          /\ "unlease" \notin Last /\ Then(op, j, "unlease") = "unslot"
          /\ "unslot" \notin Last /\ Then(op, j, "unslot") = "save"
          /\ "save" \notin Last /\ Then(op, j, "save") = "bury"
      BY <1>6, <2>3 DEF Makes, Last, First, Then, Settles
    <3>4. Len(r) = 5
      BY <3>2
    <3>5. r # <<>> /\ Head(r) = r[1]
      BY <3>4, HeadFirst
    <3>6. \A i \in 1..Len(r) : i = 1 \/ i = 2 \/ i = 3 \/ i = 4 \/ i = 5
      BY <3>4
    <3> QED BY <1>1, <3>2, <3>3, <3>5, <3>6 DEF Chain
  <2>4. CASE ~Keyed(j) /\ ~Serial(j)
    <3>1. r = <<"load", "unlease">> \o <<>> \o <<>> \o <<"save", "bury">>
      BY <1>1, <1>6, <2>4 DEF Route, If
    <3>2. Len(r) = 4 /\ r[1] = "load" /\ r[2] = "unlease" /\ r[3] = "save" /\ r[4] = "bury"
      BY <3>1
    <3>3. /\ {"load", "unlease", "save", "bury"} \subseteq Makes(op)
          /\ "bury" \in Last
          /\ First(op, j) = "load"
          /\ "load" \notin Last /\ Then(op, j, "load") = "unlease"
          /\ "unlease" \notin Last /\ Then(op, j, "unlease") = "save"
          /\ "save" \notin Last /\ Then(op, j, "save") = "bury"
      BY <1>6, <2>4 DEF Makes, Last, First, Then, Settles
    <3>4. Len(r) = 4
      BY <3>2
    <3>5. r # <<>> /\ Head(r) = r[1]
      BY <3>4, HeadFirst
    <3>6. \A i \in 1..Len(r) : i = 1 \/ i = 2 \/ i = 3 \/ i = 4
      BY <3>4
    <3> QED BY <1>1, <3>2, <3>3, <3>5, <3>6 DEF Chain
  <2> QED BY <1>1, <2>1, <2>2, <2>3, <2>4
<1>7. CASE op = "heartbeat"
  <2>1. CASE Serial(j)
    <3>1. Len(r) = 4 /\ r[1] = "load" /\ r[2] = "extend" /\ r[3] = "save" /\ r[4] = "lease"
      BY <1>1, <1>7, <2>1 DEF Route, If, Requeue
    <3>2. /\ {"load", "extend", "save", "lease"} \subseteq Makes(op)
          /\ "lease" \in Last
          /\ First(op, j) = "load"
          /\ "load" \notin Last /\ Then(op, j, "load") = "extend"
          /\ "extend" \notin Last /\ Then(op, j, "extend") = "save"
          /\ "save" \notin Last /\ Then(op, j, "save") = "lease"
      BY <1>7, <2>1 DEF Makes, Last, First, Then, Settles
    <3>3. Len(r) = 4
      BY <3>1
    <3>4. r # <<>> /\ Head(r) = r[1]
      BY <3>3, HeadFirst
    <3>5. \A i \in 1..Len(r) : i = 1 \/ i = 2 \/ i = 3 \/ i = 4
      BY <3>3
    <3> QED BY <1>1, <3>1, <3>2, <3>4, <3>5 DEF Chain
  <2>2. CASE ~Serial(j)
    <3>1. Len(r) = 3 /\ r[1] = "load" /\ r[2] = "save" /\ r[3] = "lease"
      BY <1>1, <1>7, <2>2 DEF Route, If, Requeue
    <3>2. /\ {"load", "save", "lease"} \subseteq Makes(op)
          /\ "lease" \in Last
          /\ First(op, j) = "load"
          /\ "load" \notin Last /\ Then(op, j, "load") = "save"
          /\ "save" \notin Last /\ Then(op, j, "save") = "lease"
      BY <1>7, <2>2 DEF Makes, Last, First, Then, Settles
    <3>3. Len(r) = 3
      BY <3>1
    <3>4. r # <<>> /\ Head(r) = r[1]
      BY <3>3, HeadFirst
    <3>5. \A i \in 1..Len(r) : i = 1 \/ i = 2 \/ i = 3
      BY <3>3
    <3> QED BY <1>1, <3>1, <3>2, <3>4, <3>5 DEF Chain
  <2> QED BY <1>1, <2>1, <2>2
<1>8. CASE op = "reclaim"
  <2>1. CASE Serial(j)
    <3>1. Len(r) = 5 /\ r[1] = "unlease" /\ r[2] = "load" /\ r[3] = "unslot" /\ r[4] = "save" /\ r[5] = "enqueue"
      BY <1>1, <1>8, <2>1 DEF Route, If, Requeue
    <3>2. /\ {"unlease", "load", "unslot", "save", "enqueue"} \subseteq Makes(op)
          /\ "enqueue" \in Last
          /\ First(op, j) = "unlease"
          /\ "unlease" \notin Last /\ Then(op, j, "unlease") = "load"
          /\ "load" \notin Last /\ Then(op, j, "load") = "unslot"
          /\ "unslot" \notin Last /\ Then(op, j, "unslot") = "save"
          /\ "save" \notin Last /\ Then(op, j, "save") = "enqueue"
      BY <1>8, <2>1 DEF Makes, Last, First, Then, Settles
    <3>3. Len(r) = 5
      BY <3>1
    <3>4. r # <<>> /\ Head(r) = r[1]
      BY <3>3, HeadFirst
    <3>5. \A i \in 1..Len(r) : i = 1 \/ i = 2 \/ i = 3 \/ i = 4 \/ i = 5
      BY <3>3
    <3> QED BY <1>1, <3>1, <3>2, <3>4, <3>5 DEF Chain
  <2>2. CASE ~Serial(j)
    <3>1. Len(r) = 4 /\ r[1] = "unlease" /\ r[2] = "load" /\ r[3] = "save" /\ r[4] = "enqueue"
      BY <1>1, <1>8, <2>2 DEF Route, If, Requeue
    <3>2. /\ {"unlease", "load", "save", "enqueue"} \subseteq Makes(op)
          /\ "enqueue" \in Last
          /\ First(op, j) = "unlease"
          /\ "unlease" \notin Last /\ Then(op, j, "unlease") = "load"
          /\ "load" \notin Last /\ Then(op, j, "load") = "save"
          /\ "save" \notin Last /\ Then(op, j, "save") = "enqueue"
      BY <1>8, <2>2 DEF Makes, Last, First, Then, Settles
    <3>3. Len(r) = 4
      BY <3>1
    <3>4. r # <<>> /\ Head(r) = r[1]
      BY <3>3, HeadFirst
    <3>5. \A i \in 1..Len(r) : i = 1 \/ i = 2 \/ i = 3 \/ i = 4
      BY <3>3
    <3> QED BY <1>1, <3>1, <3>2, <3>4, <3>5 DEF Chain
  <2> QED BY <1>1, <2>1, <2>2
<1>9. CASE op = "retry"
  <2>1. Len(r) = 4 /\ r[1] = "undead" /\ r[2] = "load" /\ r[3] = "save" /\ r[4] = "enqueue"
    BY <1>1, <1>9 DEF Route, If, Requeue
  <2>2. /\ {"undead", "load", "save", "enqueue"} \subseteq Makes(op)
        /\ "enqueue" \in Last
        /\ First(op, j) = "undead"
        /\ "undead" \notin Last /\ Then(op, j, "undead") = "load"
        /\ "load" \notin Last /\ Then(op, j, "load") = "save"
        /\ "save" \notin Last /\ Then(op, j, "save") = "enqueue"
    BY <1>9 DEF Makes, Last, First, Then, Settles
  <2>3. Len(r) = 4
    BY <2>1
  <2>4. r # <<>> /\ Head(r) = r[1]
    BY <2>3, HeadFirst
  <2>5. \A i \in 1..Len(r) : i = 1 \/ i = 2 \/ i = 3 \/ i = 4
    BY <2>3
  <2> QED BY <1>1, <2>1, <2>2, <2>4, <2>5 DEF Chain
<1>10. CASE op = "discard"
  <2>1. Len(r) = 2 /\ r[1] = "undead" /\ r[2] = "erase"
    BY <1>1, <1>10 DEF Route, If, Requeue
  <2>2. /\ {"undead", "erase"} \subseteq Makes(op)
        /\ "erase" \in Last
        /\ First(op, j) = "undead"
        /\ "undead" \notin Last /\ Then(op, j, "undead") = "erase"
    BY <1>10 DEF Makes, Last, First, Then, Settles
  <2>3. Len(r) = 2
    BY <2>1
  <2>4. r # <<>> /\ Head(r) = r[1]
    BY <2>3, HeadFirst
  <2>5. \A i \in 1..Len(r) : i = 1 \/ i = 2
    BY <2>3
  <2> QED BY <1>1, <2>1, <2>2, <2>4, <2>5 DEF Chain
<1> QED BY <1>2, <1>3, <1>4, <1>5, <1>6, <1>7, <1>8, <1>9, <1>10 DEF OpNames

\* One store call further.
LEMMA Further ==
    ASSUME NEW op, NEW j, NEW r \in Seq(Words), Chain(op, j, r)
    PROVE  /\ Head(r) \in Makes(op)
           /\ Head(r) \in Last => Len(r) = 1
           /\ Head(r) \notin Last => /\ Len(r) # 1
                                     /\ Chain(op, j, Tail(r))
                                     /\ Head(Tail(r)) = Then(op, j, Head(r))
           /\ Head(r) = "mark" => Keyed(j)
<1>1. r # <<>> /\ Len(r) >= 1 /\ Head(r) = r[1] /\ Len(r) \in Nat
  BY DEF Chain
<1>2. /\ r[1] \in Makes(op)
      /\ IF 1 = Len(r) THEN r[1] \in Last ELSE r[1] \notin Last /\ r[1 + 1] = Then(op, j, r[1])
  <2>1. \A i \in 1..Len(r) :
            /\ r[i] \in Makes(op)
            /\ IF i = Len(r) THEN r[i] \in Last
               ELSE r[i] \notin Last /\ r[i + 1] = Then(op, j, r[i])
    BY DEF Chain
  <2>2. 1 \in 1..Len(r)
    BY <1>1
  <2> QED BY <2>1, <2>2
<1>m. r[1] = "mark" => Keyed(j)
  BY DEF Chain
<1>3. CASE Len(r) = 1
  BY <1>1, <1>2, <1>3, <1>m
<1>4. CASE Len(r) # 1
  <2>1. /\ Tail(r) \in Seq(Words) /\ Len(Tail(r)) = Len(r) - 1
        /\ \A i \in 1..Len(Tail(r)) : Tail(r)[i] = r[i + 1]
    BY <1>1, HeadTailProperties
  <2>2. Len(r) > 1
    <3>1. \A n \in Nat : n >= 1 /\ n # 1 => n > 1
      OBVIOUS
    <3> QED BY <1>1, <1>4, <3>1
  <2>3. PICK t \in Seq(Words) : t = Tail(r)
    BY <2>1
  <2>4. /\ Len(t) = Len(r) - 1 /\ Len(t) >= 1 /\ t # <<>> /\ Head(t) = t[1] /\ t[1] = r[1 + 1]
        /\ \A i \in 1..Len(t) : t[i] = r[i + 1]
    <3>1. Len(t) = Len(r) - 1 /\ \A i \in 1..Len(t) : t[i] = r[i + 1]
      BY <2>1, <2>3
    <3>2. Len(t) >= 1
      BY <1>1, <2>2, <3>1
    <3> QED BY <3>1, <3>2
  <2>5. ASSUME NEW i \in 1..Len(t)
        PROVE  /\ t[i] \in Makes(op)
               /\ IF i = Len(t) THEN t[i] \in Last
                  ELSE t[i] \notin Last /\ t[i + 1] = Then(op, j, t[i])
    <3>1. i \in Nat /\ i + 1 \in 1..Len(r) /\ t[i] = r[i + 1] /\ (i + 1 = Len(r) <=> i = Len(t))
      BY <1>1, <2>4
    <3>2. i # Len(t) => i + 1 \in 1..Len(t)
      BY <1>1, <2>4
    <3>3. i # Len(t) => t[i + 1] = r[(i + 1) + 1]
      BY <2>4, <3>2
    <3>4. /\ r[i + 1] \in Makes(op)
          /\ IF i + 1 = Len(r) THEN r[i + 1] \in Last
             ELSE r[i + 1] \notin Last /\ r[(i + 1) + 1] = Then(op, j, r[i + 1])
      BY <3>1 DEF Chain
    <3> QED BY <3>1, <3>3, <3>4
  <2>m. t[1] # "mark"
    <3>1. t[1] = Then(op, j, r[1])
      BY <1>2, <1>4, <2>4
    <3>2. \A now : Then(op, j, now) # "mark"
      BY DEF Then, Settles
    <3> QED BY <3>1, <3>2
  <2>6. Chain(op, j, t)
    BY <2>4, <2>5, <2>m DEF Chain
  <2> QED BY <1>1, <1>2, <1>4, <1>m, <2>3, <2>4, <2>6
<1> QED BY <1>3, <1>4

\* The rest of a call.
LEMMA NextIs ==
    ASSUME NEW c \in Calls, Busily(c)
    PROVE  \/ NextMember(c) = Idle /\ Len(c.todo) = 1
           \/ \E d \in Calls :
                /\ NextMember(c) = d /\ Busily(d) /\ d # Idle
                /\ c.op \in {"pull", "reclaim"} /\ Len(c.todo) > 1
                /\ d.todo = Tail(c.todo) /\ Head(d.route) = First(c.op, d.todo[1])
                /\ d.op = c.op /\ d.copy = NoBlob /\ d.token = c.token
                /\ d.until = c.until /\ d.got = c.got
<1>1. c.todo \in Seq(Jobs) /\ c.todo # <<>> /\ c.op \in OpNames
  BY DEF Calls, Busily
<1>2. CASE Len(c.todo) = 1
  BY <1>2 DEF NextMember
<1>3. CASE Len(c.todo) # 1
  <2>1. PICK todo \in Seq(Jobs) : todo = c.todo
    BY <1>1
  <2>2. /\ Len(todo) > 1
        /\ Tail(todo) \in Seq(Jobs) /\ Len(Tail(todo)) = Len(todo) - 1
        /\ \A i \in 1..Len(Tail(todo)) : Tail(todo)[i] = todo[i + 1]
    <3>1. Len(todo) \in Nat \ {0}
      BY <1>1, <2>1, EmptySeq
    <3>2. \A n \in Nat \ {0} : n # 1 => n > 1
      OBVIOUS
    <3>3. Len(todo) > 1
      BY <1>3, <2>1, <3>1, <3>2
    <3>4. todo # <<>>
      BY <1>1, <2>1
    <3>5. /\ Tail(todo) \in Seq(Jobs) /\ Len(Tail(todo)) = Len(todo) - 1
          /\ \A i \in 1..Len(Tail(todo)) : Tail(todo)[i] = todo[i + 1]
      BY <3>4, HeadTailProperties
    <3> QED BY <3>3, <3>5
  <2>3. PICK rest \in Seq(Jobs) : rest = Tail(todo)
    BY <2>2
  <2>4. /\ rest # <<>> /\ rest[1] = todo[2] /\ todo[2] \in Jobs
    <3>1. Len(rest) >= 1 /\ 1 \in 1..Len(rest) /\ 2 \in 1..Len(todo)
      BY <2>2, <2>3
    <3>2. rest[1] = todo[1 + 1] /\ todo[2] \in Jobs
      BY <2>2, <2>3, <3>1
    <3> QED BY <3>1, <3>2
  <2>5. \A a, b \in 1..Len(rest) : rest[a] = rest[b] => a = b
    <3> SUFFICES ASSUME NEW a \in 1..Len(rest), NEW b \in 1..Len(rest), rest[a] = rest[b] PROVE a = b
      OBVIOUS
    <3>1. a + 1 \in 1..Len(todo) /\ b + 1 \in 1..Len(todo)
      BY <2>2, <2>3
    <3>2. todo[a + 1] = todo[b + 1]
      BY <2>2, <2>3
    <3>3. a + 1 = b + 1
      BY <2>1, <3>1, <3>2 DEF Busily
    <3> QED BY <3>3
  <2>6. c.op \in {"pull", "reclaim"}
    BY <1>3 DEF Busily
  <2>7. PICK r \in Seq(Words) : r = Route(c.op, todo[2]) /\ Chain(c.op, todo[2], r) /\ Head(r) = First(c.op, todo[2])
    BY <1>1, <2>4, RouteSeq, Routes
  <2>8. PICK d : d = [c EXCEPT !.todo = rest, !.route = r, !.copy = NoBlob]
    OBVIOUS
  <2>9. NextMember(c) = d
    BY <1>3, <2>1, <2>3, <2>7, <2>8 DEF NextMember
  <2>10. NoBlob \in Held
    BY DEF NoBlob, Held
  <2>11. /\ d.todo = rest /\ d.route = r /\ d.copy = NoBlob /\ d.op = c.op
         /\ d.token = c.token /\ d.until = c.until /\ d.got = c.got
    BY <2>8 DEF Calls
  <2>12. d \in Calls
    BY <2>8, <2>10 DEF Calls
  <2>13. Busily(d)
    <3>1. /\ d.op \in Ops \intersect OpNames /\ Chain(d.op, d.todo[1], d.route)
          /\ d.op # "pull" => d.got = {}
          /\ d.op \in {"pull", "heartbeat"} => d.until >= 1
      BY <2>4, <2>7, <2>11 DEF Busily
    <3> QED BY <2>4, <2>5, <2>6, <2>11, <3>1 DEF Busily
  <2>14. d # Idle
    BY <2>4, <2>11 DEF Idle
  <2> QED BY <2>1, <2>2, <2>3, <2>4, <2>6, <2>7, <2>9, <2>11, <2>12, <2>13, <2>14
<1> QED BY <1>2, <1>3

\* One store call further in a call.
LEMMA OneOnIs ==
    ASSUME NEW c \in Calls, Busily(c)
    PROVE  /\ Head(c.route) \in Makes(c.op) /\ c.route # <<>>
           /\ Head(c.route) \in Last => OneOn(c) = NextMember(c)
           /\ Head(c.route) \notin Last =>
                \E d \in Calls :
                    /\ OneOn(c) = d /\ Busily(d) /\ d # Idle
                    /\ Head(d.route) = Then(c.op, c.todo[1], Head(c.route))
                    /\ d = [c EXCEPT !.route = d.route]
<1>1. c.route \in Seq(Words) /\ Chain(c.op, c.todo[1], c.route)
  BY DEF Calls, Busily
<1>2. /\ Head(c.route) \in Makes(c.op)
      /\ Head(c.route) \in Last => Len(c.route) = 1
      /\ Head(c.route) \notin Last =>
            /\ Len(c.route) # 1 /\ Chain(c.op, c.todo[1], Tail(c.route))
            /\ Head(Tail(c.route)) = Then(c.op, c.todo[1], Head(c.route))
  BY <1>1, Further
<1>3. ASSUME Head(c.route) \notin Last
      PROVE  \E d \in Calls :
                    /\ OneOn(c) = d /\ Busily(d) /\ d # Idle
                    /\ Head(d.route) = Then(c.op, c.todo[1], Head(c.route))
                    /\ d = [c EXCEPT !.route = d.route]
  <2>1. PICK r : r = Tail(c.route)
    OBVIOUS
  <2>2. r \in Seq(Words) /\ Chain(c.op, c.todo[1], r)
    BY <1>2, <1>3, <2>1 DEF Chain
  <2>3. PICK d : d = [c EXCEPT !.route = r]
    OBVIOUS
  <2>4. /\ d \in Calls /\ d.route = r /\ d.todo = c.todo /\ d.op = c.op /\ d.got = c.got
        /\ d.until = c.until
    BY <2>2, <2>3 DEF Calls
  <2>5. Busily(d)
    BY <2>2, <2>4 DEF Busily
  <2>6. d # Idle
    BY <2>4 DEF Idle, Busily
  <2>7. OneOn(c) = d
    BY <1>2, <1>3, <2>1, <2>3 DEF OneOn
  <2> QED BY <1>2, <1>3, <2>1, <2>3, <2>4, <2>5, <2>6, <2>7
<1> QED BY <1>1, <1>2, <1>3 DEF OneOn, Chain

-----------------------------------------------------------------------------
(* What a store call does to the call it belongs to *)

LEMMA InFlight ==
    ASSUME Typed, NEW p \in Callers, Acting(p)
    PROVE  /\ call[p] \in Calls /\ Busily(call[p]) /\ call[p] # Idle
           /\ Job(p) \in Jobs /\ Job(p) \in pushed
           /\ Op(p) \in OpNames /\ Op(p) \in Ops /\ On(p) \in Makes(Op(p))
           /\ On(p) = "mark" => Keyed(Job(p))
           /\ call[p].route # <<>> /\ call[p].copy \in Held
           /\ call[p].got \in SUBSET (Jobs \X Tokens)
           /\ call[p].token \in Tokens \union {NoToken} /\ call[p].until \in 0..LeaseLen
<1>1. call[p] \in Calls /\ (call[p] = Idle \/ Busily(call[p]))
  BY DEF Typed, Shape
<1>2. call[p] # Idle
  BY DEF Acting, Idle
<1>3. /\ call[p].copy \in Held /\ call[p].got \in SUBSET (Jobs \X Tokens)
      /\ call[p].token \in Tokens \union {NoToken} /\ call[p].until \in 0..LeaseLen
      /\ call[p].todo \in Seq(Jobs)
  BY <1>1 DEF Calls
<1>4. PICK todo \in Seq(Jobs) : todo = call[p].todo
  BY <1>3
<1>5. Len(todo) >= 1 /\ 1 \in 1..Len(todo) /\ todo[1] \in Jobs
  BY <1>4 DEF Acting
<1>6. Job(p) \in Jobs /\ Job(p) \in pushed
  BY <1>4, <1>5 DEF Job, Typed, Shape
<1>7. call[p].op \in OpNames /\ call[p].op \in Ops
  BY <1>1, <1>2 DEF Busily
<1>8. Head(call[p].route) \in Makes(call[p].op) /\ call[p].route # <<>>
  BY <1>1, <1>2, OneOnIs
<1>9. Head(call[p].route) = "mark" => Keyed(call[p].todo[1])
  <2>1. call[p].route \in Seq(Words) /\ Chain(call[p].op, call[p].todo[1], call[p].route)
    BY <1>1, <1>2 DEF Busily, Calls
  <2> QED BY <2>1, Further
<1> QED BY <1>1, <1>2, <1>3, <1>6, <1>7, <1>8, <1>9 DEF Op, On, Job

LEMMA NotActing == ASSUME Typed, NEW p \in Callers, ~Acting(p) PROVE call[p] = Idle
BY DEF Typed, Shape, Busily, Acting

LEMMA AtIs == ASSUME Typed, NEW p \in Callers, NEW storeCall, At(p, storeCall)
              PROVE  Acting(p) /\ On(p) = storeCall
<1>1. call[p] # Idle
  BY DEF At, Idle
<1> QED BY <1>1, NotActing DEF At, On

LEMMA IdleCall == Idle \in Calls
<1>1. NoBlob \in Held
  BY DEF NoBlob, Held
<1>2. <<>> \in Seq(Jobs) /\ <<>> \in Seq(Words)
  OBVIOUS
<1>3. 0 \in 0..LeaseLen /\ {} \in SUBSET (Jobs \X Tokens)
  BY SizeAssumption
<1> HIDE DEF NoBlob
<1> QED BY <1>1, <1>2, <1>3 DEF Idle, Calls

\* Nobody's call changes but p's.
Others(p) ==
    /\ call' \in [Callers -> Calls] /\ Shape(p)' /\ pushed' = pushed
    /\ \A q \in Callers \ {p} : call'[q] = call[q]

\* p goes on to the store call `on`, for the same row.
Onward(p, on, copy, got) ==
    /\ Others(p) /\ Acting(p)' /\ On(p)' = on /\ Job(p)' = Job(p) /\ Op(p)' = Op(p)
    /\ call'[p].todo = call[p].todo /\ call'[p].copy = copy /\ call'[p].got = got
    /\ call'[p].token = call[p].token /\ call'[p].until = call[p].until
    /\ held' = held

\* p is done with its row.
Quits(p) ==
    /\ Others(p)
    /\ \/ call'[p] = Idle /\ held' = held \union call[p].got
       \/ /\ Acting(p)' /\ Op(p) \in {"pull", "reclaim"} /\ Op(p)' = Op(p)
          /\ On(p)' = First(Op(p), Job(p)') /\ Job(p)' # Job(p)
          /\ call'[p].got = call[p].got /\ held' = held
    /\ \A j \in Jobs : Pending(p, j)' => Pending(p, j) /\ j # Job(p)

LEMMA NewShape ==
    ASSUME Typed, NEW p \in Callers, Acting(p), NEW d \in Calls, Busily(d), d.op = call[p].op,
           \A a \in 1..Len(d.todo) : d.todo[a] \in pushed,
           call' = [call EXCEPT ![p] = d], pushed' = pushed
    PROVE  Others(p) /\ Acting(p)' /\ Op(p)' = Op(p) /\ call'[p] = d
<1>1. call \in [Callers -> Calls]
  BY DEF Typed
<1>2. call' \in [Callers -> Calls] /\ call'[p] = d /\ \A q \in Callers \ {p} : call'[q] = call[q]
  BY <1>1
<1>3. d.todo # <<>>
  BY DEF Busily
<1>4. Op(p) = "reclaim" => p \in Reclaimers
  BY DEF Typed, Shape
<1>5. Shape(p)'
  BY <1>2, <1>3, <1>4 DEF Shape, Acting, Op
<1> QED BY <1>2, <1>3, <1>5 DEF Others, Acting, Op

\* With d for its record, p goes on.
LEMMA GoesAs ==
    ASSUME Typed, NEW p \in Callers, Acting(p), NEW d \in Calls, Busily(d), d # Idle,
           d.op = call[p].op, d.todo = call[p].todo, d.token = call[p].token,
           d.until = call[p].until, Becomes(p, d)
    PROVE  Onward(p, Head(d.route), d.copy, d.got)
<1>1. call' = [call EXCEPT ![p] = d] /\ pushed' = pushed /\ held' = held
  BY DEF Becomes
<1>2. \A a \in 1..Len(d.todo) : d.todo[a] \in pushed
  BY DEF Typed, Shape
<1>3. Others(p) /\ Acting(p)' /\ Op(p)' = Op(p) /\ call'[p] = d
  BY <1>1, <1>2, NewShape
<1> QED BY <1>1, <1>3 DEF Onward, On, Job

LEMMA QuitsIs ==
    ASSUME Typed, NEW p \in Callers, Acting(p), Becomes(p, NextMember(call[p]))
    PROVE  Quits(p)
<1>1. call[p] \in Calls /\ Busily(call[p]) /\ Job(p) \in Jobs
  BY InFlight
<1>2. /\ pushed' = pushed
      /\ call' = [call EXCEPT ![p] = NextMember(call[p])]
      /\ held' = IF NextMember(call[p]) = Idle THEN held \union call[p].got ELSE held
  BY DEF Becomes
<1>3. CASE NextMember(call[p]) = Idle
  <2>1. call \in [Callers -> Calls]
    BY DEF Typed
  <2>2. Idle \in Calls
    BY IdleCall
  <2>3. call' \in [Callers -> Calls] /\ call'[p] = Idle /\ \A q \in Callers \ {p} : call'[q] = call[q]
    BY <1>2, <1>3, <2>1, <2>2
  <2>4. Shape(p)'
    BY <2>2, <2>3 DEF Shape, Acting, Idle
  <2>5. \A j \in Jobs : ~Pending(p, j)'
    BY <2>3 DEF Pending, Acting, Idle
  <2> QED BY <1>2, <1>3, <2>3, <2>4, <2>5 DEF Quits, Others
<1>4. ASSUME NEW d \in Calls,
             NextMember(call[p]) = d, Busily(d), d # Idle,
             call[p].op \in {"pull", "reclaim"}, Len(call[p].todo) > 1,
             d.todo = Tail(call[p].todo), Head(d.route) = First(call[p].op, d.todo[1]),
             d.op = call[p].op, d.got = call[p].got
      PROVE  Quits(p)
  <2>1. PICK todo \in Seq(Jobs) : todo = call[p].todo
    BY <1>1 DEF Calls
  <2>2. PICK rest \in Seq(Jobs) : rest = d.todo
    BY DEF Calls
  <2>3. /\ Len(todo) > 1 /\ Len(rest) = Len(todo) - 1 /\ \A i \in 1..Len(rest) : rest[i] = todo[i + 1]
    BY <1>4, <2>1, <2>2, HeadTailProperties
  <2>4. \A i \in 1..Len(rest) : i + 1 \in 1..Len(todo) /\ i + 1 > 1
    BY <2>3
  <2>5. \A a \in 1..Len(d.todo) : d.todo[a] \in pushed
    <3>1. \A a \in 1..Len(todo) : todo[a] \in pushed
      BY <2>1 DEF Typed, Shape
    <3> QED BY <2>2, <2>3, <2>4, <3>1
  <2>6. Others(p) /\ Acting(p)' /\ Op(p)' = Op(p) /\ call'[p] = d
    BY <1>2, <1>4, <2>5, NewShape
  <2>7. On(p)' = First(Op(p), Job(p)') /\ call'[p].got = call[p].got /\ held' = held
    BY <1>2, <1>4, <2>6 DEF On, Op, Job
  <2>8. \A a, b \in 1..Len(todo) : todo[a] = todo[b] => a = b
    BY <1>1, <2>1 DEF Busily
  <2>9. \A i \in 1..Len(rest) : rest[i] # todo[1]
    BY <2>3, <2>4, <2>8
  <2>10. Job(p)' = rest[1] /\ Job(p) = todo[1] /\ 1 \in 1..Len(rest)
    BY <2>1, <2>2, <2>3, <2>6 DEF Job
  <2>11. ASSUME NEW j \in Jobs, Pending(p, j)' PROVE Pending(p, j) /\ j # Job(p)
    <3>1. Op(p) = "reclaim" /\ \E i \in 1..Len(rest) : rest[i] = j
      BY <2>2, <2>6, <2>11 DEF Pending
    <3>2. PICK i \in 1..Len(rest) : rest[i] = j
      BY <3>1
    <3>3. i + 1 \in 1..Len(todo) /\ todo[i + 1] = j /\ i + 1 > 1
      BY <2>3, <2>4, <3>2
    <3> QED BY <2>1, <2>9, <2>10, <3>1, <3>2, <3>3 DEF Pending
  <2> QED BY <1>4, <2>6, <2>7, <2>9, <2>10, <2>11 DEF Quits, Op
<1> QED BY <1>1, <1>3, <1>4, NextIs

LEMMA GoesOnIs ==
    ASSUME Typed, NEW p \in Callers, Acting(p), GoesOn(p)
    PROVE  /\ On(p) \in Last => Quits(p)
           /\ On(p) \notin Last =>
                Onward(p, Then(Op(p), Job(p), On(p)), call[p].copy, call[p].got)
<1>1. call[p] \in Calls /\ Busily(call[p])
  BY InFlight
<1>2. ASSUME On(p) \in Last PROVE Quits(p)
  <2>1. OneOn(call[p]) = NextMember(call[p])
    BY <1>1, <1>2, OneOnIs DEF On
  <2> QED BY <2>1, QuitsIs DEF GoesOn
<1>3. ASSUME On(p) \notin Last
      PROVE  Onward(p, Then(Op(p), Job(p), On(p)), call[p].copy, call[p].got)
  <2>1. PICK d \in Calls :
            /\ OneOn(call[p]) = d /\ Busily(d) /\ d # Idle
            /\ Head(d.route) = Then(Op(p), Job(p), On(p))
            /\ d = [call[p] EXCEPT !.route = d.route]
    BY <1>1, <1>3, OneOnIs DEF On, Op, Job
  <2>2. /\ d.op = call[p].op /\ d.todo = call[p].todo /\ d.token = call[p].token
        /\ d.until = call[p].until /\ d.copy = call[p].copy /\ d.got = call[p].got
    BY <1>1, <2>1 DEF Calls
  <2>3. Onward(p, Head(d.route), d.copy, d.got)
    BY <2>1, <2>2, GoesAs DEF GoesOn
  <2> QED BY <2>1, <2>2, <2>3
<1> QED BY <1>2, <1>3

LEMMA LoadIs ==
    ASSUME Typed, NEW p \in Callers, At(p, "load"), NEW b \in Held,
           Becomes(p, [OneOn(call[p]) EXCEPT !.copy = b])
    PROVE  Onward(p, Then(Op(p), Job(p), "load"), b, call[p].got)
<1>1. Acting(p) /\ On(p) = "load" /\ On(p) \notin Last
  BY AtIs DEF Last
<1>2. call[p] \in Calls /\ Busily(call[p])
  BY <1>1, InFlight
<1>3. PICK d \in Calls :
          /\ OneOn(call[p]) = d /\ Busily(d) /\ d # Idle
          /\ Head(d.route) = Then(Op(p), Job(p), On(p))
          /\ d = [call[p] EXCEPT !.route = d.route]
  BY <1>1, <1>2, OneOnIs DEF On, Op, Job
<1>4. /\ d.op = call[p].op /\ d.todo = call[p].todo /\ d.token = call[p].token
      /\ d.until = call[p].until /\ d.got = call[p].got
  BY <1>2, <1>3 DEF Calls
<1>5. PICK e : e = [d EXCEPT !.copy = b]
  OBVIOUS
<1>6. /\ e \in Calls /\ e.copy = b /\ e.op = d.op /\ e.todo = d.todo /\ e.token = d.token
      /\ e.until = d.until /\ e.got = d.got /\ e.route = d.route
  BY <1>5 DEF Calls
<1>7. Busily(e)
  BY <1>3, <1>6 DEF Busily
<1>8. e # Idle
  BY <1>6, <1>7 DEF Busily, Idle
<1>9. Onward(p, Head(e.route), e.copy, e.got)
  BY <1>1, <1>3, <1>4, <1>5, <1>6, <1>7, <1>8, GoesAs
<1> QED BY <1>1, <1>3, <1>4, <1>6, <1>9

LEMMA SaveIs ==
    ASSUME Typed, NEW p \in Callers, At(p, "save"), Op(p) = "pull", NEW t \in Tokens,
           Becomes(p, OneOn([call[p] EXCEPT !.got = @ \union {<<Job(p), t>>}]))
    PROVE  Onward(p, "lease", call[p].copy, call[p].got \union {<<Job(p), t>>})
<1>1. Acting(p) /\ On(p) = "save" /\ On(p) \notin Last
  BY AtIs DEF Last
<1>2. /\ call[p] \in Calls /\ Busily(call[p]) /\ Job(p) \in Jobs
      /\ call[p].got \in SUBSET (Jobs \X Tokens)
  BY <1>1, InFlight
<1>3. PICK got : got = call[p].got \union {<<Job(p), t>>}
  OBVIOUS
<1>4. got \in SUBSET (Jobs \X Tokens)
  BY <1>2, <1>3
<1>5. PICK c : c = [call[p] EXCEPT !.got = got]
  OBVIOUS
<1>6. /\ c \in Calls /\ c.copy = call[p].copy /\ c.op = call[p].op /\ c.todo = call[p].todo
      /\ c.token = call[p].token /\ c.until = call[p].until /\ c.got = got
      /\ c.route = call[p].route
  BY <1>2, <1>4, <1>5 DEF Calls
<1>7. Busily(c)
  BY <1>2, <1>6 DEF Busily, Op
<1>8. Head(c.route) \notin Last /\ Head(c.route) = "save"
  BY <1>1, <1>6 DEF On
<1>9. PICK d \in Calls :
          /\ OneOn(c) = d /\ Busily(d) /\ d # Idle
          /\ Head(d.route) = Then(c.op, c.todo[1], Head(c.route))
          /\ d = [c EXCEPT !.route = d.route]
  BY <1>6, <1>7, <1>8, OneOnIs
<1>10. /\ d.op = c.op /\ d.todo = c.todo /\ d.token = c.token
       /\ d.until = c.until /\ d.got = c.got /\ d.copy = c.copy
  BY <1>6, <1>9 DEF Calls
<1>11. Then(c.op, c.todo[1], "save") = "lease"
  BY <1>6 DEF Then, Op, Settles
<1>12. Becomes(p, d)
  BY <1>3, <1>5, <1>9
<1>13. Onward(p, Head(d.route), d.copy, d.got)
  BY <1>1, <1>6, <1>9, <1>10, <1>12, GoesAs
<1> QED BY <1>3, <1>6, <1>8, <1>9, <1>10, <1>11, <1>13

LEMMA BackIs ==
    ASSUME Typed, NEW p \in Callers, Acting(p), Op(p) = "pull",
           Becomes(p, [call[p] EXCEPT !.route = <<"enqueue">>])
    PROVE  Onward(p, "enqueue", call[p].copy, call[p].got)
<1>1. call[p] \in Calls /\ Busily(call[p])
  BY InFlight
<1>2. PICK r \in Seq(Words) : r = <<"enqueue">>
  <2>1. PICK r : r = <<"enqueue">>
    OBVIOUS
  <2>2. r \in Seq(Words)
    BY <2>1, IfIs DEF If, Words, Last
  <2> QED BY <2>1, <2>2
<1>a. Len(r) = 1 /\ r[1] = "enqueue"
  BY <1>2
<1>b. Head(r) = "enqueue" /\ r # <<>>
  <2>1. Len(r) >= 1
    BY <1>a
  <2>2. r # <<>> /\ Head(r) = r[1]
    BY <2>1, HeadFirst
  <2> QED BY <1>a, <2>2
<1>3. Chain("pull", call[p].todo[1], r)
  <2>1. \A i \in 1..Len(r) : i = 1 /\ i = Len(r)
    BY <1>a
  <2> QED BY <1>a, <1>b, <2>1 DEF Chain, Makes, Last
<1>4. PICK d : d = [call[p] EXCEPT !.route = r]
  OBVIOUS
<1>5. /\ d \in Calls /\ d.op = call[p].op /\ d.todo = call[p].todo /\ d.token = call[p].token
      /\ d.until = call[p].until /\ d.got = call[p].got /\ d.copy = call[p].copy /\ d.route = r
  BY <1>1, <1>4 DEF Calls
<1>6. Busily(d)
  BY <1>1, <1>3, <1>5 DEF Busily, Op
<1>7. d # Idle
  BY <1>5, <1>6 DEF Busily, Idle
<1>8. Onward(p, Head(d.route), d.copy, d.got)
  BY <1>2, <1>4, <1>5, <1>6, <1>7, GoesAs
<1> QED BY <1>2, <1>b, <1>5, <1>8

LEMMA TwiceIs ==
    ASSUME Typed, NEW p \in Callers, Acting(p), Op(p) = "push", Becomes(p, Idle)
    PROVE  Quits(p)
<1>1. Busily(call[p])
  BY InFlight
<1>2. NextMember(call[p]) = Idle
  BY <1>1 DEF Busily, Op, NextMember
<1> QED BY <1>2, QuitsIs

-----------------------------------------------------------------------------
(* The rows a step does not touch *)

LEMMA SameCall ==
    ASSUME NEW q \in Callers, call'[q] = call[q]
    PROVE  /\ Acting(q)' = Acting(q) /\ Job(q)' = Job(q) /\ Op(q)' = Op(q) /\ On(q)' = On(q)
           /\ Lease1(q)' = Lease1(q) /\ Answers(q)' = Answers(q)
           /\ \A j \in Jobs : Grips(q, j)' = Grips(q, j) /\ Pending(q, j)' = Pending(q, j)
<1>1. Acting(q)' = Acting(q) /\ Job(q)' = Job(q) /\ Op(q)' = Op(q) /\ On(q)' = On(q)
  BY DEF Acting, Job, Op, On
<1>2. Lease1(q)' = Lease1(q) /\ Answers(q)' = Answers(q)
  BY <1>1 DEF Lease1, Answers
<1>3. \A j \in Jobs : Grips(q, j)' = Grips(q, j) /\ Pending(q, j)' = Pending(q, j)
  BY <1>1 DEF Grips, Pending
<1> QED BY <1>1, <1>2, <1>3

\* Where j is, and what it is, is left alone; its slot is if it is j's.
Frame(j) ==
    /\ (j \in DOMAIN ready)' = (j \in DOMAIN ready)
    /\ (j \in DOMAIN leased)' = (j \in DOMAIN leased)
    /\ j \in DOMAIN leased => leased'[j] = leased[j]
    /\ (j \in dead)' = (j \in dead)
    /\ blob'[j] = blob[j]
    /\ (j \in finished)' = (j \in finished)
    /\ Serial(j) /\ SlotOf(j).job = j => SlotOf(j)'.job = j /\ SlotOf(j)'.left >= SlotOf(j).left

LEMMA SlotInt == ASSUME Typed, NEW j \in Jobs
                 PROVE  SlotOf(j).left \in 0..LeaseLen /\ SlotOf(j).job \in Jobs \union {NoJob}
<1>1. NameOf[j] \in Names
  BY ColumnAssumption
<1> QED BY <1>1 DEF Typed, TypeOKR, SlotOf

LEMMA HoldsOn == ASSUME Typed, Typed', NEW j \in Jobs, Frame(j), NEW d \in Int, Holds(j, d)
                 PROVE  Holds(j, d)'
<1>1. SlotOf(j).left \in Int
  BY SlotInt, SizeAssumption
<1>2. SlotOf(j)'.left \in Int
  <2>1. NameOf[j] \in Names
    BY ColumnAssumption
  <2> QED BY <2>1, SizeAssumption DEF Typed, TypeOKR, SlotOf
<1> QED BY <1>1, <1>2 DEF Frame, Holds

LEMMA AliveOn == ASSUME NEW j \in Jobs, Frame(j), NEW t
                 PROVE  Alive(j, t)' = Alive(j, t)
BY DEF Alive, Frame

LEMMA OverNow == ASSUME Typed, NEW p \in Callers, Acting(p), NEW j \in Jobs, Quits(p)
                 PROVE  /\ Acting(p)' /\ Job(p)' = j =>
                            /\ Op(p)' \in {"pull", "reclaim"} /\ On(p)' = First(Op(p)', j)
                            /\ j # Job(p)
                        /\ ~Grips(p, j)' /\ ~Answers(p)'
                        /\ \A t \in Tokens : <<j, t>> \in call'[p].got => <<j, t>> \in call[p].got /\ held' = held
                        /\ \A t \in Tokens : <<j, t>> \in held' /\ <<j, t>> \notin held =>
                              <<j, t>> \in call[p].got /\ call'[p].got = {}
<1>1. CASE call'[p] = Idle /\ held' = held \union call[p].got
  <2>1. ~Acting(p)' /\ call'[p].got = {}
    BY <1>1 DEF Acting, Idle
  <2> QED BY <1>1, <2>1 DEF Grips, Answers
<1>2. CASE /\ Acting(p)' /\ Op(p) \in {"pull", "reclaim"} /\ Op(p)' = Op(p)
           /\ On(p)' = First(Op(p), Job(p)') /\ Job(p)' # Job(p)
           /\ call'[p].got = call[p].got /\ held' = held
  <2>1. On(p)' \in Before(Op(p)')
    <3>1. \A i : First("pull", i) \in Before("pull") /\ First("reclaim", i) \in Before("reclaim")
      BY DEF First, Before, Settles
    <3> QED BY <1>2, <3>1
  <2> QED BY <1>2, <2>1 DEF Grips, Answers, Settles
<1> QED BY <1>1, <1>2 DEF Quits

LEMMA WrittenFirst ==
    ASSUME NEW p \in Callers, Op(p)' \in {"pull", "reclaim"}, On(p)' = First(Op(p)', Job(p)')
    PROVE  Written(p)'
<1>1. On(p)' = IF Op(p)' = "pull" THEN "unready" ELSE "unlease"
  <2>1. \A i : First("pull", i) = "unready" /\ First("reclaim", i) = "unlease"
    BY DEF First
  <2> QED BY <2>1
<1>2. call'[p].op = Op(p)'
  BY DEF Op
<1>3. ASSUME NEW c, NEW b, NEW done, c.op = "pull" PROVE Says(c, "unready", b, done)
  BY <1>3 DEF Says, Settles
<1>5. ASSUME NEW c, NEW b, NEW done, c.op = "reclaim" PROVE Says(c, "unlease", b, done)
  BY <1>5 DEF Says, Settles
<1>4. Written(p)' = Says(call'[p], On(p)', blob'[Job(p)'], Job(p)' \in finished')
  BY DEF Written
<1> QED BY <1>1, <1>2, <1>3, <1>4, <1>5

LEMMA WrittenSame ==
    ASSUME NEW q \in Callers, call'[q] = call[q], blob'[Job(q)] = blob[Job(q)],
           (Job(q) \in finished)' = (Job(q) \in finished), Written(q)
    PROVE  Written(q)'
<1>1. Job(q)' = Job(q) /\ Op(q)' = Op(q) /\ On(q)' = On(q)
  BY SameCall
<1>2. blob'[Job(q)'] = blob[Job(q)] /\ (Job(q)' \in finished') = (Job(q) \in finished)
  BY <1>1
<1>3. Written(q)' = Says(call'[q], On(q)', blob'[Job(q)'], Job(q)' \in finished')
  BY DEF Written
<1> QED BY <1>1, <1>2, <1>3 DEF Written

LEMMA Elsewhere ==
    ASSUME Typed, Typed', NEW p \in Callers, Acting(p), NEW j \in Jobs, JobInv(j), Frame(j),
           \/ Quits(p) /\ (j = Job(p) => On(p) # "lease")
           \/ \E on, copy, got : /\ Onward(p, on, copy, got) /\ j # Job(p)
                                 /\ \A t \in Tokens : <<j, t>> \in got => <<j, t>> \in call[p].got
    PROVE  JobInv(j)'
<1>1. \A q \in Callers \ {p} : call'[q] = call[q]
  BY DEF Quits, Onward, Others
<1>2. pushed' = pushed
  BY DEF Quits, Onward, Others
<1>3. Acting(p)' /\ Job(p)' = j =>
        /\ Op(p)' \in {"pull", "reclaim"} /\ On(p)' = First(Op(p)', j) /\ j # Job(p)
  BY OverNow DEF Onward
<1>4. ~Grips(p, j)' /\ (Job(p)' = j => ~Answers(p)')
  BY OverNow DEF Onward, Grips
<1>5. \A q \in Callers, t \in Tokens : <<j, t>> \in call'[q].got => <<j, t>> \in call[q].got
  <2>1. \A t \in Tokens : <<j, t>> \in call'[p].got => <<j, t>> \in call[p].got
    BY OverNow DEF Onward
  <2> QED BY <1>1, <2>1
<1>6. \A t \in Tokens : <<j, t>> \in call[p].got => Alive(j, t) \/ (j # Job(p) /\ Alive(j, t))
                                \/ (j = Job(p) /\ On(p) = "lease")
  BY DEF JobInv, LeaseAt
<1>7. \A t \in Tokens : <<j, t>> \in held' /\ <<j, t>> \notin held =>
            <<j, t>> \in call[p].got /\ call'[p].got = {} /\ Alive(j, t)
  BY <1>6, OverNow DEF Onward
<1>8. \A t : Alive(j, t)' = Alive(j, t)
  BY AliveOn
<1>9. \A q \in Callers : Pending(q, j)' => Pending(q, j)
  <2>1. Pending(p, j)' => Pending(p, j)
    <3>1. CASE Quits(p)
      BY <3>1 DEF Quits
    <3>2. ASSUME NEW on, NEW copy, NEW got, Onward(p, on, copy, got), j # Job(p)
          PROVE  Pending(p, j)' => Pending(p, j)
      <4>1. call'[p].todo = call[p].todo /\ Job(p) = call[p].todo[1]
        BY <3>2 DEF Onward, Job
      <4>2. Op(p)' = Op(p) /\ Acting(p)
        BY <3>2 DEF Onward
      <4>3. \A i \in 1..Len(call[p].todo) : call[p].todo[i] = j => i > 1
        <5>1. \A i \in 1..Len(call[p].todo) : i # 1 => i > 1
          OBVIOUS
        <5> QED BY <3>2, <4>1, <5>1
      <4> QED BY <4>1, <4>2, <4>3 DEF Pending
    <3> QED BY <3>1, <3>2
  <2> QED BY <1>1, <2>1, SameCall
<1>10. OneAt(j)'
  <2>1. \A q \in Callers : Grips(q, j)' => Grips(q, j)
    BY <1>1, <1>4, SameCall
  <2> QED BY <2>1 DEF JobInv, OneAt, Frame, InNone
<1>11. RowAt(j)'
  <2>1. ASSUME NEW q \in Callers, Acting(q)', Job(q)' = j PROVE Written(q)'
    <3>1. CASE q = p
      BY <1>3, <2>1, <3>1, WrittenFirst
    <3>2. CASE q # p
      <4>1. Acting(q) /\ Job(q) = j /\ Op(q)' = Op(q) /\ On(q)' = On(q) /\ call'[q] = call[q]
        BY <1>1, <2>1, <3>2, SameCall
      <4>2. Written(q) /\ blob'[j] = blob[j] /\ (j \in finished)' = (j \in finished)
        BY <4>1 DEF JobInv, RowAt, Frame
      <4>3. (Job(q) \in finished)' = (Job(q) \in finished)
        BY <2>1, <4>1, <4>2
      <4> QED BY <4>1, <4>2, <4>3, WrittenSame
    <3> QED BY <3>1, <3>2
  <2>2. Placed(j)'
    BY <1>2 DEF JobInv, RowAt, Frame, Placed, InNone
  <2> QED BY <2>1, <2>2 DEF RowAt
<1>12. LeaseAt(j)'
  <2>1. \A t \in Tokens : <<j, t>> \in held' => Alive(j, t)'
    BY <1>7, <1>8 DEF JobInv, LeaseAt
  <2>2. ASSUME NEW q \in Callers, NEW t \in Tokens, <<j, t>> \in call'[q].got
        PROVE  \/ Alive(j, t)'
               \/ Acting(q)' /\ Job(q)' = j /\ Op(q)' = "pull" /\ On(q)' = "lease" /\ blob'[j].token = t
    <3>1. <<j, t>> \in call[q].got
      BY <1>5, <2>2
    <3>2. CASE q = p
      <4>1. Alive(j, t) \/ (j = Job(p) /\ On(p) = "lease")
        BY <1>6, <3>1, <3>2
      <4> QED BY <1>8, <4>1
    <3>3. CASE q # p
      <4>1. \/ Alive(j, t)
            \/ Acting(q) /\ Job(q) = j /\ Op(q) = "pull" /\ On(q) = "lease" /\ blob[j].token = t
        BY <3>1 DEF JobInv, LeaseAt
      <4>2. blob'[j].token = blob[j].token
        BY DEF Frame
      <4> QED BY <1>1, <1>8, <3>3, <4>1, <4>2, SameCall
    <3> QED BY <3>2, <3>3
  <2>3. ASSUME NEW q \in Callers, Answers(q)', Job(q)' = j
        PROVE  /\ q # p /\ Answers(q) /\ Job(q) = j /\ On(q)' = On(q) /\ Lease1(q)' = Lease1(q)
               /\ call'[q].token = call[q].token
    BY <1>1, <1>4, <2>3, SameCall
  <2>4. ASSUME NEW q \in Callers, Answers(q)', Job(q)' = j, On(q)' \in {"load", "unlease"}
        PROVE  Alive(j, call[q].token)'
    <3>1. Alive(j, call[q].token) /\ call'[q].token = call[q].token
      BY <2>3, <2>4 DEF JobInv, LeaseAt
    <3> QED BY <1>8, <3>1
  <2>5. ASSUME NEW q \in Callers, Acting(q)', Job(q)' = j, Op(q)' = "heartbeat"
        PROVE  Lease1(q)' \in held'
    <3>1. q # p
      BY <1>3, <2>5
    <3>2. Lease1(q) \in held /\ Lease1(q)' = Lease1(q)
      BY <1>1, <2>5, <3>1, SameCall DEF JobInv, LeaseAt
    <3>3. held \subseteq held'
      BY DEF Quits, Onward
    <3> QED BY <3>2, <3>3
  <2>6. ASSUME NEW q \in Callers, Answers(q)', Job(q)' = j
        PROVE  /\ Lease1(q)' \notin held'
               /\ \A r \in Callers : Lease1(q)' \notin call'[r].got
               /\ \A r \in Callers : Answers(r)' /\ Job(r)' = j => q = r
    <3>1. /\ Lease1(q) \notin held /\ \A r \in Callers : Lease1(q) \notin call[r].got
          /\ \A r \in Callers : Answers(r) /\ Job(r) = j => q = r
      BY <2>3, <2>6 DEF JobInv, LeaseAt
    <3>2. PICK t : Lease1(q) = <<j, t>>
      BY <2>3, <2>6 DEF Lease1
    <3>3. Lease1(q)' = <<j, t>>
      BY <2>3, <2>6, <3>2
    <3>4. <<j, t>> \notin held'
      <4> SUFFICES ASSUME <<j, t>> \in held' PROVE FALSE
        OBVIOUS
      <4>1. t \in Tokens
        BY DEF Typed, TypeOKR
      <4> QED BY <1>7, <3>1, <3>2, <4>1
    <3>5. ASSUME NEW r \in Callers, <<j, t>> \in call'[r].got PROVE FALSE
      <4>1. call'[r] \in Calls
        BY DEF Typed
      <4>2. call'[r].got \in SUBSET (Jobs \X Tokens)
        BY <4>1 DEF Calls
      <4>3. t \in Tokens
        BY <3>5, <4>2
      <4> QED BY <1>5, <3>1, <3>2, <3>5, <4>3
    <3>6. \A r \in Callers : Answers(r)' /\ Job(r)' = j => q = r
      BY <2>3, <3>1
    <3> QED BY <3>3, <3>4, <3>5, <3>6
  <2>7. ASSUME NEW q \in Callers, NEW t \in Tokens, <<j, t>> \in call'[q].got
        PROVE  /\ <<j, t>> \notin held'
               /\ \A r \in Callers : <<j, t>> \in call'[r].got => q = r
    <3>1. /\ <<j, t>> \in call[q].got /\ <<j, t>> \notin held
          /\ \A r \in Callers : <<j, t>> \in call[r].got => q = r
      BY <1>5, <2>7 DEF JobInv, LeaseAt
    <3>2. <<j, t>> \notin held'
      <4> SUFFICES ASSUME <<j, t>> \in held' PROVE FALSE
        OBVIOUS
      <4>1. <<j, t>> \in call[p].got /\ call'[p].got = {}
        BY <1>7, <3>1
      <4> QED BY <2>7, <3>1, <4>1
    <3> QED BY <1>5, <3>1, <3>2
  <2> QED BY <2>1, <2>2, <2>4, <2>5, <2>6, <2>7 DEF LeaseAt
<1>13. DueAt(j)'
  BY <1>9 DEF JobInv, DueAt, Frame
<1>14. SlotAt(j)'
  <2>0. (j \in DOMAIN leased)' = (j \in DOMAIN leased) /\ (j \in DOMAIN leased => leased'[j] = leased[j] /\ leased[j] \in Int)
    BY SizeAssumption DEF Frame, Typed
  <2>1. ASSUME NEW t \in Tokens, <<j, t>> \in held' PROVE Holds(j, leased[j])'
    <3>1. j \in DOMAIN leased
      BY <1>7, <2>1 DEF JobInv, LeaseAt, Alive
    <3>2. Holds(j, leased[j])
      BY <1>7, <2>1, <3>1 DEF JobInv, SlotAt
    <3> QED BY <2>0, <3>1, <3>2, HoldsOn DEF Holds
  <2>2. ASSUME NEW q \in Callers, NEW t \in Tokens, <<j, t>> \in call'[q].got
        PROVE  Holds(j, IF j \in DOMAIN leased THEN leased[j] ELSE 1)'
    <3>1. Holds(j, IF j \in DOMAIN leased THEN leased[j] ELSE 1)
      BY <1>5, <2>2 DEF JobInv, SlotAt
    <3>2. CASE j \in DOMAIN leased
      <4>1. Holds(j, leased[j]) /\ leased[j] \in Int
        BY <2>0, <3>1, <3>2
      <4>2. Holds(j, leased[j])'
        BY <2>0, <3>2, <4>1, HoldsOn DEF Holds
      <4> QED BY <2>0, <3>2, <4>2 DEF Holds
    <3>3. CASE j \notin DOMAIN leased
      <4>1. Holds(j, 1)
        BY <3>1, <3>3
      <4>2. Holds(j, 1)'
        BY <4>1, HoldsOn
      <4> QED BY <2>0, <3>3, <4>2 DEF Holds
    <3> QED BY <3>2, <3>3
  <2>3. ASSUME NEW q \in Callers, Acting(q)', Job(q)' = j, Op(q)' \in {"pull", "heartbeat"},
               On(q)' \in {"save", "lease"}
        PROVE  Holds(j, call[q].until)'
    <3>1. q # p
      BY <1>3, <2>3 DEF First
    <3>2. Acting(q) /\ Job(q) = j /\ Op(q) \in {"pull", "heartbeat"} /\ On(q) \in {"save", "lease"}
      BY <1>1, <2>3, <3>1, SameCall
    <3>3. Holds(j, call[q].until) /\ call[q].until \in Int /\ call'[q].until = call[q].until
      BY <1>1, <3>1, <3>2, InFlight, SizeAssumption DEF JobInv, SlotAt
    <3>4. Holds(j, call[q].until)'
      BY <3>3, HoldsOn DEF Holds
    <3> QED BY <3>4
  <2> QED BY <2>1, <2>2, <2>3 DEF SlotAt
<1> QED BY <1>10, <1>11, <1>12, <1>13, <1>14 DEF JobInv

-----------------------------------------------------------------------------
(* The row a call works on *)

\* Nobody but p has to do with j, those aside who look whether it is in its set.
Alone(p, j) ==
    \A q \in Callers \ {p} :
        /\ \A t \in Tokens : <<j, t>> \notin call[q].got
        /\ ~Pending(q, j)
        /\ Acting(q) /\ Job(q) = j =>
            Op(q) \in {"pull", "retry", "discard"} /\ On(q) \in Before(Op(q))

LEMMA BareAlone ==
    ASSUME Typed, NEW p \in Callers, NEW j \in Jobs, JobInv(j), \A t : ~Alive(j, t),
           \A q \in Callers \ {p} : ~Grips(q, j) /\ ~Pending(q, j)
    PROVE  /\ Alone(p, j) /\ \A t \in Tokens : <<j, t>> \notin held
           /\ \A t \in Tokens : <<j, t>> \in call[p].got =>
                Acting(p) /\ Job(p) = j /\ Op(p) = "pull" /\ On(p) = "lease" /\ blob[j].token = t
<1>1. \A t \in Tokens : <<j, t>> \notin held
  BY DEF JobInv, LeaseAt
<1>2. \A q \in Callers, t \in Tokens : <<j, t>> \in call[q].got =>
        Acting(q) /\ Job(q) = j /\ Op(q) = "pull" /\ On(q) = "lease" /\ blob[j].token = t
  BY DEF JobInv, LeaseAt
<1>3. ASSUME NEW q \in Callers \ {p}
      PROVE  /\ \A t \in Tokens : <<j, t>> \notin call[q].got
             /\ ~Pending(q, j)
             /\ Acting(q) /\ Job(q) = j =>
                 Op(q) \in {"pull", "retry", "discard"} /\ On(q) \in Before(Op(q))
  <2>1. \A t \in Tokens : <<j, t>> \notin call[q].got
    <3>1. Before("pull") = {"unready"}
      BY DEF Before, Settles
    <3> QED BY <1>2, <1>3, <3>1 DEF Grips
  <2>2. ASSUME Acting(q), Job(q) = j
        PROVE  Op(q) \in {"pull", "retry", "discard"} /\ On(q) \in Before(Op(q))
    <3>1. On(q) \in Before(Op(q)) /\ Op(q) \in OpNames
      BY <1>3, <2>2, InFlight DEF Grips
    <3>2. CASE Op(q) = "push"
      BY <3>1, <3>2 DEF Before, Settles
    <3>3. CASE Op(q) = "reclaim"
      <4>1. On(q) = "unlease"
        BY <3>1, <3>3 DEF Before, Settles
      <4>2. 1 \in 1..Len(call[q].todo) /\ call[q].todo[1] = j
        <5>1. PICK todo \in Seq(Jobs) : todo = call[q].todo
          BY <2>2, InFlight DEF Calls
        <5> QED BY <2>2, <5>1 DEF Acting, Job
      <4> QED BY <1>3, <2>2, <3>3, <4>1, <4>2 DEF Pending
    <3>4. CASE Op(q) \in Settles
      <4>1. On(q) \in {"load", "unlease"}
        BY <3>1, <3>4 DEF Before, Settles
      <4>2. Answers(q)
        BY <2>2, <3>4, <4>1 DEF Answers, Last
      <4>3. Alive(j, call[q].token)
        BY <2>2, <4>1, <4>2 DEF JobInv, LeaseAt
      <4> QED BY <4>3
    <3>5. CASE Op(q) = "heartbeat"
      <4>1. Lease1(q) \in held
        BY <2>2, <3>5 DEF JobInv, LeaseAt
      <4>2. call[q].token \in Tokens
        BY <4>1 DEF Lease1, Typed, TypeOKR
      <4> QED BY <1>1, <2>2, <4>1, <4>2 DEF Lease1
    <3> QED BY <3>1, <3>2, <3>3, <3>4, <3>5 DEF OpNames, Settles
  <2> QED BY <1>3, <2>1, <2>2
<1> QED BY <1>1, <1>2, <1>3 DEF Alone

LEMMA GripAlone ==
    ASSUME Typed, NEW p \in Callers, NEW j \in Jobs, JobInv(j), Grips(p, j)
    PROVE  /\ Alone(p, j) /\ InNone(j) /\ \A t \in Tokens : <<j, t>> \notin held
           /\ \A t \in Tokens : <<j, t>> \in call[p].got =>
                Acting(p) /\ Job(p) = j /\ Op(p) = "pull" /\ On(p) = "lease" /\ blob[j].token = t
           /\ ~Pending(p, j)
<1>1. InNone(j) /\ \A q \in Callers \ {p} : ~Grips(q, j)
  BY DEF JobInv, OneAt
<1>2. \A t : ~Alive(j, t)
  BY <1>1 DEF Alive, InNone
<1>3. \A q \in Callers : ~Pending(q, j)
  BY <1>1 DEF JobInv, DueAt, InNone
<1> QED BY <1>1, <1>2, <1>3, BareAlone

LEMMA Assemble ==
    ASSUME Typed, Typed', NEW p \in Callers, NEW j \in Jobs, Others(p), Alone(p, j),
           \A t \in Tokens : <<j, t>> \notin held',
           (j \in DOMAIN ready => j \notin DOMAIN leased /\ j \notin dead)',
           (j \in DOMAIN leased => j \notin dead)', Placed(j)',
           Grips(p, j)' => InNone(j)',
           Acting(p)' /\ Job(p)' = j => Written(p)' /\ Op(p)' # "heartbeat",
           Answers(p)' /\ Job(p)' = j => On(p)' \notin {"load", "unlease"},
           ~Pending(p, j)',
           \A t \in Tokens : <<j, t>> \in call'[p].got =>
                Acting(p)' /\ Job(p)' = j /\ Op(p)' = "pull" /\ On(p)' = "lease" /\ blob'[j].token = t,
           Acting(p)' /\ Job(p)' = j /\ Op(p)' = "pull" /\ On(p)' \in {"save", "lease"} =>
                Holds(j, call[p].until)'
    PROVE  JobInv(j)'
<1>1. \A q \in Callers \ {p} : call'[q] = call[q]
  BY DEF Others
<1>2. ASSUME NEW q \in Callers \ {p}
      PROVE  /\ \A t \in Tokens : <<j, t>> \notin call'[q].got
             /\ ~Pending(q, j)'
             /\ Acting(q)' /\ Job(q)' = j =>
                 /\ Op(q)' \in {"pull", "retry", "discard"} /\ On(q)' \in Before(Op(q)')
                 /\ On(q)' \in {"unready", "undead"}
  <2>1. call'[q] = call[q]
    BY <1>1
  <2>2. \A op \in {"pull", "retry", "discard"} : Before(op) \subseteq {"unready", "undead"}
    BY DEF Before, Settles
  <2>3. /\ \A t \in Tokens : <<j, t>> \notin call[q].got
        /\ ~Pending(q, j)
        /\ Acting(q) /\ Job(q) = j =>
                 /\ Op(q) \in {"pull", "retry", "discard"} /\ On(q) \in Before(Op(q))
                 /\ On(q) \in {"unready", "undead"}
    BY <2>2 DEF Alone
  <2> QED BY <2>1, <2>3, SameCall
<1>3. \A q \in Callers : Grips(q, j)' => q = p
  BY <1>2 DEF Grips
<1>4. OneAt(j)'
  BY <1>3 DEF OneAt
<1>5. RowAt(j)'
  <2>1. ASSUME NEW q \in Callers, Acting(q)', Job(q)' = j PROVE Written(q)'
    <3>1. CASE q = p
      BY <2>1, <3>1
    <3>2. CASE q # p
      <4>1. Op(q)' \in {"pull", "retry", "discard"} /\ On(q)' \in {"unready", "undead"}
        BY <1>2, <2>1, <3>2
      <4>2. ASSUME NEW c, NEW on \in {"unready", "undead"}, NEW b, NEW done,
                   c.op \in {"pull", "retry", "discard"}
            PROVE  Says(c, on, b, done)
        BY <4>2 DEF Says, Settles
      <4>3. Written(q)' = Says(call'[q], On(q)', blob'[Job(q)'], Job(q)' \in finished')
        BY DEF Written
      <4> QED BY <4>1, <4>2, <4>3 DEF Op
    <3> QED BY <3>1, <3>2
  <2> QED BY <2>1 DEF RowAt
<1>6. LeaseAt(j)'
  <2>1. \A q \in Callers, t \in Tokens : <<j, t>> \in call'[q].got =>
            /\ Acting(q)' /\ Job(q)' = j /\ Op(q)' = "pull" /\ On(q)' = "lease" /\ blob'[j].token = t
            /\ q = p
    BY <1>2
  <2>2. \A q \in Callers : Answers(q)' /\ Job(q)' = j => q = p
    BY <1>2 DEF Answers, Settles
  <2>3. \A q \in Callers : Answers(q)' /\ Job(q)' = j /\ On(q)' \in {"load", "unlease"} => FALSE
    BY <2>2
  <2>4. \A q \in Callers : Acting(q)' /\ Job(q)' = j /\ Op(q)' = "heartbeat" => FALSE
    BY <1>2
  <2>5. ASSUME NEW q \in Callers, Answers(q)', Job(q)' = j
        PROVE  /\ Lease1(q)' \notin held'
               /\ \A r \in Callers : Lease1(q)' \notin call'[r].got
               /\ \A r \in Callers : Answers(r)' /\ Job(r)' = j => q = r
    <3>1. q = p /\ Op(p)' # "pull"
      BY <2>2, <2>5 DEF Answers, Settles
    <3>2. PICK t : Lease1(q)' = <<j, t>>
      BY <2>5 DEF Lease1
    <3>3. <<j, t>> \notin held'
      <4>1. <<j, t>> \in held' => t \in Tokens
        BY DEF Typed, TypeOKR
      <4> QED BY <4>1
    <3>4. ASSUME NEW r \in Callers, <<j, t>> \in call'[r].got PROVE FALSE
      <4>1. t \in Tokens
        BY <3>4 DEF Typed, Calls
      <4> QED BY <2>1, <3>1, <3>4, <4>1
    <3> QED BY <2>2, <2>5, <3>2, <3>3, <3>4
  <2>6. \A q \in Callers, t \in Tokens : <<j, t>> \in call'[q].got =>
            /\ <<j, t>> \notin held'
            /\ \A r \in Callers : <<j, t>> \in call'[r].got => q = r
    BY <2>1
  <2> QED BY <2>1, <2>3, <2>4, <2>5, <2>6 DEF LeaseAt
<1>7. DueAt(j)'
  BY <1>2 DEF DueAt
<1>8. SlotAt(j)'
  <2>1. ASSUME NEW q \in Callers, NEW t \in Tokens, <<j, t>> \in call'[q].got
        PROVE  Holds(j, IF j \in DOMAIN leased THEN leased[j] ELSE 1)'
    <3>1. q = p /\ Acting(p)' /\ Job(p)' = j /\ Op(p)' = "pull" /\ On(p)' = "lease"
      BY <1>2, <2>1
    <3>2. Holds(j, call[p].until)'
      BY <3>1
    <3>3. Grips(p, j)'
      <4>1. Before("pull") = {"unready"}
        BY DEF Before, Settles
      <4> QED BY <3>1, <4>1 DEF Grips
    <3>4. (j \notin DOMAIN leased)'
      BY <3>3 DEF InNone
    <3>5. call'[p].until >= 1 /\ call'[p].until \in Int
      <4>1. Busily(call[p])' /\ (call[p] \in Calls)'
        BY <3>1 DEF Others, Shape, Acting, Idle
      <4> QED BY <3>1, <4>1, SizeAssumption DEF Busily, Calls, Op
    <3>6. SlotOf(j)'.left \in Int
      <4>1. NameOf[j] \in Names
        BY ColumnAssumption
      <4> QED BY <4>1, SizeAssumption DEF Typed, TypeOKR, SlotOf
    <3> QED BY <3>2, <3>4, <3>5, <3>6 DEF Holds
  <2>2. ASSUME NEW q \in Callers, Acting(q)', Job(q)' = j, Op(q)' \in {"pull", "heartbeat"},
               On(q)' \in {"save", "lease"}
        PROVE  Holds(j, call[q].until)'
    <3>1. q = p
      BY <1>2, <2>2
    <3> QED BY <2>2, <3>1
  <2> QED BY <2>1, <2>2 DEF SlotAt
<1> QED BY <1>4, <1>5, <1>6, <1>7, <1>8 DEF JobInv

LEMMA Taken ==
    ASSUME Typed, Typed', NEW p \in Callers, NEW j \in Jobs, Acting(p), j = Job(p), Alone(p, j),
           \A t \in Tokens : <<j, t>> \notin held, Op(p) # "heartbeat",
           NEW on, NEW copy, NEW got, Onward(p, on, copy, got), on \notin Before(Op(p)),
           InNone(j)', Placed(j)', Says(call'[p], on, blob'[j], (j \in finished)'),
           \A t \in Tokens : <<j, t>> \in got =>
                Op(p) = "pull" /\ on = "lease" /\ blob'[j].token = t,
           Op(p) = "pull" /\ on \in {"save", "lease"} => Holds(j, call[p].until)'
    PROVE  JobInv(j)'
<1>1. /\ Acting(p)' /\ On(p)' = on /\ Job(p)' = j /\ Op(p)' = Op(p) /\ call'[p].got = got
      /\ held' = held /\ Others(p) /\ call'[p].todo = call[p].todo
  BY DEF Onward
<1>2. Written(p)'
  <2>1. (Job(p)' \in finished') = (j \in finished)'
    BY <1>1
  <2>2. blob'[Job(p)'] = blob'[j]
    BY <1>1
  <2>3. Written(p)' = Says(call'[p], On(p)', blob'[Job(p)'], Job(p)' \in finished')
    BY DEF Written
  <2> QED BY <1>1, <2>1, <2>2, <2>3
<1>3. Op(p) \in Settles => on \notin {"load", "unlease"}
  BY DEF Before, Settles
<1>4. ~Pending(p, j)'
  <2> SUFFICES ASSUME Pending(p, j)' PROVE FALSE
    OBVIOUS
  <2>1. PICK todo \in Seq(Jobs) : todo = call[p].todo
    BY InFlight DEF Calls
  <2>2. Op(p) = "reclaim" /\ \E i \in 1..Len(todo) : todo[i] = j /\ (i > 1 \/ on = "unlease")
    BY <1>1, <2>1 DEF Pending
  <2>3. on # "unlease"
    BY <2>2 DEF Before, Settles
  <2>4. PICK i \in 1..Len(todo) : todo[i] = j /\ i > 1
    BY <2>2, <2>3
  <2>5. \A a, b \in 1..Len(todo) : todo[a] = todo[b] => a = b
    BY <2>1, InFlight DEF Busily
  <2>6. todo[1] = j /\ 1 \in 1..Len(todo)
    BY <2>1, <2>4 DEF Job
  <2>7. i = 1
    BY <2>4, <2>5, <2>6
  <2> QED BY <2>4, <2>7
<1>5. /\ (j \in DOMAIN ready => j \notin DOMAIN leased /\ j \notin dead)'
      /\ (j \in DOMAIN leased => j \notin dead)'
  BY DEF InNone
<1>6. Acting(p)' /\ Job(p)' = j => Written(p)' /\ Op(p)' # "heartbeat"
  BY <1>1, <1>2
<1>7. Answers(p)' /\ Job(p)' = j => On(p)' \notin {"load", "unlease"}
  BY <1>1, <1>3 DEF Answers
<1>8. \A t \in Tokens : <<j, t>> \in call'[p].got =>
            Acting(p)' /\ Job(p)' = j /\ Op(p)' = "pull" /\ On(p)' = "lease" /\ blob'[j].token = t
  BY <1>1
<1>9. Acting(p)' /\ Job(p)' = j /\ Op(p)' = "pull" /\ On(p)' \in {"save", "lease"} =>
            Holds(j, call[p].until)'
  BY <1>1
<1>10. \A t \in Tokens : <<j, t>> \notin held'
  BY <1>1
<1> QED BY <1>1, <1>4, <1>5, <1>6, <1>7, <1>8, <1>9, <1>10, Assemble

LEMMA Inside ==
    ASSUME Typed, Typed', NEW p \in Callers, NEW j \in Jobs, Grips(p, j), JobInv(j),
           NEW on, NEW copy, NEW got, Onward(p, on, copy, got), on \notin Before(Op(p)),
           InNone(j)', Placed(j)', Says(call'[p], on, blob'[j], (j \in finished)'),
           \A t \in Tokens : <<j, t>> \in got =>
                Op(p) = "pull" /\ on = "lease" /\ blob'[j].token = t,
           Op(p) = "pull" /\ on \in {"save", "lease"} => Holds(j, call[p].until)'
    PROVE  JobInv(j)'
<1>1. /\ Alone(p, j) /\ \A t \in Tokens : <<j, t>> \notin held
      /\ Acting(p) /\ Job(p) = j
  BY GripAlone DEF Grips
<1>2. Op(p) # "heartbeat"
  <2>1. Makes("heartbeat") = Before("heartbeat")
    BY DEF Makes, Before, Settles
  <2>2. On(p) \in Makes(Op(p))
    BY <1>1, InFlight
  <2> QED BY <2>1, <2>2 DEF Grips
<1> QED BY <1>1, <1>2, Taken

\* A row that p lets go of.
LEMMA Leaving ==
    ASSUME Typed, Typed', NEW p \in Callers, NEW j \in Jobs, Grips(p, j), JobInv(j),
           Quits(p), On(p) # "lease", Placed(j)',
           (j \in DOMAIN ready => j \notin DOMAIN leased /\ j \notin dead)',
           (j \in DOMAIN leased => j \notin dead)'
    PROVE  JobInv(j)'
<1>1. /\ Alone(p, j) /\ \A t \in Tokens : <<j, t>> \notin held /\ <<j, t>> \notin call[p].got
      /\ Acting(p) /\ Job(p) = j
  BY GripAlone DEF Grips
<1>2. /\ Acting(p)' /\ Job(p)' = j => FALSE
      /\ ~Grips(p, j)' /\ ~Answers(p)' /\ Others(p) /\ ~Pending(p, j)'
      /\ \A t \in Tokens : <<j, t>> \notin call'[p].got /\ <<j, t>> \notin held'
  BY <1>1, OverNow DEF Quits
<1> QED BY <1>1, <1>2, Assemble

-----------------------------------------------------------------------------
(* The types                                                               *)


LEMMA Retyped ==
    ASSUME Typed, NEW p \in Callers, Acting(p),
           Quits(p) \/ \E on, copy, got : Onward(p, on, copy, got),
           blob' = blob \/ blob' \in [Jobs -> Held],
           ready' = ready \/ (DOMAIN ready' \subseteq Jobs /\ ready' \in [DOMAIN ready' -> Int]),
           leased' = leased \/ (DOMAIN leased' \subseteq Jobs /\ leased' \in [DOMAIN leased' -> 0..LeaseLen]),
           dead' = dead \/ dead' \subseteq Jobs,
           uniq' = uniq \/ uniq' \subseteq Keys,
           slot' = slot \/ slot' \in [Names -> [job : Jobs \union {NoJob}, left : 0..LeaseLen]],
           finished' = finished \/ finished' \subseteq Jobs
    PROVE  Typed'
<1>1. Others(p)
  BY DEF Quits, Onward
<1>2. /\ call' \in [Callers -> Calls] /\ pushed' = pushed
      /\ \A q \in Callers \ {p} : call'[q] = call[q]
      /\ Shape(p)'
  BY <1>1 DEF Others
<1>3. \A q \in Callers : Shape(q)'
  <2>1. ASSUME NEW q \in Callers \ {p} PROVE Shape(q)'
    <3>1. Shape(q) /\ call'[q] = call[q]
      BY <1>2 DEF Typed
    <3> QED BY <1>2, <3>1 DEF Shape, Acting, Op
  <2> QED BY <1>2, <2>1
<1>4. held' \subseteq Jobs \X Tokens
  <2>1. held \subseteq Jobs \X Tokens
    BY DEF Typed, TypeOKR
  <2>2. call[p].got \subseteq Jobs \X Tokens
    BY InFlight
  <2> QED BY <2>1, <2>2 DEF Quits, Onward
<1>5. \A q \in Callers : call'[q].copy \in Held /\ call'[q].until \in 0..LeaseLen
  BY <1>2 DEF Calls
<1>6. slot' \in [Names -> [job : Jobs \union {NoJob}, left : 0..LeaseLen]]
  BY DEF Typed
<1>7. \A n \in Names : slot'[n].job \in Jobs \union {NoJob} /\ slot'[n].left \in 0..LeaseLen
  BY <1>6
<1>8. /\ blob' \in [Jobs -> Held]
      /\ DOMAIN ready' \subseteq Jobs /\ DOMAIN leased' \subseteq Jobs /\ dead' \subseteq Jobs
      /\ uniq' \subseteq Keys
      /\ ready' \in [DOMAIN ready' -> Int] /\ leased' \in [DOMAIN leased' -> 0..LeaseLen]
      /\ pushed' \subseteq Jobs /\ finished' \subseteq Jobs
  BY <1>2 DEF Typed, TypeOKR
<1> QED BY <1>2, <1>3, <1>4, <1>5, <1>6, <1>7, <1>8 DEF Typed, TypeOKR

-----------------------------------------------------------------------------
(* The store calls, one by one *)

LEMMA Standing ==
    ASSUME RqIInv, NEW p \in Callers, NEW storeCall, At(p, storeCall)
    PROVE  /\ Typed /\ Acting(p) /\ On(p) = storeCall /\ storeCall \in Makes(Op(p))
           /\ Op(p) \in OpNames /\ Op(p) \in Ops /\ call[p].op = Op(p)
           /\ Job(p) \in Jobs /\ Job(p) \in pushed /\ JobInv(Job(p)) /\ blob[Job(p)] \in Held
           /\ Says(call[p], storeCall, blob[Job(p)], Job(p) \in finished)
<1>1. Typed /\ Acting(p) /\ On(p) = storeCall
  BY AtIs DEF RqIInv
<1>2. /\ Op(p) \in OpNames /\ Op(p) \in Ops /\ Job(p) \in Jobs /\ Job(p) \in pushed
      /\ On(p) \in Makes(Op(p))
  BY <1>1, InFlight
<1>3. JobInv(Job(p)) /\ blob[Job(p)] \in Held
  BY <1>1, <1>2 DEF RqIInv, Typed, TypeOKR
<1>4. Written(p)
  BY <1>1, <1>2, <1>3 DEF JobInv, RowAt
<1> QED BY <1>1, <1>2, <1>3, <1>4 DEF Written, Op

\* What remains to be shown of a store call: what becomes of the row it is for.
LEMMA Rest ==
    ASSUME RqIInv, Typed', NEW p \in Callers, Acting(p), NEW k, k = Job(p),
           \A j \in Jobs \ {k} : Frame(j),
           Quits(p) \/ \E on, copy, got :
                        /\ Onward(p, on, copy, got)
                        /\ \A j \in Jobs \ {k}, t \in Tokens :
                              <<j, t>> \in got => <<j, t>> \in call[p].got,
           JobInv(k)'
    PROVE  RqIInv'
<1>1. ASSUME NEW j \in Jobs \ {k} PROVE JobInv(j)'
  <2>1. Typed /\ JobInv(j) /\ j \in Jobs /\ j # Job(p) /\ Frame(j)
    BY DEF RqIInv
  <2> QED BY <2>1, Elsewhere
<1>2. \A j \in Jobs : JobInv(j)'
  BY <1>1
<1> QED BY <1>2 DEF RqIInv

LEMMA Unmoved ==
    ASSUME Typed, UNCHANGED <<blob, ready, leased, dead, slot, finished>>, NEW j \in Jobs
    PROVE  Frame(j)
<1>1. SlotOf(j).left \in Int
  BY SlotInt, SizeAssumption
<1>2. SlotOf(j)' = SlotOf(j)
  BY DEF SlotOf
<1>3. \A n \in Int : n >= n
  OBVIOUS
<1> QED BY <1>1, <1>2, <1>3 DEF Frame

LEMMA InNoneOn ==
    ASSUME Typed, NEW j \in Jobs, JobInv(j), InNone(j), Frame(j), pushed' = pushed
    PROVE  InNone(j)' /\ Placed(j)' /\ (j \in finished)' = (j \in finished)
BY DEF JobInv, RowAt, Placed, InNone, Frame

LEMMA MarkStep == ASSUME RqIInv, NEW p \in Callers, Mark(p) PROVE RqIInv'
<1>1. At(p, "mark") /\ UNCHANGED <<blob, ready, leased, dead, slot, finished>>
  BY DEF Mark, indexes
<1>2. PICK k : k = Job(p)
  OBVIOUS
<1>3. /\ Typed /\ Acting(p) /\ On(p) = "mark" /\ k \in Jobs /\ JobInv(k) /\ call[p].op = Op(p)
      /\ Says(call[p], "mark", blob[k], k \in finished)
  BY <1>1, <1>2, Standing
<1>4. Op(p) = "push"
  <2>1. Op(p) \in OpNames /\ "mark" \in Makes(Op(p))
    BY <1>1, Standing
  <2> QED BY <2>1 DEF Makes, OpNames
<1>5. Keyed(k)
  BY <1>2, <1>3, InFlight
<1>6. \A j \in Jobs : Frame(j)
  BY <1>1, <1>3, Unmoved
<1>7. CASE Becomes(p, Idle) /\ uniq' = uniq
  <2>1. Quits(p)
    BY <1>3, <1>4, <1>7, TwiceIs
  <2>2. Typed'
    BY <1>1, <1>3, <1>7, <2>1, Retyped
  <2>3. JobInv(k)'
    BY <1>2, <1>3, <1>6, <2>1, <2>2, Elsewhere
  <2> QED BY <1>2, <1>3, <1>6, <2>1, <2>2, <2>3, Rest
<1>8. CASE GoesOn(p) /\ uniq' = uniq \union {KeyOf[k]}
  <2>1. Then("push", k, "mark") = "save"
    BY DEF Then, Settles
  <2>2. Onward(p, "save", call[p].copy, call[p].got)
    BY <1>2, <1>3, <1>4, <1>8, <2>1, GoesOnIs DEF Last
  <2>3. uniq' \subseteq Keys
    BY <1>3, <1>5, <1>8, ColumnAssumption DEF Keyed, Typed, TypeOKR
  <2>4. Typed'
    BY <1>1, <1>3, <2>2, <2>3, Retyped
  <2>5. Grips(p, k)
    BY <1>2, <1>3, <1>4 DEF Grips, Before, Settles
  <2>6. InNone(k) /\ \A t \in Tokens : <<k, t>> \notin call[p].got
    BY <1>3, <1>4, <2>5, GripAlone
  <2>7. InNone(k)' /\ Placed(k)' /\ (k \in finished)' = (k \in finished) /\ blob'[k] = blob[k]
    <3>1. pushed' = pushed
      BY <2>2 DEF Onward, Others
    <3> QED BY <1>3, <1>6, <2>6, <3>1, InNoneOn DEF Frame
  <2>8. Says(call'[p], "save", blob'[k], (k \in finished)')
    <3>1. call'[p].copy = call[p].copy /\ call'[p].op = "push"
      BY <1>4, <2>2 DEF Onward, Op
    <3>2. Waits(call[p].copy) /\ blob[k] = NoBlob /\ k \notin finished
      BY <1>3, <1>4 DEF Says
    <3> QED BY <2>7, <3>1, <3>2 DEF Says, Settles
  <2>9. "save" \notin Before(Op(p))
    BY <1>4 DEF Before, Settles
  <2>10. JobInv(k)'
    BY <1>3, <1>4, <2>2, <2>4, <2>5, <2>6, <2>7, <2>8, <2>9, Inside
  <2> QED BY <1>2, <1>3, <1>6, <2>2, <2>4, <2>10, Rest
<1> QED BY <1>2, <1>7, <1>8 DEF Mark

\* A step of a call that has its row in its grip, and keeps it there.
LEMMA StaysInside ==
    ASSUME RqIInv, NEW p \in Callers, NEW storeCall, At(p, storeCall), NEW k, k = Job(p),
           storeCall \notin Before(Op(p)), storeCall # "lease",
           NEW on, on \notin Before(Op(p)), NEW copy, Onward(p, on, copy, call[p].got),
           UNCHANGED <<blob, ready, leased, dead, finished>>, Typed',
           \A j \in Jobs \ {k} : Frame(j),
           Says(call'[p], on, blob[k], k \in finished),
           Op(p) = "pull" /\ on \in {"save", "lease"} => Holds(k, call[p].until)'
    PROVE  RqIInv'
<1>1. /\ Typed /\ Acting(p) /\ On(p) = storeCall /\ k \in Jobs /\ k \in pushed /\ JobInv(k)
  BY Standing
<1>2. Grips(p, k)
  BY <1>1 DEF Grips
<1>3. InNone(k) /\ \A t \in Tokens : <<k, t>> \notin call[p].got
  BY <1>1, <1>2, GripAlone
<1>4. pushed' = pushed
  BY DEF Onward, Others
<1>5. InNone(k)' /\ Placed(k)' /\ blob'[k] = blob[k] /\ (k \in finished)' = (k \in finished)
  BY <1>1, <1>3, <1>4 DEF JobInv, RowAt, Placed, InNone
<1>6. Says(call'[p], on, blob'[k], (k \in finished)')
  BY <1>5
<1>7. JobInv(k)'
  BY <1>1, <1>2, <1>3, <1>5, <1>6, Inside
<1> QED BY <1>1, <1>7, Rest

LEMMA SaysSettle ==
    ASSUME NEW c, NEW d, NEW b, NEW done, c.op \in Settles, d.op = c.op, d.copy = c.copy,
           d.token = c.token, Runs(b), b.token = c.token, Lies(c.copy, Ending(c.op)),
           NEW on \in {"unmark", "unslot", "save"}
    PROVE  Says(d, on, b, done)
BY DEF Says, Settles

LEMMA UnmarkStep == ASSUME RqIInv, NEW p \in Callers, Unmark(p) PROVE RqIInv'
<1>1. At(p, "unmark") /\ GoesOn(p) /\ UNCHANGED <<blob, ready, leased, dead, slot, finished>>
      /\ uniq' = uniq \ {KeyOf[Job(p)]}
  BY DEF Unmark, indexes
<1>2. PICK k : k = Job(p)
  OBVIOUS
<1>3. /\ Typed /\ Acting(p) /\ On(p) = "unmark" /\ k \in Jobs /\ JobInv(k) /\ call[p].op = Op(p)
      /\ Says(call[p], "unmark", blob[k], k \in finished)
  BY <1>1, <1>2, Standing
<1>4. Op(p) \in {"ack", "nack dead"}
  <2>1. Op(p) \in OpNames /\ "unmark" \in Makes(Op(p))
    BY <1>1, Standing
  <2> QED BY <2>1 DEF Makes, OpNames
<1>5. PICK on : on = Then(Op(p), k, "unmark")
  OBVIOUS
<1>6. on \in {"unslot", "save"}
  BY <1>4, <1>5 DEF Then, Settles
<1>7. Onward(p, on, call[p].copy, call[p].got)
  BY <1>1, <1>2, <1>3, <1>5, GoesOnIs DEF Last
<1>8. Typed'
  <2>1. uniq' \subseteq Keys
    BY <1>1, <1>3 DEF Typed, TypeOKR
  <2> QED BY <1>1, <1>3, <1>7, <2>1, Retyped
<1>9. \A j \in Jobs : Frame(j)
  BY <1>1, <1>3, Unmoved
<1>10. Says(call'[p], on, blob[k], k \in finished)
  <2>1. /\ call'[p].copy = call[p].copy /\ call'[p].op = call[p].op
        /\ call'[p].token = call[p].token
    BY <1>7 DEF Onward, Op
  <2>2. call[p].op \in Settles
    BY <1>3, <1>4 DEF Settles
  <2>3. Runs(blob[k]) /\ blob[k].token = call[p].token /\ Lies(call[p].copy, Ending(call[p].op))
    BY <1>3, <2>2 DEF Says
  <2> QED BY <1>6, <2>1, <2>2, <2>3, SaysSettle
<1>11. "unmark" \notin Before(Op(p)) /\ on \notin Before(Op(p)) /\ Op(p) # "pull"
  BY <1>4, <1>6 DEF Before, Settles
<1> QED BY <1>1, <1>2, <1>7, <1>8, <1>9, <1>10, <1>11, StaysInside

LEMMA ReleaseSerialStep == ASSUME RqIInv, NEW p \in Callers, ReleaseSerial(p) PROVE RqIInv'
<1>1. /\ At(p, "unslot") /\ GoesOn(p) /\ UNCHANGED <<blob, ready, leased, dead, uniq, finished>>
      /\ IF SlotOf(Job(p)).job = Job(p) THEN SetSlot(Job(p), FreeSlot) ELSE UNCHANGED slot
  BY DEF ReleaseSerial, indexes
<1>2. PICK k : k = Job(p)
  OBVIOUS
<1>3. /\ Typed /\ Acting(p) /\ On(p) = "unslot" /\ k \in Jobs /\ JobInv(k) /\ call[p].op = Op(p)
      /\ Says(call[p], "unslot", blob[k], k \in finished)
  BY <1>1, <1>2, Standing
<1>4. Op(p) \in Settles \union {"reclaim"}
  <2>1. Op(p) \in OpNames /\ "unslot" \in Makes(Op(p))
    BY <1>1, Standing
  <2> QED BY <2>1 DEF Makes, OpNames, Settles
<1>5. PICK on : on = Then(Op(p), k, "unslot")
  OBVIOUS
<1>6. on \in {"unmark", "save"} /\ (Op(p) = "reclaim" => on = "save")
  BY <1>4, <1>5 DEF Then, Settles
<1>7. Onward(p, on, call[p].copy, call[p].got)
  BY <1>1, <1>2, <1>3, <1>5, GoesOnIs DEF Last
<1>8. slot' = slot \/ (slot' = [slot EXCEPT ![NameOf[k]] = FreeSlot] /\ SlotOf(k).job = k)
  BY <1>1, <1>2 DEF SetSlot
<1>9. Typed'
  <2>1. FreeSlot \in [job : Jobs \union {NoJob}, left : 0..LeaseLen]
    BY SizeAssumption DEF FreeSlot
  <2>2. slot' \in [Names -> [job : Jobs \union {NoJob}, left : 0..LeaseLen]]
    BY <1>3, <1>8, <2>1 DEF Typed
  <2> QED BY <1>1, <1>3, <1>7, <2>2, Retyped
<1>10. ASSUME NEW j \in Jobs \ {k} PROVE Frame(j)
  <2>1. CASE slot' = slot
    BY <1>1, <1>3, <2>1, Unmoved
  <2>2. CASE slot' = [slot EXCEPT ![NameOf[k]] = FreeSlot] /\ SlotOf(k).job = k
    <3>1. SlotOf(j).job = j => SlotOf(j)' = SlotOf(j)
      BY <1>3, <2>2, ColumnAssumption DEF SlotOf, Typed
    <3>2. SlotOf(j).left \in Int
      BY <1>3, SlotInt, SizeAssumption
    <3>3. \A n \in Int : n >= n
      OBVIOUS
    <3> QED BY <1>1, <3>1, <3>2, <3>3 DEF Frame
  <2> QED BY <1>8, <2>1, <2>2
<1>11. Says(call'[p], on, blob[k], k \in finished)
  <2>1. /\ call'[p].copy = call[p].copy /\ call'[p].op = call[p].op
        /\ call'[p].token = call[p].token
    BY <1>7 DEF Onward, Op
  <2>2. CASE call[p].op \in Settles
    <3>1. Runs(blob[k]) /\ blob[k].token = call[p].token /\ Lies(call[p].copy, Ending(call[p].op))
      BY <1>3, <2>2 DEF Says
    <3> QED BY <1>6, <2>1, <2>2, <3>1, SaysSettle
  <2>3. CASE call[p].op = "reclaim"
    <3>1. Runs(blob[k]) /\ Waits(call[p].copy)
      BY <1>3, <2>3 DEF Says
    <3>2. on = "save"
      BY <1>3, <1>6, <2>3
    <3> QED BY <2>1, <2>3, <3>1, <3>2 DEF Says, Settles
  <2> QED BY <1>3, <1>4, <2>2, <2>3
<1>12. "unslot" \notin Before(Op(p)) /\ on \notin Before(Op(p)) /\ Op(p) # "pull"
  BY <1>4, <1>6 DEF Before, Settles
<1> QED BY <1>1, <1>2, <1>7, <1>9, <1>10, <1>11, <1>12, StaysInside

LEMMA ClaimSerialStep == ASSUME RqIInv, NEW p \in Callers, ClaimSerial(p) PROVE RqIInv'
<1>1. /\ At(p, "slot") /\ UNCHANGED <<blob, ready, leased, dead, uniq, finished>>
      /\ IF SlotOf(Job(p)) = FreeSlot
         THEN GoesOn(p) /\ SetSlot(Job(p), [job |-> Job(p), left |-> LeaseLen])
         ELSE Becomes(p, [call[p] EXCEPT !.route = <<"enqueue">>]) /\ UNCHANGED slot
  BY DEF ClaimSerial, indexes
<1>2. PICK k : k = Job(p)
  OBVIOUS
<1>3. /\ Typed /\ Acting(p) /\ On(p) = "slot" /\ k \in Jobs /\ JobInv(k) /\ call[p].op = Op(p)
      /\ Says(call[p], "slot", blob[k], k \in finished)
  BY <1>1, <1>2, Standing
<1>4. Op(p) = "pull"
  <2>1. Op(p) \in OpNames /\ "slot" \in Makes(Op(p))
    BY <1>1, Standing
  <2> QED BY <2>1 DEF Makes, OpNames
<1>5. Waits(blob[k]) /\ Runs(call[p].copy)
  BY <1>3, <1>4 DEF Says
<1>6. /\ "slot" \notin Before(Op(p)) /\ "save" \notin Before(Op(p)) /\ "enqueue" \notin Before(Op(p))
      /\ Then("pull", k, "slot") = "save"
  BY <1>4 DEF Before, Settles, Then
<1>7. CASE SlotOf(k) = FreeSlot
  <2>1. GoesOn(p) /\ slot' = [slot EXCEPT ![NameOf[k]] = [job |-> k, left |-> LeaseLen]]
    BY <1>1, <1>2, <1>7 DEF SetSlot
  <2>2. Onward(p, "save", call[p].copy, call[p].got)
    BY <1>2, <1>3, <1>4, <1>6, <2>1, GoesOnIs DEF Last
  <2>3. [job |-> k, left |-> LeaseLen] \in [job : Jobs \union {NoJob}, left : 0..LeaseLen]
    BY <1>3, SizeAssumption
  <2>4. slot' \in [Names -> [job : Jobs \union {NoJob}, left : 0..LeaseLen]]
    BY <1>3, <2>1, <2>3 DEF Typed
  <2>5. Typed'
    BY <1>1, <1>3, <2>2, <2>4, Retyped
  <2>6. SlotOf(k)' = [job |-> k, left |-> LeaseLen]
    BY <1>3, <2>1, ColumnAssumption DEF SlotOf, Typed
  <2>7. ASSUME NEW j \in Jobs \ {k} PROVE Frame(j)
    <3>1. SlotOf(j).job = j => SlotOf(j)' = SlotOf(j)
      <4>1. SlotOf(j).job = j => NameOf[j] # NameOf[k]
        BY <1>7, JobAssumption DEF SlotOf, FreeSlot
      <4> QED BY <1>3, <2>1, <4>1, ColumnAssumption DEF SlotOf, Typed
    <3>2. SlotOf(j).left \in Int
      BY <1>3, SlotInt, SizeAssumption
    <3>3. \A n \in Int : n >= n
      OBVIOUS
    <3> QED BY <1>1, <3>1, <3>2, <3>3 DEF Frame
  <2>8. Says(call'[p], "save", blob[k], k \in finished)
    <3>1. call'[p].copy = call[p].copy /\ call'[p].op = "pull"
      BY <1>4, <2>2 DEF Onward, Op
    <3> QED BY <1>5, <3>1 DEF Says, Settles
  <2>9. Holds(k, call[p].until)'
    <3>1. call'[p].until \in 0..LeaseLen
      BY <1>3, <2>2, InFlight DEF Onward
    <3> QED BY <2>6, <3>1, SizeAssumption DEF Holds
  <2> QED BY <1>1, <1>2, <1>6, <2>2, <2>5, <2>7, <2>8, <2>9, StaysInside
<1>8. CASE SlotOf(k) # FreeSlot
  <2>1. Becomes(p, [call[p] EXCEPT !.route = <<"enqueue">>]) /\ slot' = slot
    BY <1>1, <1>2, <1>8
  <2>2. Onward(p, "enqueue", call[p].copy, call[p].got)
    BY <1>3, <1>4, <2>1, BackIs
  <2>3. Typed'
    BY <1>1, <1>3, <2>1, <2>2, Retyped
  <2>4. \A j \in Jobs : Frame(j)
    BY <1>1, <1>3, <2>1, Unmoved
  <2>5. Says(call'[p], "enqueue", blob[k], k \in finished)
    <3>1. call'[p].op = "pull"
      BY <1>4, <2>2 DEF Onward, Op
    <3> QED BY <1>5, <3>1 DEF Says, Settles
  <2> QED BY <1>1, <1>2, <1>6, <2>2, <2>3, <2>4, <2>5, StaysInside
<1> QED BY <1>7, <1>8

\* A step of a settle or of a renewal before it has taken the row out.
LEMMA StaysOutside ==
    ASSUME RqIInv, NEW p \in Callers, NEW storeCall, At(p, storeCall), NEW k, k = Job(p),
           Op(p) \in Settles \union {"heartbeat"},
           storeCall \in Before(Op(p)), NEW on, on \in Before(Op(p)),
           NEW copy, Onward(p, on, copy, call[p].got),
           \A j \in Jobs : Frame(j), Typed',
           Says(call'[p], on, blob[k], k \in finished),
           Op(p) = "heartbeat" /\ on \in {"save", "lease"} => Holds(k, call[p].until)'
    PROVE  RqIInv'
<1>1. /\ Typed /\ Acting(p) /\ On(p) = storeCall /\ k \in Jobs /\ k \in pushed /\ JobInv(k)
  BY Standing
<1>2. /\ Acting(p)' /\ On(p)' = on /\ Job(p)' = k /\ Op(p)' = Op(p) /\ call'[p].got = call[p].got
      /\ held' = held /\ Others(p) /\ call'[p].token = call[p].token /\ call'[p].until = call[p].until
  BY <1>1 DEF Onward
<1>3. /\ \A q \in Callers \ {p} : call'[q] = call[q]
      /\ pushed' = pushed /\ Frame(k)
  BY <1>1, <1>2 DEF Others
<1>4. Op(p) \in Settles => storeCall \in {"load", "unlease"} /\ on \in {"load", "unlease"}
  BY DEF Before, Settles
<1>5. \A q \in Callers : /\ (Acting(q)' <=> Acting(q)) /\ Job(q)' = Job(q) /\ Op(q)' = Op(q)
                         /\ Lease1(q)' = Lease1(q) /\ (Answers(q)' <=> Answers(q))
                         /\ call'[q].got = call[q].got /\ call'[q].token = call[q].token
                         /\ call'[q].until = call[q].until
                         /\ (Grips(q, k)' <=> Grips(q, k)) /\ (Pending(q, k)' <=> Pending(q, k))
                         /\ q # p => On(q)' = On(q)
  <2>1. /\ (Acting(p)' <=> Acting(p)) /\ Job(p)' = Job(p) /\ Op(p)' = Op(p) /\ Lease1(p)' = Lease1(p)
        /\ call'[p].got = call[p].got /\ call'[p].token = call[p].token
        /\ call'[p].until = call[p].until
    BY <1>1, <1>2 DEF Lease1
  <2>2. Answers(p)' <=> Answers(p)
    BY <1>1, <1>2, <1>4 DEF Answers, Last
  <2>3. ~Grips(p, k) /\ ~Grips(p, k)' /\ ~Pending(p, k) /\ ~Pending(p, k)'
    BY <1>1, <1>2 DEF Grips, Pending, Settles
  <2> QED BY <1>1, <1>3, <2>1, <2>2, <2>3, SameCall
<1>6. \A t : Alive(k, t)' = Alive(k, t)
  BY <1>1, <1>3, AliveOn
<1>7. OneAt(k)'
  BY <1>1, <1>3, <1>5 DEF JobInv, OneAt, Frame, InNone
<1>8. RowAt(k)'
  <2>1. ASSUME NEW q \in Callers, Acting(q)', Job(q)' = k PROVE Written(q)'
    <3>1. CASE q = p
      <4>1. Written(p)' = Says(call'[p], On(p)', blob'[Job(p)'], Job(p)' \in finished')
        BY DEF Written
      <4>2. blob'[Job(p)'] = blob[k] /\ (Job(p)' \in finished') = (k \in finished)
        BY <1>2, <1>3 DEF Frame
      <4> QED BY <1>2, <3>1, <4>1, <4>2
    <3>2. CASE q # p
      <4>1. Acting(q) /\ Job(q) = k /\ call'[q] = call[q]
        BY <1>3, <1>5, <2>1, <3>2
      <4>2. Written(q) /\ blob'[k] = blob[k] /\ (k \in finished)' = (k \in finished)
        BY <1>1, <1>3, <4>1 DEF JobInv, RowAt, Frame
      <4>3. (Job(q) \in finished)' = (Job(q) \in finished)
        BY <2>1, <4>1, <4>2
      <4> QED BY <4>1, <4>2, <4>3, WrittenSame
    <3> QED BY <3>1, <3>2
  <2>2. Placed(k)'
    BY <1>1, <1>3 DEF JobInv, RowAt, Frame, Placed, InNone
  <2> QED BY <2>1, <2>2 DEF RowAt
<1>9. LeaseAt(k)'
  <2>1. \A t \in Tokens : <<k, t>> \in held' => Alive(k, t)'
    BY <1>1, <1>2, <1>6 DEF JobInv, LeaseAt
  <2>2. ASSUME NEW q \in Callers, NEW t \in Tokens, <<k, t>> \in call'[q].got
        PROVE  \/ Alive(k, t)'
               \/ Acting(q)' /\ Job(q)' = k /\ Op(q)' = "pull" /\ On(q)' = "lease" /\ blob'[k].token = t
    <3>1. \/ Alive(k, t)
          \/ Acting(q) /\ Job(q) = k /\ Op(q) = "pull" /\ On(q) = "lease" /\ blob[k].token = t
      BY <1>1, <1>5, <2>2 DEF JobInv, LeaseAt
    <3>2. Op(q) = "pull" => q # p
      BY DEF Settles
    <3>3. blob'[k].token = blob[k].token
      BY <1>3 DEF Frame
    <3> QED BY <1>5, <1>6, <3>1, <3>2, <3>3
  <2>3. ASSUME NEW q \in Callers, Answers(q)', Job(q)' = k, On(q)' \in {"load", "unlease"}
        PROVE  Alive(k, call[q].token)'
    <3>1. Answers(q) /\ Job(q) = k /\ On(q) \in {"load", "unlease"}
      BY <1>1, <1>4, <1>5, <2>3 DEF Answers
    <3>2. Alive(k, call[q].token)
      BY <1>1, <3>1 DEF JobInv, LeaseAt
    <3> QED BY <1>5, <1>6, <3>2
  <2>4. \A q \in Callers : Acting(q)' /\ Job(q)' = k /\ Op(q)' = "heartbeat" => Lease1(q)' \in held'
    BY <1>1, <1>2, <1>5 DEF JobInv, LeaseAt
  <2>5. \A q \in Callers : Answers(q)' /\ Job(q)' = k =>
            /\ Lease1(q)' \notin held'
            /\ \A r \in Callers : Lease1(q)' \notin call'[r].got
            /\ \A r \in Callers : Answers(r)' /\ Job(r)' = k => q = r
    BY <1>1, <1>2, <1>5 DEF JobInv, LeaseAt
  <2>6. \A q \in Callers, t \in Tokens : <<k, t>> \in call'[q].got =>
            /\ <<k, t>> \notin held'
            /\ \A r \in Callers : <<k, t>> \in call'[r].got => q = r
    BY <1>1, <1>2, <1>5 DEF JobInv, LeaseAt
  <2> QED BY <2>1, <2>2, <2>3, <2>4, <2>5, <2>6 DEF LeaseAt
<1>10. DueAt(k)'
  BY <1>1, <1>3, <1>5 DEF JobInv, DueAt, Frame
<1>11. SlotAt(k)'
  <2>0. (k \in DOMAIN leased)' = (k \in DOMAIN leased) /\ (k \in DOMAIN leased => leased'[k] = leased[k] /\ leased[k] \in Int)
    BY <1>1, <1>3, SizeAssumption DEF Frame, Typed
  <2>1. ASSUME NEW t \in Tokens, <<k, t>> \in held' PROVE Holds(k, leased[k])'
    <3>1. k \in DOMAIN leased /\ Holds(k, leased[k])
      BY <1>1, <1>2, <2>1 DEF JobInv, LeaseAt, Alive, SlotAt
    <3>2. Holds(k, leased[k])'
      BY <1>1, <1>3, <2>0, <3>1, HoldsOn DEF Holds
    <3> QED BY <3>2
  <2>2. ASSUME NEW q \in Callers, NEW t \in Tokens, <<k, t>> \in call'[q].got
        PROVE  Holds(k, IF k \in DOMAIN leased THEN leased[k] ELSE 1)'
    <3>1. Holds(k, IF k \in DOMAIN leased THEN leased[k] ELSE 1)
      BY <1>1, <1>5, <2>2 DEF JobInv, SlotAt
    <3>2. CASE k \in DOMAIN leased
      <4>1. Holds(k, leased[k])'
        BY <1>1, <1>3, <2>0, <3>1, <3>2, HoldsOn DEF Holds
      <4> QED BY <2>0, <3>2, <4>1 DEF Holds
    <3>3. CASE k \notin DOMAIN leased
      <4>1. Holds(k, 1)
        BY <3>1, <3>3
      <4>2. Holds(k, 1)'
        BY <1>1, <1>3, <4>1, HoldsOn
      <4> QED BY <2>0, <3>3, <4>2 DEF Holds
    <3> QED BY <3>2, <3>3
  <2>3. ASSUME NEW q \in Callers, Acting(q)', Job(q)' = k, Op(q)' \in {"pull", "heartbeat"},
               On(q)' \in {"save", "lease"}
        PROVE  Holds(k, call[q].until)'
    <3>1. CASE q = p
      BY <1>2, <2>3, <3>1 DEF Settles
    <3>2. CASE q # p
      <4>1. Acting(q) /\ Job(q) = k /\ Op(q) \in {"pull", "heartbeat"} /\ On(q) \in {"save", "lease"}
        BY <1>5, <2>3, <3>2
      <4>2. Holds(k, call[q].until) /\ call[q].until \in Int /\ call'[q].until = call[q].until
        BY <1>1, <1>5, <4>1, InFlight, SizeAssumption DEF JobInv, SlotAt
      <4> QED BY <1>1, <1>3, <4>2, HoldsOn DEF Holds
    <3> QED BY <3>1, <3>2
  <2> QED BY <2>1, <2>2, <2>3 DEF SlotAt
<1>12. JobInv(k)'
  BY <1>7, <1>8, <1>9, <1>10, <1>11 DEF JobInv
<1> QED BY <1>1, <1>12, Rest

LEMMA ExtendSerialStep == ASSUME RqIInv, NEW p \in Callers, ExtendSerial(p) PROVE RqIInv'
<1>1. /\ At(p, "extend") /\ GoesOn(p) /\ UNCHANGED <<blob, ready, leased, dead, uniq, finished>>
      /\ IF SlotOf(Job(p)) = FreeSlot THEN UNCHANGED slot
         ELSE slot' = [slot EXCEPT ![NameOf[Job(p)]].left = LeaseLen]
  BY DEF ExtendSerial, indexes
<1>2. PICK k : k = Job(p)
  OBVIOUS
<1>3. /\ Typed /\ Acting(p) /\ On(p) = "extend" /\ k \in Jobs /\ JobInv(k) /\ call[p].op = Op(p)
      /\ Says(call[p], "extend", blob[k], k \in finished)
  BY <1>1, <1>2, Standing
<1>4. Op(p) = "heartbeat"
  <2>1. Op(p) \in OpNames /\ "extend" \in Makes(Op(p))
    BY <1>1, Standing
  <2> QED BY <2>1 DEF Makes, OpNames
<1>5. Then("heartbeat", k, "extend") = "save"
  BY DEF Then, Settles
<1>6. Onward(p, "save", call[p].copy, call[p].got)
  BY <1>1, <1>2, <1>3, <1>4, <1>5, GoesOnIs DEF Last
<1>7. NameOf[k] \in Names /\ slot[NameOf[k]] \in [job : Jobs \union {NoJob}, left : 0..LeaseLen]
  BY <1>3, ColumnAssumption DEF Typed
<1>8. PICK s : s = [slot[NameOf[k]] EXCEPT !.left = LeaseLen]
  OBVIOUS
<1>9. s.job = SlotOf(k).job /\ s.left = LeaseLen /\ s \in [job : Jobs \union {NoJob}, left : 0..LeaseLen]
  BY <1>7, <1>8, SizeAssumption DEF SlotOf
<1>10. /\ SlotOf(k) = FreeSlot => slot' = slot
       /\ SlotOf(k) # FreeSlot => slot' = [slot EXCEPT ![NameOf[k]] = s]
  BY <1>1, <1>2, <1>8
<1>11. slot' \in [Names -> [job : Jobs \union {NoJob}, left : 0..LeaseLen]]
  BY <1>3, <1>9, <1>10 DEF Typed
<1>12. Typed'
  BY <1>1, <1>3, <1>6, <1>11, Retyped
<1>13. ASSUME NEW j \in Jobs PROVE Frame(j)
  <2>1. SlotOf(j).left \in 0..LeaseLen /\ NameOf[j] \in Names
    BY <1>3, SlotInt, ColumnAssumption
  <2>2. SlotOf(j)' = SlotOf(j) \/ (SlotOf(j)' = s /\ SlotOf(j) = SlotOf(k))
    BY <1>3, <1>7, <1>10, <2>1 DEF SlotOf, Typed
  <2>3. SlotOf(j)'.job = SlotOf(j).job /\ SlotOf(j)'.left >= SlotOf(j).left
    BY <1>9, <2>1, <2>2, SizeAssumption
  <2> QED BY <1>1, <2>3 DEF Frame
<1>14. Says(call'[p], "save", blob[k], k \in finished)
  <2>1. call'[p].copy = call[p].copy /\ call'[p].op = "heartbeat"
    BY <1>4, <1>6 DEF Onward, Op
  <2>2. call[p].copy = blob[k]
    BY <1>3, <1>4 DEF Says
  <2> QED BY <2>1, <2>2 DEF Says, Settles
<1>15. Holds(k, call[p].until)'
  <2>1. Lease1(p) \in held /\ Lease1(p) = <<k, call[p].token>>
    BY <1>2, <1>3, <1>4 DEF JobInv, LeaseAt, Lease1
  <2>2. call[p].token \in Tokens
    BY <1>3, <2>1 DEF Typed, TypeOKR
  <2>3. Holds(k, leased[k])
    BY <1>3, <2>1, <2>2 DEF JobInv, SlotAt
  <2>4. Serial(k) => SlotOf(k) # FreeSlot
    BY <1>3, <2>3, JobAssumption DEF Holds, FreeSlot
  <2>5. Serial(k) => SlotOf(k)' = s
    BY <1>3, <1>7, <1>10, <2>4 DEF SlotOf, Typed
  <2>6. call'[p].until \in 0..LeaseLen
    BY <1>3, <1>6, InFlight DEF Onward
  <2>7. Serial(k) => SlotOf(k).job = k
    BY <2>3 DEF Holds
  <2> QED BY <1>9, <2>5, <2>6, <2>7, SizeAssumption DEF Holds
<1>16. "extend" \in Before(Op(p)) /\ "save" \in Before(Op(p))
  BY <1>4 DEF Before, Settles
<1> QED BY <1>1, <1>2, <1>4, <1>6, <1>12, <1>13, <1>14, <1>15, <1>16, StaysOutside

LEMMA Rewritten ==
    ASSUME NEW b \in Held
    PROVE  /\ \A d \in Int : [b EXCEPT !.state = "retrying", !.attempt = @ + 1, !.runIn = d] \in Held
           /\ [b EXCEPT !.state = "ready", !.runIn = 0] \in Held
           /\ [b EXCEPT !.state = "ready", !.attempt = 1, !.runIn = 0] \in Held
<1>1. PICK states : states = Active \union {"absent", "done", "dead", "cancelled"}
  OBVIOUS
<1>2. "ready" \in states /\ "retrying" \in states
  BY <1>1 DEF Active, Waiting
<1>3. PICK tokens : tokens = Tokens \union {NoToken}
  OBVIOUS
<1>4. Held = [state : states, attempt : Nat, runIn : Int, token : tokens]
  BY <1>1, <1>3 DEF Held
<1>5. \A x \in Held, s \in states : [x EXCEPT !.state = s] \in Held
  BY <1>4
<1>6. \A x \in Held, n \in Nat : [x EXCEPT !.attempt = n] \in Held
  BY <1>4
<1>7. \A x \in Held, d \in Int : [x EXCEPT !.runIn = d] \in Held
  BY <1>4
<1>8. \A x \in Held : \A s : [x EXCEPT !.state = s].attempt = x.attempt /\ x.attempt + 1 \in Nat
  BY <1>4
<1>9. PICK r : r = [b EXCEPT !.state = "ready"]
  OBVIOUS
<1>10. PICK s : s = [b EXCEPT !.state = "retrying"]
  OBVIOUS
<1>11. r \in Held /\ s \in Held /\ s.attempt = b.attempt
  BY <1>2, <1>5, <1>8, <1>9, <1>10
<1>12. [b EXCEPT !.state = "ready", !.runIn = 0] \in Held
  <2>1. [r EXCEPT !.runIn = 0] \in Held
    BY <1>7, <1>11
  <2> QED BY <1>9, <2>1
<1>13. [b EXCEPT !.state = "ready", !.attempt = 1, !.runIn = 0] \in Held
  <2>1. PICK x : x = [r EXCEPT !.attempt = 1]
    OBVIOUS
  <2>2. x \in Held
    BY <1>6, <1>11, <2>1
  <2>3. [x EXCEPT !.runIn = 0] \in Held
    BY <1>7, <2>2
  <2> QED BY <1>9, <2>1, <2>3
<1>14. ASSUME NEW d \in Int
       PROVE  [b EXCEPT !.state = "retrying", !.attempt = @ + 1, !.runIn = d] \in Held
  <2>1. PICK x : x = [s EXCEPT !.attempt = b.attempt + 1]
    OBVIOUS
  <2>2. x \in Held
    BY <1>6, <1>8, <1>11, <2>1
  <2>3. [x EXCEPT !.runIn = d] \in Held
    BY <1>7, <2>2
  <2> QED BY <1>10, <2>1, <2>3
<1> QED BY <1>12, <1>13, <1>14

LEMMA UpdatedIs ==
    ASSUME NEW b \in Held, NEW op \in OpNames \ {"push", "discard"}, NEW c \in Updated(op, b)
    PROVE  /\ c \in Held
           /\ op = "pull" => c.state = "running" /\ c.token \in Tokens \ UsedTokens /\ Runs(c)
           /\ op \in Settles => Lies(c, Ending(op))
           /\ op = "heartbeat" => c = b
           /\ op \in {"reclaim", "retry"} => Waits(c)
<1>1. PICK free : free = [b EXCEPT !.token = NoToken]
  OBVIOUS
<1>2. free \in Held /\ free.token = NoToken
  BY <1>1 DEF Held
<1>3. CASE op = "pull"
  <2>1. PICK t \in Tokens \ UsedTokens : c = [b EXCEPT !.state = "running", !.token = t]
    BY <1>3 DEF Updated
  <2>2. c \in Held /\ c.state = "running" /\ c.token = t
    BY <2>1 DEF Held, Active, Waiting
  <2> QED BY <1>3, <2>2, JobAssumption DEF Runs, Settles
<1>4. CASE op = "ack"
  <2>1. c = [free EXCEPT !.state = "done"]
    BY <1>1, <1>4 DEF Updated
  <2>2. c \in Held /\ Lies(c, "done")
    BY <1>2, <2>1 DEF Held, Lies
  <2> QED BY <1>4, <2>2 DEF Settles, Ending
<1>5. CASE op = "nack"
  <2>1. PICK d \in 0..MaxDelay : c = [free EXCEPT !.state = "retrying", !.attempt = @ + 1, !.runIn = d]
    BY <1>1, <1>5 DEF Updated
  <2>2. d \in Int
    BY SizeAssumption
  <2>3. c \in Held
    BY <1>2, <2>1, <2>2, Rewritten
  <2>4. Lies(c, "retrying")
    BY <1>2, <2>1 DEF Held, Lies
  <2> QED BY <1>5, <2>3, <2>4 DEF Settles, Ending
<1>6. CASE op = "nack dead"
  <2>1. c = [free EXCEPT !.state = "dead"]
    BY <1>1, <1>6 DEF Updated
  <2>2. c \in Held /\ Lies(c, "dead")
    BY <1>2, <2>1 DEF Held, Lies
  <2> QED BY <1>6, <2>2 DEF Settles, Ending
<1>7. CASE op = "heartbeat"
  BY <1>7 DEF Updated, Settles
<1>8. CASE op = "reclaim"
  <2>1. c = [free EXCEPT !.state = "ready", !.runIn = 0]
    BY <1>1, <1>8 DEF Updated
  <2>2. c \in Held
    BY <1>2, <2>1, Rewritten
  <2>3. Waits(c)
    BY <1>2, <2>1 DEF Held, Waits, Waiting
  <2> QED BY <1>8, <2>2, <2>3 DEF Settles
<1>9. CASE op = "retry"
  <2>1. c = [free EXCEPT !.state = "ready", !.attempt = 1, !.runIn = 0]
    BY <1>1, <1>9 DEF Updated
  <2>2. c \in Held
    BY <1>2, <2>1, Rewritten
  <2>3. Waits(c)
    BY <1>2, <2>1 DEF Held, Waits, Waiting
  <2> QED BY <1>9, <2>2, <2>3 DEF Settles
<1> QED BY <1>3, <1>4, <1>5, <1>6, <1>7, <1>8, <1>9 DEF OpNames

\* The row a claim has taken, or a lease that is alive, is there to be loaded.
LEMMA Proceeding ==
    ASSUME RqIInv, NEW p \in Callers, At(p, "load"), "cancel" \notin Ops
    PROVE  /\ Proceeds(call[p], blob[Job(p)])
           /\ Op(p) \in Settles \union {"heartbeat"} =>
                Runs(blob[Job(p)]) /\ blob[Job(p)].token = call[p].token
                    /\ Alive(Job(p), call[p].token)
<1>1. PICK k : k = Job(p)
  OBVIOUS
<1>2. /\ Typed /\ Acting(p) /\ On(p) = "load" /\ k \in Jobs /\ JobInv(k) /\ call[p].op = Op(p)
      /\ Says(call[p], "load", blob[k], k \in finished) /\ Op(p) \in OpNames
      /\ "load" \in Makes(Op(p)) /\ Op(p) \in Ops
  BY <1>1, Standing
<1>3. CASE Op(p) \in Settles \union {"heartbeat"}
  <2>1. Alive(k, call[p].token)
    <3>1. CASE Op(p) \in Settles
      <4>1. Answers(p)
        BY <1>2, <3>1 DEF Answers, Last
      <4> QED BY <1>1, <1>2, <4>1 DEF JobInv, LeaseAt
    <3>2. CASE Op(p) = "heartbeat"
      <4>1. Lease1(p) \in held /\ Lease1(p) = <<k, call[p].token>>
        BY <1>1, <1>2, <3>2 DEF JobInv, LeaseAt, Lease1
      <4>2. call[p].token \in Tokens
        BY <1>2, <4>1 DEF Typed, TypeOKR
      <4> QED BY <1>2, <4>1, <4>2 DEF JobInv, LeaseAt
    <3> QED BY <1>3, <3>1, <3>2
  <2>2. Runs(blob[k]) /\ blob[k].token = call[p].token
    BY <1>2, <2>1 DEF Alive, JobInv, RowAt, Placed
  <2>3. blob[k] # NoBlob
    BY <2>2 DEF Runs, NoBlob
  <2>4. Op(p) # "cancel"
    BY <1>2
  <2>5. Proceeds(call[p], blob[k])
    BY <1>2, <2>2, <2>3, <2>4 DEF Proceeds
  <2> QED BY <1>1, <2>1, <2>2, <2>5
<1>4. CASE Op(p) \notin Settles \union {"heartbeat"}
  <2>1. Op(p) \in {"pull", "reclaim", "retry"}
    BY <1>2, <1>4 DEF OpNames, Makes, Settles
  <2>2. blob[k].state \in {"ready", "retrying", "running", "dead"}
    BY <1>2, <2>1 DEF Says, Waits, Runs, Lies, Waiting
  <2> QED BY <1>1, <1>2, <1>4, <2>1, <2>2 DEF Proceeds, NoBlob
<1> QED BY <1>3, <1>4

LEMMA LoadStep ==
    ASSUME RqIInv, NEW p \in Callers, "cancel" \notin Ops, Load(p) PROVE RqIInv'
<1>1. At(p, "load") /\ UNCHANGED <<blob, ready, leased, dead, uniq, slot, finished>>
  BY DEF Load, indexes
<1>2. PICK k : k = Job(p)
  OBVIOUS
<1>3. /\ Typed /\ Acting(p) /\ On(p) = "load" /\ k \in Jobs /\ JobInv(k) /\ call[p].op = Op(p)
      /\ Says(call[p], "load", blob[k], k \in finished) /\ blob[k] \in Held
      /\ Op(p) \in OpNames /\ "load" \in Makes(Op(p))
  BY <1>1, <1>2, Standing
<1>4. Op(p) \in Settles \union {"pull", "heartbeat", "reclaim", "retry"}
  BY <1>3 DEF OpNames, Makes, Settles
<1>5. PICK c \in Updated(Op(p), blob[k]) : Becomes(p, [OneOn(call[p]) EXCEPT !.copy = c])
  <2>1. Proceeds(call[p], blob[Job(p)])
    BY <1>1, Proceeding
  <2> QED BY <1>2, <1>3, <2>1 DEF Load
<1>6. /\ c \in Held
      /\ Op(p) = "pull" => Runs(c)
      /\ Op(p) \in Settles => Lies(c, Ending(Op(p)))
      /\ Op(p) = "heartbeat" => c = blob[k]
      /\ Op(p) \in {"reclaim", "retry"} => Waits(c)
  <2>1. Op(p) \in OpNames \ {"push", "discard"}
    BY <1>3, <1>4 DEF Settles
  <2> QED BY <1>3, <1>5, <2>1, UpdatedIs
<1>7. PICK on : on = Then(Op(p), k, "load")
  OBVIOUS
<1>8. Onward(p, on, c, call[p].got)
  BY <1>1, <1>2, <1>3, <1>5, <1>6, <1>7, LoadIs
<1>9. Typed'
  BY <1>1, <1>3, <1>8, Retyped
<1>10. \A j \in Jobs : Frame(j)
  BY <1>1, <1>3, Unmoved
<1>11. call'[p].copy = c /\ call'[p].op = Op(p) /\ call'[p].token = call[p].token
  BY <1>3, <1>8 DEF Onward, Op
<1>12. CASE Op(p) \in {"pull", "reclaim", "retry"}
  <2>1. /\ Op(p) = "pull" => on \in {"slot", "save"} /\ (on = "save" => ~Serial(k))
        /\ Op(p) = "reclaim" => on \in {"unslot", "save"}
        /\ Op(p) = "retry" => on = "save"
    BY <1>7, <1>12 DEF Then, Settles
  <2>2. Says(call'[p], on, blob[k], k \in finished)
    <3>1. CASE Op(p) = "pull"
      BY <1>3, <1>6, <1>11, <2>1, <3>1 DEF Says, Settles
    <3>2. CASE Op(p) = "reclaim"
      BY <1>3, <1>6, <1>11, <2>1, <3>2 DEF Says, Settles
    <3>3. CASE Op(p) = "retry"
      BY <1>3, <1>6, <1>11, <2>1, <3>3 DEF Says, Settles
    <3> QED BY <1>12, <3>1, <3>2, <3>3
  <2>3. "load" \notin Before(Op(p)) /\ on \notin Before(Op(p))
    BY <1>12, <2>1 DEF Before, Settles
  <2>4. Op(p) = "pull" /\ on \in {"save", "lease"} => Holds(k, call[p].until)'
    BY <2>1 DEF Holds
  <2> QED BY <1>1, <1>2, <1>8, <1>9, <1>10, <2>2, <2>3, <2>4, StaysInside
<1>13. CASE Op(p) \in Settles
  <2>1. on = "unlease"
    BY <1>7, <1>13 DEF Then, Settles
  <2>2. Says(call'[p], on, blob[k], k \in finished)
    BY <1>6, <1>11, <1>13, <2>1 DEF Says, Settles
  <2>3. "load" \in Before(Op(p)) /\ on \in Before(Op(p))
    BY <1>13, <2>1 DEF Before, Settles
  <2>4. Op(p) # "heartbeat"
    BY <1>13 DEF Settles
  <2> QED BY <1>1, <1>2, <1>8, <1>9, <1>10, <1>13, <2>2, <2>3, <2>4, StaysOutside
<1>14. CASE Op(p) = "heartbeat"
  <2>1. on \in {"extend", "save"} /\ (on = "save" => ~Serial(k))
    BY <1>7, <1>14 DEF Then, Settles
  <2>2. Says(call'[p], on, blob[k], k \in finished)
    BY <1>6, <1>11, <1>14, <2>1 DEF Says, Settles
  <2>3. "load" \in Before(Op(p)) /\ on \in Before(Op(p))
    BY <1>14, <2>1 DEF Before, Settles
  <2>4. on \in {"save", "lease"} => Holds(k, call[p].until)'
    BY <2>1 DEF Holds
  <2> QED BY <1>1, <1>2, <1>8, <1>9, <1>10, <1>14, <2>2, <2>3, <2>4, StaysOutside
<1> QED BY <1>4, <1>12, <1>13, <1>14

\* A row that keeps its place, its blob and its slot.
LEMMA Apart ==
    ASSUME Typed, NEW j \in Jobs, slot' = slot, blob'[j] = blob[j],
           (j \in finished)' = (j \in finished), (j \in DOMAIN ready)' = (j \in DOMAIN ready),
           (j \in DOMAIN leased)' = (j \in DOMAIN leased), (j \in dead)' = (j \in dead),
           j \in DOMAIN leased => leased'[j] = leased[j]
    PROVE  Frame(j)
<1>1. SlotOf(j).left \in Int
  BY SlotInt, SizeAssumption
<1>2. SlotOf(j)' = SlotOf(j)
  BY DEF SlotOf
<1>3. \A n \in Int : n >= n
  OBVIOUS
<1> QED BY <1>1, <1>2, <1>3 DEF Frame

\* What a save leaves for the row's last store call.
LEMMA SaysSaved ==
    ASSUME NEW c, NEW b, NEW done, c.op \in OpNames \ {"heartbeat", "discard"}, c.copy = b,
           c.op \in {"push", "nack", "reclaim", "retry"} => Waits(b),
           c.op = "pull" => Runs(b) /\ <<c.todo[1], b.token>> \in c.got,
           c.op = "ack" => Lies(b, "done") /\ done,
           c.op = "nack dead" => Lies(b, "dead"), NEW j
    PROVE  Says(c, Then(c.op, j, "save"), b, done)
<1>1. CASE c.op \in {"push", "nack", "reclaim", "retry"}
  <2>1. Then(c.op, j, "save") = "enqueue"
    BY <1>1 DEF Then, Settles
  <2> QED BY <1>1, <2>1 DEF Says, Settles
<1>2. CASE c.op = "pull"
  <2>1. Then(c.op, j, "save") = "lease"
    BY <1>2 DEF Then, Settles
  <2> QED BY <1>2, <2>1 DEF Says, Settles
<1>3. CASE c.op = "ack"
  <2>1. Then(c.op, j, "save") = "erase"
    BY <1>3 DEF Then, Settles
  <2> QED BY <1>3, <2>1 DEF Says, Settles
<1>4. CASE c.op = "nack dead"
  <2>1. Then(c.op, j, "save") = "bury"
    BY <1>4 DEF Then, Settles
  <2> QED BY <1>4, <2>1 DEF Says, Settles
<1> QED BY <1>1, <1>2, <1>3, <1>4 DEF OpNames

\* What a save writes.
LEMMA Saves ==
    ASSUME RqIInv, NEW p \in Callers, At(p, "save"), Op(p) # "heartbeat", NEW k, k = Job(p)
    PROVE  /\ Op(p) \in {"push", "nack", "reclaim", "retry"} => Waits(call[p].copy)
           /\ Op(p) = "pull" => Runs(call[p].copy)
           /\ Op(p) = "ack" => Lies(call[p].copy, "done")
           /\ Op(p) = "nack dead" => Lies(call[p].copy, "dead")
           /\ Op(p) = "push" => blob[k] = NoBlob
           /\ Op(p) = "pull" => Waits(blob[k])
           /\ Op(p) = "reclaim" => Runs(blob[k])
           /\ Op(p) = "retry" => Lies(blob[k], "dead")
           /\ Op(p) \in Settles => Runs(blob[k]) /\ blob[k].token = call[p].token
           /\ Op(p) \in OpNames \ {"heartbeat", "discard"}
           /\ k \notin finished
           /\ Op(p) \notin {"pull", "ack", "push", "nack dead"} => Op(p) \in {"nack", "reclaim", "retry"}
<1>1. /\ Typed /\ Acting(p) /\ On(p) = "save" /\ k \in Jobs /\ JobInv(k) /\ call[p].op = Op(p)
      /\ Says(call[p], "save", blob[k], k \in finished)
      /\ Op(p) \in OpNames /\ "save" \in Makes(Op(p))
  BY Standing
<1>2. Op(p) \in OpNames \ {"heartbeat", "discard"}
  BY <1>1 DEF OpNames, Makes
<1>3. k \in finished => blob[k].state \in {"done", "absent"}
  BY <1>1 DEF JobInv, RowAt, Placed
<1>4. CASE Op(p) = "push"
  BY <1>1, <1>2, <1>4 DEF Says, Settles
<1>5. CASE Op(p) = "pull"
  BY <1>1, <1>2, <1>3, <1>5 DEF Says, Settles, Waits, Waiting
<1>6. CASE Op(p) = "reclaim"
  BY <1>1, <1>2, <1>3, <1>6 DEF Says, Settles, Runs
<1>7. CASE Op(p) = "retry"
  BY <1>1, <1>2, <1>3, <1>7 DEF Says, Settles, Lies
<1>8. CASE Op(p) \in Settles
  <2>1. Runs(blob[k]) /\ blob[k].token = call[p].token /\ Lies(call[p].copy, Ending(Op(p)))
    BY <1>1, <1>8 DEF Says
  <2>2. k \notin finished
    BY <1>3, <2>1 DEF Runs
  <2>3. Op(p) = "nack" => Waits(call[p].copy)
    BY <2>1 DEF Lies, Waits, Waiting, Ending
  <2> QED BY <1>2, <1>8, <2>1, <2>2, <2>3 DEF Settles, Ending
<1> QED BY <1>2, <1>4, <1>5, <1>6, <1>7, <1>8 DEF OpNames, Settles

LEMMA SaveStep == ASSUME RqIInv, NEW p \in Callers, Save(p) PROVE RqIInv'
<1>1. /\ At(p, "save") /\ UNCHANGED <<ready, leased, dead, uniq, slot>>
      /\ blob' = [blob EXCEPT ![Job(p)] = call[p].copy]
      /\ finished' = IF call[p].op = "ack" THEN finished \union {Job(p)} ELSE finished
      /\ Becomes(p, OneOn(IF call[p].op = "pull"
                          THEN [call[p] EXCEPT !.got = @ \union {<<Job(p), call[p].copy.token>>}]
                          ELSE call[p]))
  BY DEF Save, indexes
<1>2. PICK k : k = Job(p)
  OBVIOUS
<1>3. /\ Typed /\ Acting(p) /\ On(p) = "save" /\ k \in Jobs /\ k \in pushed /\ JobInv(k)
      /\ call[p].op = Op(p) /\ Says(call[p], "save", blob[k], k \in finished)
      /\ Op(p) \in OpNames /\ "save" \in Makes(Op(p))
  BY <1>1, <1>2, Standing
<1>4. PICK c : c = call[p].copy
  OBVIOUS
<1>5. c \in Held /\ blob \in [Jobs -> Held]
  BY <1>3, <1>4, InFlight DEF Typed, TypeOKR
<1>6. blob' \in [Jobs -> Held] /\ blob'[k] = c /\ \A j \in Jobs \ {k} : blob'[j] = blob[j]
  BY <1>1, <1>2, <1>3, <1>4, <1>5
<1>7. finished' \subseteq Jobs /\ \A j \in Jobs \ {k} : (j \in finished)' = (j \in finished)
  BY <1>1, <1>2, <1>3 DEF Typed
<1>8. ASSUME NEW j \in Jobs \ {k} PROVE Frame(j)
  BY <1>1, <1>3, <1>6, <1>7, Apart
<1>9. CASE Op(p) = "heartbeat"
  <2>1. c = blob[k]
    BY <1>3, <1>4, <1>9 DEF Says
  <2>2. blob' = blob /\ finished' = finished
    BY <1>1, <1>2, <1>3, <1>4, <1>5, <1>9, <2>1
  <2>3. Then(Op(p), k, "save") = "lease"
    BY <1>9 DEF Then, Settles
  <2>4. GoesOn(p)
    BY <1>1, <1>3, <1>9 DEF GoesOn
  <2>5. Onward(p, "lease", c, call[p].got)
    BY <1>2, <1>3, <1>4, <2>3, <2>4, GoesOnIs DEF Last
  <2>6. Typed'
    BY <1>1, <1>3, <2>2, <2>5, Retyped
  <2>7. \A j \in Jobs : Frame(j)
    BY <1>1, <1>3, <2>2, Unmoved
  <2>8. Says(call'[p], "lease", blob[k], k \in finished)
    <3>1. call'[p].copy = c /\ call'[p].op = "heartbeat"
      BY <1>9, <2>5 DEF Onward, Op
    <3> QED BY <2>1, <3>1 DEF Says, Settles
  <2>9. Holds(k, call[p].until)'
    <3>1. Holds(k, call[p].until)
      BY <1>2, <1>3, <1>9 DEF JobInv, SlotAt
    <3>2. call'[p].until = call[p].until
      BY <2>5 DEF Onward
    <3> QED BY <1>1, <3>1, <3>2 DEF Holds, SlotOf
  <2>10. "save" \in Before(Op(p)) /\ "lease" \in Before(Op(p))
    BY <1>9 DEF Before, Settles
  <2> QED BY <1>1, <1>2, <1>9, <2>5, <2>6, <2>7, <2>8, <2>9, <2>10, StaysOutside
<1>10. CASE Op(p) # "heartbeat"
  <2>1. /\ Op(p) \in {"push", "nack", "reclaim", "retry"} => Waits(c)
        /\ Op(p) = "pull" => Runs(c)
        /\ Op(p) = "ack" => Lies(c, "done")
        /\ Op(p) = "nack dead" => Lies(c, "dead")
        /\ Op(p) \in OpNames \ {"heartbeat", "discard"}
        /\ k \notin finished
    BY <1>1, <1>2, <1>4, <1>10, Saves
  <2>2. PICK got : got = IF Op(p) = "pull" THEN call[p].got \union {<<k, c.token>>} ELSE call[p].got
    OBVIOUS
  <2>3. PICK on : on = Then(Op(p), k, "save")
    OBVIOUS
  <2>4. Onward(p, on, c, got)
    <3>1. CASE Op(p) = "pull"
      <4>1. c.token \in Tokens
        BY <1>5, <2>1, <3>1 DEF Held, Runs
      <4>2. Becomes(p, OneOn([call[p] EXCEPT !.got = @ \union {<<Job(p), c.token>>}]))
        BY <1>1, <1>3, <1>4, <3>1
      <4>3. on = "lease"
        BY <2>3, <3>1 DEF Then, Settles
      <4>4. Onward(p, "lease", call[p].copy, call[p].got \union {<<Job(p), c.token>>})
        BY <1>1, <1>3, <3>1, <4>1, <4>2, SaveIs
      <4> QED BY <1>2, <1>4, <2>2, <3>1, <4>3, <4>4
    <3>2. CASE Op(p) # "pull"
      <4>1. GoesOn(p)
        BY <1>1, <1>3, <3>2 DEF GoesOn
      <4>2. Onward(p, Then(Op(p), Job(p), On(p)), call[p].copy, call[p].got)
        BY <1>3, <4>1, GoesOnIs DEF Last
      <4> QED BY <1>2, <1>3, <1>4, <2>2, <2>3, <3>2, <4>2
    <3> QED BY <3>1, <3>2
  <2>5. Typed'
    BY <1>1, <1>3, <1>6, <1>7, <2>4, Retyped
  <2>6. /\ call'[p].copy = c /\ call'[p].op = Op(p) /\ call'[p].got = got
        /\ call'[p].todo[1] = k /\ call'[p].until = call[p].until /\ pushed' = pushed
    BY <1>2, <1>3, <2>4 DEF Onward, Others, Op, Job
  <2>7. "save" \notin Before(Op(p)) /\ on \notin Before(Op(p))
    <3>1. on \in {"enqueue", "lease", "erase", "bury"}
      BY <2>1, <2>3 DEF Then, Settles, OpNames
    <3> QED BY <1>10, <3>1 DEF Before, Settles
  <2>8. Grips(p, k)
    BY <1>2, <1>3, <2>7 DEF Grips
  <2>9. InNone(k) /\ \A t \in Tokens : <<k, t>> \notin call[p].got
    BY <1>3, <2>8, GripAlone
  <2>10. InNone(k)'
    BY <1>1, <2>9 DEF InNone
  <2>11. (k \in finished)' => Op(p) = "ack"
    BY <1>1, <1>3, <2>1
  <2>12. Op(p) = "ack" => (k \in finished)'
    BY <1>1, <1>2, <1>3
  <2>13. Placed(k)'
    BY <1>3, <1>6, <2>1, <2>6, <2>10, <2>11 DEF Placed, InNone, Lies
  <2>14. Says(call'[p], on, blob'[k], (k \in finished)')
    <3>1. Op(p) = "pull" => <<k, c.token>> \in got
      BY <2>2
    <3>2. PICK d : d = call'[p]
      OBVIOUS
    <3>3. PICK done : done = (k \in finished)'
      OBVIOUS
    <3>4. Says(d, Then(d.op, k, "save"), c, done)
      BY <2>1, <2>6, <2>12, <3>1, <3>2, <3>3, SaysSaved
    <3> QED BY <1>6, <2>3, <2>6, <3>2, <3>3, <3>4
  <2>15. \A t \in Tokens : <<k, t>> \in got => Op(p) = "pull" /\ on = "lease" /\ blob'[k].token = t
    BY <1>6, <2>2, <2>3, <2>9 DEF Then, Settles
  <2>16. Op(p) = "pull" /\ on \in {"save", "lease"} => Holds(k, call[p].until)'
    <3>1. Op(p) = "pull" => Holds(k, call[p].until)
      BY <1>2, <1>3 DEF JobInv, SlotAt
    <3> QED BY <1>1, <2>6, <3>1 DEF Holds, SlotOf
  <2>17. JobInv(k)'
    BY <1>3, <2>4, <2>5, <2>7, <2>8, <2>10, <2>13, <2>14, <2>15, <2>16, Inside
  <2>18. \A j \in Jobs \ {k}, t \in Tokens : <<j, t>> \in got => <<j, t>> \in call[p].got
    BY <2>2
  <2> QED BY <1>2, <1>3, <1>8, <2>4, <2>5, <2>17, <2>18, Rest
<1> QED BY <1>9, <1>10

LEMMA EraseStep == ASSUME RqIInv, NEW p \in Callers, Erase(p) PROVE RqIInv'
<1>1. /\ At(p, "erase") /\ GoesOn(p) /\ UNCHANGED <<ready, leased, dead, uniq, slot, finished>>
      /\ blob' = [blob EXCEPT ![Job(p)] = NoBlob]
  BY DEF Erase, indexes
<1>2. PICK k : k = Job(p)
  OBVIOUS
<1>3. /\ Typed /\ Acting(p) /\ On(p) = "erase" /\ k \in Jobs /\ k \in pushed /\ JobInv(k)
      /\ Op(p) \in OpNames /\ "erase" \in Makes(Op(p))
  BY <1>1, <1>2, Standing
<1>4. Op(p) \in {"ack", "discard"}
  BY <1>3 DEF Makes, OpNames
<1>5. Quits(p)
  BY <1>1, <1>3, GoesOnIs DEF Last
<1>6. NoBlob \in Held /\ NoBlob.state = "absent"
  BY DEF NoBlob, Held
<1>7. blob' \in [Jobs -> Held] /\ blob'[k] = NoBlob /\ \A j \in Jobs \ {k} : blob'[j] = blob[j]
  <2> HIDE DEF NoBlob
  <2> QED BY <1>1, <1>2, <1>3, <1>6 DEF Typed, TypeOKR
<1>8. Typed'
  BY <1>1, <1>3, <1>5, <1>7, Retyped
<1>9. ASSUME NEW j \in Jobs \ {k} PROVE Frame(j)
  BY <1>1, <1>3, <1>7, Apart
<1>10. Grips(p, k)
  BY <1>2, <1>3, <1>4 DEF Grips, Before, Settles
<1>11. InNone(k)' /\ k \in pushed'
  <2>1. InNone(k)
    BY <1>3, <1>10, GripAlone
  <2> QED BY <1>1, <1>3, <1>5, <2>1 DEF InNone, Quits, Others
<1>12. Placed(k)'
  BY <1>6, <1>7, <1>11 DEF Placed, InNone
<1>13. JobInv(k)'
  BY <1>3, <1>5, <1>8, <1>10, <1>11, <1>12, Leaving DEF InNone
<1> QED BY <1>2, <1>3, <1>5, <1>8, <1>9, <1>13, Rest

LEMMA EnqueueStep == ASSUME RqIInv, NEW p \in Callers, Enqueue(p) PROVE RqIInv'
<1>1. /\ At(p, "enqueue") /\ GoesOn(p) /\ UNCHANGED <<blob, leased, dead, uniq, slot, finished>>
      /\ ready' = Zadd(ready, Job(p), call[p].copy.runIn)
  BY DEF Enqueue
<1>2. PICK k : k = Job(p)
  OBVIOUS
<1>3. /\ Typed /\ Acting(p) /\ On(p) = "enqueue" /\ k \in Jobs /\ k \in pushed /\ JobInv(k)
      /\ Op(p) \in OpNames /\ "enqueue" \in Makes(Op(p))
      /\ Says(call[p], "enqueue", blob[k], k \in finished)
  BY <1>1, <1>2, Standing
<1>4. Op(p) \in {"push", "pull", "nack", "reclaim", "retry"} /\ Waits(blob[k])
  BY <1>3 DEF Makes, OpNames, Says
<1>5. Quits(p)
  BY <1>1, <1>3, GoesOnIs DEF Last
<1>6. PICK d \in Int : d = call[p].copy.runIn
  BY <1>3, InFlight DEF Held
<1>7. /\ DOMAIN ready' = DOMAIN ready \union {k}
      /\ ready' \in [DOMAIN ready' -> Int]
      /\ \A j \in DOMAIN ready : j # k => ready'[j] = ready[j]
  <2>1. PICK z : z = Zadd(ready, k, d)
    OBVIOUS
  <2>2. ready \in [DOMAIN ready -> Int]
    BY <1>3 DEF Typed
  <2>3. /\ DOMAIN z = DOMAIN ready \union {k} /\ z \in [DOMAIN z -> Int]
        /\ \A j \in DOMAIN ready : j # k => z[j] = ready[j]
    BY <2>1, <2>2 DEF Zadd
  <2>4. ready' = z
    BY <1>1, <1>2, <1>6, <2>1
  <2> QED BY <2>3, <2>4
<1>8. DOMAIN ready' \subseteq Jobs
  BY <1>3, <1>7 DEF Typed, TypeOKR
<1>9. Typed'
  BY <1>1, <1>3, <1>5, <1>7, <1>8, Retyped
<1>10. ASSUME NEW j \in Jobs \ {k} PROVE Frame(j)
  <2>1. (j \in DOMAIN ready)' = (j \in DOMAIN ready)
    BY <1>7
  <2> QED BY <1>1, <1>3, <2>1, Apart
<1>11. Grips(p, k)
  BY <1>2, <1>3, <1>4 DEF Grips, Before, Settles
<1>12. InNone(k) /\ k \in pushed'
  <2>1. InNone(k)
    BY <1>3, <1>11, GripAlone
  <2> QED BY <1>3, <1>5, <2>1 DEF Quits, Others
<1>13. k \notin finished
  BY <1>3, <1>4 DEF JobInv, RowAt, Placed, Waits, Waiting
<1>14. (k \in DOMAIN ready)' /\ (k \notin DOMAIN leased)' /\ (k \notin dead)'
  BY <1>1, <1>7, <1>12 DEF InNone
<1>15. Placed(k)'
  BY <1>1, <1>4, <1>12, <1>13, <1>14 DEF Placed
<1>16. JobInv(k)'
  BY <1>3, <1>5, <1>9, <1>11, <1>14, <1>15, Leaving
<1> QED BY <1>2, <1>3, <1>5, <1>9, <1>10, <1>16, Rest

LEMMA BuryStep == ASSUME RqIInv, NEW p \in Callers, Bury(p) PROVE RqIInv'
<1>1. /\ At(p, "bury") /\ GoesOn(p) /\ UNCHANGED <<blob, ready, leased, uniq, slot, finished>>
      /\ dead' = dead \union {Job(p)}
  BY DEF Bury
<1>2. PICK k : k = Job(p)
  OBVIOUS
<1>3. /\ Typed /\ Acting(p) /\ On(p) = "bury" /\ k \in Jobs /\ k \in pushed /\ JobInv(k)
      /\ Op(p) \in OpNames /\ "bury" \in Makes(Op(p)) /\ call[p].op = Op(p)
      /\ Says(call[p], "bury", blob[k], k \in finished)
  BY <1>1, <1>2, Standing
<1>4. Op(p) = "nack dead"
  BY <1>3 DEF Makes, OpNames
<1>5. Lies(blob[k], "dead")
  BY <1>3, <1>4 DEF Says
<1>6. Quits(p)
  BY <1>1, <1>3, GoesOnIs DEF Last
<1>7. dead' \subseteq Jobs
  BY <1>1, <1>2, <1>3 DEF Typed, TypeOKR
<1>8. Typed'
  BY <1>1, <1>3, <1>6, <1>7, Retyped
<1>9. ASSUME NEW j \in Jobs \ {k} PROVE Frame(j)
  <2>1. (j \in dead)' = (j \in dead)
    BY <1>1, <1>2
  <2> QED BY <1>1, <1>3, <2>1, Apart
<1>10. Grips(p, k)
  BY <1>2, <1>3, <1>4 DEF Grips, Before, Settles
<1>11. InNone(k) /\ k \in pushed'
  <2>1. InNone(k)
    BY <1>3, <1>10, GripAlone
  <2> QED BY <1>3, <1>6, <2>1 DEF Quits, Others
<1>12. k \notin finished
  BY <1>3, <1>5 DEF JobInv, RowAt, Placed, Lies
<1>13. (k \notin DOMAIN ready)' /\ (k \notin DOMAIN leased)' /\ (k \in dead)'
  BY <1>1, <1>2, <1>11 DEF InNone
<1>14. Placed(k)'
  BY <1>1, <1>5, <1>11, <1>12, <1>13 DEF Placed
<1>15. JobInv(k)'
  BY <1>3, <1>6, <1>8, <1>10, <1>13, <1>14, Leaving
<1> QED BY <1>2, <1>3, <1>6, <1>8, <1>9, <1>15, Rest

LEMMA LeaseStep == ASSUME RqIInv, NEW p \in Callers, Lease(p) PROVE RqIInv'
<1>1. /\ At(p, "lease") /\ GoesOn(p) /\ UNCHANGED <<blob, ready, dead, uniq, slot, finished>>
      /\ leased' = Zadd(leased, Job(p), call[p].until)
  BY DEF Lease
<1>2. PICK k : k = Job(p)
  OBVIOUS
<1>3. /\ Typed /\ Acting(p) /\ On(p) = "lease" /\ k \in Jobs /\ k \in pushed /\ JobInv(k)
      /\ Op(p) \in OpNames /\ "lease" \in Makes(Op(p)) /\ call[p].op = Op(p)
      /\ Says(call[p], "lease", blob[k], k \in finished)
  BY <1>1, <1>2, Standing
<1>4. Op(p) \in {"pull", "heartbeat"}
  BY <1>3 DEF Makes, OpNames
<1>5. Quits(p)
  BY <1>1, <1>3, GoesOnIs DEF Last
<1>6. PICK d : d = call[p].until
  OBVIOUS
<1>7. d \in 0..LeaseLen /\ d \in Int /\ d >= 1
  BY <1>3, <1>4, <1>6, InFlight, SizeAssumption DEF Busily
<1>8. /\ DOMAIN leased' = DOMAIN leased \union {k}
      /\ leased' \in [DOMAIN leased' -> 0..LeaseLen] /\ leased'[k] = d
      /\ \A j \in DOMAIN leased : j # k => leased'[j] = leased[j]
  <2>1. PICK z : z = Zadd(leased, k, d)
    OBVIOUS
  <2>2. leased \in [DOMAIN leased -> 0..LeaseLen]
    BY <1>3 DEF Typed
  <2>3. /\ DOMAIN z = DOMAIN leased \union {k} /\ z \in [DOMAIN z -> 0..LeaseLen] /\ z[k] = d
        /\ \A j \in DOMAIN leased : j # k => z[j] = leased[j]
    BY <1>7, <2>1, <2>2 DEF Zadd
  <2>4. leased' = z
    BY <1>1, <1>2, <1>6, <2>1
  <2> QED BY <2>3, <2>4
<1>9. DOMAIN leased' \subseteq Jobs
  BY <1>3, <1>8 DEF Typed, TypeOKR
<1>10. Typed'
  BY <1>1, <1>3, <1>5, <1>8, <1>9, Retyped
<1>11. ASSUME NEW j \in Jobs \ {k} PROVE Frame(j)
  <2>1. (j \in DOMAIN leased)' = (j \in DOMAIN leased) /\ (j \in DOMAIN leased => leased'[j] = leased[j])
    BY <1>8
  <2> QED BY <1>1, <1>3, <2>1, Apart
<1>12. /\ \A q \in Callers \ {p} : call'[q] = call[q]
       /\ pushed' = pushed
       /\ Acting(p)' => Job(p)' # k
       /\ ~Grips(p, k)' /\ ~Answers(p)' /\ ~Pending(p, k)'
  BY <1>2, <1>3, <1>5, OverNow DEF Quits, Others
<1>13. Holds(k, d)'
  <2>1. Holds(k, d)
    BY <1>2, <1>3, <1>4, <1>6 DEF JobInv, SlotAt
  <2> QED BY <1>1, <2>1 DEF Holds, SlotOf
<1>14. \A t : blob[k].token = t => Alive(k, t)'
  BY <1>1, <1>7, <1>8 DEF Alive
<1>15. CASE Op(p) = "pull"
  <2>1. Grips(p, k)
    BY <1>2, <1>3, <1>15 DEF Grips, Before, Settles
  <2>2. /\ Alone(p, k) /\ InNone(k) /\ \A t \in Tokens : <<k, t>> \notin held
        /\ \A t \in Tokens : <<k, t>> \in call[p].got => blob[k].token = t
    BY <1>3, <2>1, GripAlone
  <2>3. Runs(blob[k])
    BY <1>3, <1>15 DEF Says
  <2>4. /\ \A t \in Tokens : <<k, t>> \in held' => blob[k].token = t /\ \A s \in Tokens : <<k, s>> \notin call'[p].got
        /\ \A t \in Tokens : <<k, t>> \in call'[p].got => blob[k].token = t /\ <<k, t>> \notin held'
    BY <1>3, <1>5, <2>2, OverNow
  <2>5. ASSUME NEW q \in Callers
        PROVE  /\ q # p => \A t \in Tokens : <<k, t>> \notin call'[q].got
               /\ ~Pending(q, k)'
               /\ Acting(q)' /\ Job(q)' = k =>
                   /\ q # p /\ Op(q)' \in {"pull", "retry", "discard"} /\ On(q)' \in {"unready", "undead"}
                   /\ On(q)' \in Before(Op(q)')
    <3>1. CASE q = p
      BY <1>12, <3>1
    <3>2. CASE q # p
      <4>1. \A op \in {"pull", "retry", "discard"} : Before(op) \subseteq {"unready", "undead"}
        BY DEF Before, Settles
      <4>2. call'[q] = call[q]
        BY <1>12, <3>2
      <4>3. /\ \A t \in Tokens : <<k, t>> \notin call[q].got
            /\ ~Pending(q, k)
            /\ Acting(q) /\ Job(q) = k =>
                Op(q) \in {"pull", "retry", "discard"} /\ On(q) \in Before(Op(q))
        BY <2>2, <3>2 DEF Alone
      <4> QED BY <1>3, <3>2, <4>1, <4>2, <4>3, SameCall
    <3> QED BY <3>1, <3>2
  <2>6. OneAt(k)'
    <3>1. \A q \in Callers : ~Grips(q, k)'
      BY <2>5 DEF Grips
    <3> QED BY <1>1, <2>2, <3>1 DEF OneAt, InNone
  <2>7. RowAt(k)'
    <3>1. Placed(k)'
      BY <1>1, <1>3, <1>8, <1>12, <2>2, <2>3 DEF Placed, InNone, JobInv, RowAt
    <3>2. ASSUME NEW q \in Callers, Acting(q)', Job(q)' = k PROVE Written(q)'
      <4>1. ASSUME NEW c, NEW on \in {"unready", "undead"}, NEW b, NEW done,
                   c.op \in {"pull", "retry", "discard"}
            PROVE  Says(c, on, b, done)
        BY <4>1 DEF Says, Settles
      <4>2. Written(q)' = Says(call'[q], On(q)', blob'[Job(q)'], Job(q)' \in finished')
        BY DEF Written
      <4> QED BY <2>5, <3>2, <4>1, <4>2 DEF Op
    <3> QED BY <3>1, <3>2 DEF RowAt
  <2>8. LeaseAt(k)'
    <3>1. \A t \in Tokens : <<k, t>> \in held' => Alive(k, t)'
      BY <1>14, <2>4
    <3>2. \A q \in Callers, t \in Tokens : <<k, t>> \in call'[q].got =>
            /\ Alive(k, t)' /\ <<k, t>> \notin held'
            /\ q = p
      BY <1>14, <2>4, <2>5
    <3>3. \A q \in Callers : ~(Acting(q)' /\ Job(q)' = k /\ Op(q)' = "heartbeat")
      BY <2>5
    <3>4. \A q \in Callers : ~(Answers(q)' /\ Job(q)' = k)
      BY <2>5 DEF Answers, Settles
    <3> QED BY <3>1, <3>2, <3>3, <3>4 DEF LeaseAt
  <2>9. DueAt(k)'
    BY <2>5 DEF DueAt
  <2>10. SlotAt(k)'
    <3>1. Holds(k, leased[k])' /\ (k \in DOMAIN leased)'
      BY <1>8, <1>13 DEF Holds
    <3>2. \A q \in Callers :
            ~(Acting(q)' /\ Job(q)' = k /\ Op(q)' \in {"pull", "heartbeat"} /\ On(q)' \in {"save", "lease"})
      BY <2>5
    <3>3. Holds(k, IF k \in DOMAIN leased THEN leased[k] ELSE 1)'
      BY <3>1 DEF Holds
    <3> QED BY <3>1, <3>2, <3>3 DEF SlotAt
  <2>11. JobInv(k)'
    BY <2>6, <2>7, <2>8, <2>9, <2>10 DEF JobInv
  <2> QED BY <1>2, <1>3, <1>5, <1>10, <1>11, <2>11, Rest
<1>16. CASE Op(p) = "heartbeat"
  <2>1. Lease1(p) \in held /\ Lease1(p) = <<k, call[p].token>> /\ call[p].token \in Tokens
    <3>1. Lease1(p) \in held /\ Lease1(p) = <<k, call[p].token>>
      BY <1>2, <1>3, <1>16 DEF JobInv, LeaseAt, Lease1
    <3> QED BY <1>3, <3>1 DEF Typed, TypeOKR
  <2>2. Alive(k, call[p].token)
    BY <1>3, <2>1 DEF JobInv, LeaseAt
  <2>3. k \in DOMAIN leased /\ leased[k] >= 1 /\ leased[k] \in Int
    BY <1>3, <2>2, SizeAssumption DEF Alive, Typed
  <2>4. call[p].got = {}
    <3>1. Busily(call[p])
      BY <1>3, InFlight
    <3> QED BY <1>3, <1>16, <3>1 DEF Busily
  <2>5. call'[p] = Idle /\ held' = held /\ call'[p].got = {}
    <3>1. Op(p) \notin {"pull", "reclaim"}
      BY <1>16
    <3>2. call'[p] = Idle /\ held' = held \union call[p].got
      BY <1>5, <3>1 DEF Quits
    <3> QED BY <2>4, <3>2 DEF Idle
  <2>6. \A q \in Callers : ~Pending(q, k)
    <3>1. \A q \in Callers : Pending(q, k) => leased[k] = 0
      BY <1>3 DEF JobInv, DueAt
    <3> QED BY <2>3, <3>1
  <2>7. ASSUME NEW q \in Callers
        PROVE  /\ q # p => call'[q] = call[q]
               /\ ~Pending(q, k)' /\ ~Grips(q, k)'
               /\ \A t \in Tokens : <<k, t>> \in call'[q].got => <<k, t>> \in call[q].got
               /\ Acting(q)' /\ Job(q)' = k => q # p /\ Acting(q) /\ Job(q) = k
               /\ Answers(q)' /\ Job(q)' = k => q # p /\ Answers(q) /\ Job(q) = k
    <3>1. CASE q = p
      BY <1>12, <2>5, <3>1
    <3>2. CASE q # p
      <4>1. call'[q] = call[q]
        BY <1>12, <3>2
      <4>2. ~Grips(q, k)
        BY <1>3, <2>3 DEF JobInv, OneAt, InNone
      <4> QED BY <1>3, <2>6, <3>2, <4>1, <4>2, SameCall
    <3> QED BY <3>1, <3>2
  <2>8. \A t : Alive(k, t)' <=> Alive(k, t)
    BY <1>1, <1>7, <1>8, <2>3 DEF Alive
  <2>9. OneAt(k)'
    BY <1>1, <1>3, <2>3, <2>7 DEF OneAt, JobInv
  <2>10. RowAt(k)'
    <3>1. Placed(k)'
      BY <1>1, <1>3, <1>8, <1>12, <2>3 DEF Placed, InNone, JobInv, RowAt
    <3>2. ASSUME NEW q \in Callers, Acting(q)', Job(q)' = k PROVE Written(q)'
      <4>1. call'[q] = call[q] /\ Acting(q) /\ Job(q) = k
        BY <2>7, <3>2
      <4>2. Written(q)
        BY <1>3, <4>1 DEF JobInv, RowAt
      <4>3. blob'[Job(q)] = blob[Job(q)] /\ (Job(q) \in finished)' = (Job(q) \in finished)
        BY <1>1, <3>2, <4>1
      <4> QED BY <4>1, <4>2, <4>3, WrittenSame
    <3> QED BY <3>1, <3>2 DEF RowAt
  <2>11. LeaseAt(k)'
    <3>1. \A t \in Tokens : <<k, t>> \in held' => Alive(k, t)'
      BY <1>3, <2>5, <2>8 DEF JobInv, LeaseAt
    <3>2. ASSUME NEW q \in Callers, NEW t \in Tokens, <<k, t>> \in call'[q].got
          PROVE  Alive(k, t)'
      <4>1. <<k, t>> \in call[q].got
        BY <2>7, <3>2
      <4>2. \/ Alive(k, t)
            \/ Acting(q) /\ Job(q) = k /\ Op(q) = "pull" /\ On(q) = "lease"
        BY <1>3, <4>1 DEF JobInv, LeaseAt
      <4>3. ~Grips(q, k)
        BY <1>3, <2>3 DEF JobInv, OneAt, InNone
      <4>4. ~(Acting(q) /\ Job(q) = k /\ Op(q) = "pull" /\ On(q) = "lease")
        BY <4>3 DEF Grips, Before, Settles
      <4> QED BY <2>8, <4>2, <4>4
    <3>3. ASSUME NEW q \in Callers, Answers(q)', Job(q)' = k, On(q)' \in {"load", "unlease"}
          PROVE  Alive(k, call[q].token)'
      <4>1. Answers(q) /\ Job(q) = k /\ call'[q] = call[q]
        BY <2>7, <3>3
      <4>2. On(q) \in {"load", "unlease"}
        BY <3>3, <4>1, SameCall
      <4>3. Alive(k, call[q].token)
        BY <1>3, <4>1, <4>2 DEF JobInv, LeaseAt
      <4> QED BY <2>8, <4>1, <4>3
    <3>4. ASSUME NEW q \in Callers, Acting(q)', Job(q)' = k, Op(q)' = "heartbeat"
          PROVE  Lease1(q)' \in held'
      <4>1. Acting(q) /\ Job(q) = k /\ call'[q] = call[q]
        BY <2>7, <3>4
      <4>2. Op(q) = "heartbeat" /\ Lease1(q)' = Lease1(q)
        BY <3>4, <4>1, SameCall
      <4> QED BY <1>3, <2>5, <4>1, <4>2 DEF JobInv, LeaseAt
    <3>5. ASSUME NEW q \in Callers, Answers(q)', Job(q)' = k
          PROVE  /\ Lease1(q)' \notin held'
                 /\ \A r \in Callers : Lease1(q)' \notin call'[r].got
                 /\ \A r \in Callers : Answers(r)' /\ Job(r)' = k => q = r
      <4>1. Answers(q) /\ Job(q) = k /\ Lease1(q)' = Lease1(q)
        BY <2>7, <3>5, SameCall
      <4>2. /\ Lease1(q) \notin held
            /\ \A r \in Callers : Lease1(q) \notin call[r].got
            /\ \A r \in Callers : Answers(r) /\ Job(r) = k => q = r
        BY <1>3, <4>1 DEF JobInv, LeaseAt
      <4>3. \A r \in Callers : Lease1(q) \notin call'[r].got
        BY <1>12, <2>5, <4>2
      <4> QED BY <2>5, <2>7, <4>1, <4>2, <4>3
    <3>6. \A q \in Callers, t \in Tokens : <<k, t>> \in call'[q].got =>
            /\ <<k, t>> \notin held'
            /\ \A r \in Callers : <<k, t>> \in call'[r].got => q = r
      BY <1>3, <2>5, <2>7 DEF JobInv, LeaseAt
    <3> QED BY <3>1, <3>2, <3>3, <3>4, <3>5, <3>6 DEF LeaseAt
  <2>12. DueAt(k)'
    BY <2>7 DEF DueAt
  <2>13. SlotAt(k)'
    <3>1. Holds(k, leased[k])' /\ (k \in DOMAIN leased)'
      BY <1>8, <1>13 DEF Holds
    <3>2. ASSUME NEW q \in Callers, Acting(q)', Job(q)' = k, Op(q)' \in {"pull", "heartbeat"},
                 On(q)' \in {"save", "lease"}
          PROVE  Holds(k, call[q].until)'
      <4>1. Acting(q) /\ Job(q) = k /\ call'[q] = call[q]
        BY <2>7, <3>2
      <4>2. Op(q) \in {"pull", "heartbeat"} /\ On(q) \in {"save", "lease"}
        BY <3>2, <4>1, SameCall
      <4>3. Holds(k, call[q].until)
        BY <1>3, <4>1, <4>2 DEF JobInv, SlotAt
      <4> QED BY <1>1, <4>1, <4>3 DEF Holds, SlotOf
    <3>3. Holds(k, IF k \in DOMAIN leased THEN leased[k] ELSE 1)'
      BY <3>1 DEF Holds
    <3> QED BY <3>1, <3>2, <3>3 DEF SlotAt
  <2>14. JobInv(k)'
    BY <2>9, <2>10, <2>11, <2>12, <2>13 DEF JobInv
  <2> QED BY <1>2, <1>3, <1>5, <1>10, <1>11, <2>14, Rest
<1> QED BY <1>4, <1>15, <1>16

\* A call that did not find its row where it looked for it.
LEMMA Misses ==
    ASSUME RqIInv, NEW p \in Callers, Acting(p), NEW k, k = Job(p), Quits(p), Typed',
           On(p) # "lease", \A j \in Jobs : Frame(j)
    PROVE  RqIInv'
<1>1. Typed /\ Job(p) \in Jobs
  BY InFlight DEF RqIInv
<1>2. JobInv(k)'
  BY <1>1, Elsewhere DEF RqIInv
<1> QED BY <1>1, <1>2, Rest

LEMMA UnreadyStep == ASSUME RqIInv, NEW p \in Callers, Unready(p) PROVE RqIInv'
<1>1. /\ At(p, "unready") /\ Removed(p, DOMAIN ready)
      /\ UNCHANGED <<blob, leased, dead, uniq, slot, finished>>
      /\ ready' = Zrem(ready, Job(p))
  BY DEF Unready
<1>2. PICK k : k = Job(p)
  OBVIOUS
<1>3. /\ Typed /\ Acting(p) /\ On(p) = "unready" /\ k \in Jobs /\ k \in pushed /\ JobInv(k)
      /\ Op(p) \in OpNames /\ "unready" \in Makes(Op(p)) /\ call[p].op = Op(p)
  BY <1>1, <1>2, Standing
<1>4. Op(p) = "pull"
  BY <1>3 DEF Makes, OpNames
<1>5. /\ DOMAIN ready' = DOMAIN ready \ {k} /\ ready' \in [DOMAIN ready' -> Int]
      /\ DOMAIN ready' \subseteq Jobs
  <2>1. PICK z : z = Zrem(ready, k)
    OBVIOUS
  <2>2. ready \in [DOMAIN ready -> Int] /\ DOMAIN ready \subseteq Jobs
    BY <1>3 DEF Typed, TypeOKR
  <2>3. DOMAIN z = DOMAIN ready \ {k} /\ z \in [DOMAIN z -> Int]
    BY <2>1, <2>2 DEF Zrem
  <2> QED BY <1>1, <1>2, <2>1, <2>2, <2>3
<1>6. ASSUME NEW j \in Jobs, j # k \/ k \notin DOMAIN ready PROVE Frame(j)
  <2>1. (j \in DOMAIN ready)' = (j \in DOMAIN ready)
    BY <1>5, <1>6
  <2> QED BY <1>1, <1>3, <2>1, Apart
<1>7. CASE k \in DOMAIN ready
  <2>1. GoesOn(p)
    BY <1>1, <1>2, <1>7 DEF Removed
  <2>2. Then("pull", k, "unready") = "load"
    BY DEF Then, Settles
  <2>3. Onward(p, "load", call[p].copy, call[p].got)
    BY <1>2, <1>3, <1>4, <2>1, <2>2, GoesOnIs DEF Last
  <2>4. Typed'
    BY <1>1, <1>3, <1>5, <2>3, Retyped
  <2>5. k \notin DOMAIN leased /\ k \notin dead
    BY <1>3, <1>7 DEF JobInv, OneAt
  <2>6. /\ \A t : ~Alive(k, t)
        /\ \A q \in Callers \ {p} : ~Grips(q, k) /\ ~Pending(q, k)
    BY <1>3, <1>7, <2>5 DEF JobInv, OneAt, InNone, DueAt, Alive
  <2>7. /\ Alone(p, k) /\ \A t \in Tokens : <<k, t>> \notin held
        /\ \A t \in Tokens : <<k, t>> \notin call[p].got
    BY <1>3, <2>6, BareAlone
  <2>8. InNone(k)'
    BY <1>1, <1>5, <2>5 DEF InNone
  <2>9. Placed(k)' /\ Waits(blob[k])
    <3>1. pushed' = pushed
      BY <2>3 DEF Onward, Others
    <3> QED BY <1>1, <1>3, <1>7, <2>8, <3>1 DEF Placed, InNone, JobInv, RowAt
  <2>10. Says(call'[p], "load", blob'[k], (k \in finished)')
    <3>1. call'[p].op = "pull"
      BY <1>4, <2>3 DEF Onward, Op
    <3> QED BY <1>1, <2>9, <3>1 DEF Says, Settles
  <2>11. "load" \notin Before(Op(p)) /\ Op(p) # "heartbeat"
    BY <1>4 DEF Before, Settles
  <2>12. JobInv(k)'
    BY <1>2, <1>3, <2>3, <2>4, <2>7, <2>8, <2>9, <2>10, <2>11, Taken
  <2>13. \A j \in Jobs \ {k} : Frame(j)
    BY <1>6
  <2> QED BY <1>2, <1>3, <2>3, <2>4, <2>12, <2>13, Rest
<1>8. CASE k \notin DOMAIN ready
  <2>1. Quits(p)
    BY <1>1, <1>2, <1>3, <1>4, <1>8, QuitsIs DEF Removed, Claims
  <2>2. Typed'
    BY <1>1, <1>3, <1>5, <2>1, Retyped
  <2>3. \A j \in Jobs : Frame(j)
    BY <1>6, <1>8
  <2> QED BY <1>2, <1>3, <2>1, <2>2, <2>3, Misses
<1> QED BY <1>7, <1>8

LEMMA UndeadStep == ASSUME RqIInv, NEW p \in Callers, Undead(p) PROVE RqIInv'
<1>1. /\ At(p, "undead") /\ Removed(p, dead)
      /\ UNCHANGED <<blob, ready, leased, uniq, slot, finished>>
      /\ dead' = dead \ {Job(p)}
  BY DEF Undead
<1>2. PICK k : k = Job(p)
  OBVIOUS
<1>3. /\ Typed /\ Acting(p) /\ On(p) = "undead" /\ k \in Jobs /\ k \in pushed /\ JobInv(k)
      /\ Op(p) \in OpNames /\ "undead" \in Makes(Op(p)) /\ call[p].op = Op(p)
  BY <1>1, <1>2, Standing
<1>4. Op(p) \in {"retry", "discard"}
  BY <1>3 DEF Makes, OpNames
<1>5. dead' \subseteq Jobs
  BY <1>1, <1>3 DEF Typed, TypeOKR
<1>6. ASSUME NEW j \in Jobs, j # k \/ k \notin dead PROVE Frame(j)
  <2>1. (j \in dead)' = (j \in dead)
    BY <1>1, <1>2, <1>6
  <2> QED BY <1>1, <1>3, <2>1, Apart
<1>7. CASE k \in dead
  <2>1. GoesOn(p)
    BY <1>1, <1>2, <1>7 DEF Removed
  <2>2. PICK on : on = Then(Op(p), k, "undead")
    OBVIOUS
  <2>3. on = IF Op(p) = "retry" THEN "load" ELSE "erase"
    BY <2>2 DEF Then
  <2>4. Onward(p, on, call[p].copy, call[p].got)
    BY <1>2, <1>3, <2>1, <2>2, GoesOnIs DEF Last
  <2>5. Typed'
    BY <1>1, <1>3, <1>5, <2>4, Retyped
  <2>6. k \notin DOMAIN leased /\ k \notin DOMAIN ready
    BY <1>3, <1>7 DEF JobInv, OneAt
  <2>7. /\ \A t : ~Alive(k, t)
        /\ \A q \in Callers \ {p} : ~Grips(q, k) /\ ~Pending(q, k)
    BY <1>3, <1>7, <2>6 DEF JobInv, OneAt, InNone, DueAt, Alive
  <2>8. /\ Alone(p, k) /\ \A t \in Tokens : <<k, t>> \notin held
        /\ \A t \in Tokens : <<k, t>> \notin call[p].got
    BY <1>3, <1>4, <2>7, BareAlone
  <2>9. InNone(k)'
    BY <1>1, <1>2, <2>6 DEF InNone
  <2>10. Placed(k)' /\ Lies(blob[k], "dead")
    <3>1. pushed' = pushed
      BY <2>4 DEF Onward, Others
    <3> QED BY <1>1, <1>3, <1>7, <2>9, <3>1 DEF Placed, InNone, JobInv, RowAt
  <2>11. Says(call'[p], on, blob'[k], (k \in finished)')
    <3>1. call'[p].op = Op(p)
      BY <2>4 DEF Onward, Op
    <3>2. CASE Op(p) = "retry"
      BY <1>1, <2>3, <2>10, <3>1, <3>2 DEF Says, Settles
    <3>3. CASE Op(p) = "discard"
      BY <1>1, <2>3, <2>10, <3>1, <3>3 DEF Says, Settles
    <3> QED BY <1>4, <3>2, <3>3
  <2>12. on \notin Before(Op(p)) /\ Op(p) \notin {"heartbeat", "pull"}
    BY <1>4, <2>3 DEF Before, Settles
  <2>13. JobInv(k)'
    BY <1>2, <1>3, <2>4, <2>5, <2>8, <2>9, <2>10, <2>11, <2>12, Taken
  <2>14. \A j \in Jobs \ {k} : Frame(j)
    BY <1>6
  <2> QED BY <1>2, <1>3, <2>4, <2>5, <2>13, <2>14, Rest
<1>8. CASE k \notin dead
  <2>1. Quits(p)
    BY <1>1, <1>2, <1>3, <1>4, <1>8, QuitsIs DEF Removed, Claims
  <2>2. Typed'
    BY <1>1, <1>3, <1>5, <2>1, Retyped
  <2>3. \A j \in Jobs : Frame(j)
    BY <1>6, <1>8
  <2> QED BY <1>2, <1>3, <2>1, <2>2, <2>3, Misses
<1> QED BY <1>7, <1>8

\* A settle has its row for itself before it takes it.
LEMMA SettleAlone ==
    ASSUME Typed, NEW p \in Callers, NEW j \in Jobs, JobInv(j), Acting(p), Job(p) = j,
           Op(p) \in Settles, On(p) = "unlease"
    PROVE  /\ Alone(p, j) /\ \A t \in Tokens : <<j, t>> \notin held /\ <<j, t>> \notin call[p].got
           /\ Runs(blob[j]) /\ blob[j].token = call[p].token
           /\ j \in DOMAIN leased /\ j \notin DOMAIN ready /\ j \notin dead
<1>1. Answers(p)
  BY DEF Answers, Last
<1>2. /\ Alive(j, call[p].token) /\ Lease1(p) \notin held
      /\ \A q \in Callers : Lease1(p) \notin call[q].got
      /\ \A q \in Callers : Answers(q) /\ Job(q) = j => q = p
  BY <1>1 DEF JobInv, LeaseAt
<1>3. /\ j \in DOMAIN leased /\ leased[j] >= 1 /\ blob[j].token = call[p].token
      /\ j \notin DOMAIN ready /\ j \notin dead
  BY <1>2 DEF Alive, JobInv, OneAt
<1>4. Runs(blob[j])
  BY <1>3 DEF JobInv, RowAt, Placed
<1>5. Lease1(p) = <<j, call[p].token>>
  BY DEF Lease1
<1>6. \A t : Alive(j, t) => t = call[p].token
  BY <1>3 DEF Alive
<1>7. \A t \in Tokens : <<j, t>> \notin held
  BY <1>2, <1>5, <1>6 DEF JobInv, LeaseAt
<1>8. \A q \in Callers : ~Grips(q, j)
  BY <1>3 DEF JobInv, OneAt, InNone
<1>9. \A q \in Callers : ~Pending(q, j)
  <2>1. \A q \in Callers : Pending(q, j) => leased[j] = 0
    BY DEF JobInv, DueAt
  <2> QED BY <1>3, <2>1
<1>10. ASSUME NEW q \in Callers, NEW t \in Tokens, <<j, t>> \in call[q].got PROVE FALSE
  <2>1. \/ Alive(j, t)
        \/ Acting(q) /\ Job(q) = j /\ Op(q) = "pull" /\ On(q) = "lease"
    BY <1>10 DEF JobInv, LeaseAt
  <2>2. ~(Acting(q) /\ Job(q) = j /\ Op(q) = "pull" /\ On(q) = "lease")
    BY <1>8 DEF Grips, Before, Settles
  <2> QED BY <1>2, <1>5, <1>6, <1>10, <2>1, <2>2
<1>11. ASSUME NEW q \in Callers \ {p}, Acting(q), Job(q) = j
       PROVE  Op(q) \in {"pull", "retry", "discard"} /\ On(q) \in Before(Op(q))
  <2>1. On(q) \in Before(Op(q)) /\ Op(q) \in OpNames
    BY <1>8, <1>11, InFlight DEF Grips
  <2>2. Op(q) # "push"
    BY <2>1 DEF Before, Settles
  <2>3. Op(q) # "reclaim"
    <3> SUFFICES ASSUME Op(q) = "reclaim" PROVE FALSE
      OBVIOUS
    <3>1. On(q) = "unlease"
      BY <2>1 DEF Before, Settles
    <3>2. 1 \in 1..Len(call[q].todo) /\ call[q].todo[1] = j
      <4>1. PICK todo \in Seq(Jobs) : todo = call[q].todo
        BY <1>11, InFlight DEF Calls
      <4> QED BY <1>11, <4>1 DEF Acting, Job
    <3> QED BY <1>9, <1>11, <3>1, <3>2 DEF Pending
  <2>4. Op(q) \notin Settles
    <3> SUFFICES ASSUME Op(q) \in Settles PROVE FALSE
      OBVIOUS
    <3>1. On(q) \in {"load", "unlease"}
      BY <2>1 DEF Before, Settles
    <3>2. Answers(q)
      BY <1>11, <3>1 DEF Answers, Last
    <3> QED BY <1>2, <1>11, <3>2
  <2>5. Op(q) # "heartbeat"
    <3> SUFFICES ASSUME Op(q) = "heartbeat" PROVE FALSE
      OBVIOUS
    <3>1. Lease1(q) \in held /\ Lease1(q) = <<j, call[q].token>>
      BY <1>11 DEF JobInv, LeaseAt, Lease1
    <3>2. call[q].token \in Tokens
      BY <3>1 DEF Typed, TypeOKR
    <3> QED BY <1>7, <3>1, <3>2
  <2> QED BY <2>1, <2>2, <2>3, <2>4, <2>5 DEF OpNames, Settles
<1>12. Alone(p, j)
  BY <1>9, <1>10, <1>11 DEF Alone
<1> QED BY <1>3, <1>4, <1>7, <1>10, <1>12

LEMMA UnleaseStep == ASSUME RqIInv, Peaceful, NEW p \in Callers, Unlease(p) PROVE RqIInv'
<1>1. /\ At(p, "unlease") /\ Removed(p, DOMAIN leased)
      /\ UNCHANGED <<blob, ready, dead, uniq, slot, finished>>
      /\ leased' = Zrem(leased, Job(p))
  BY DEF Unlease
<1>2. PICK k : k = Job(p)
  OBVIOUS
<1>3. /\ Typed /\ Acting(p) /\ On(p) = "unlease" /\ k \in Jobs /\ k \in pushed /\ JobInv(k)
      /\ Op(p) \in OpNames /\ "unlease" \in Makes(Op(p)) /\ call[p].op = Op(p)
      /\ Says(call[p], "unlease", blob[k], k \in finished)
  BY <1>1, <1>2, Standing
<1>4. Op(p) \in Settles \union {"reclaim"}
  BY <1>3 DEF Makes, OpNames, Settles
<1>5. /\ DOMAIN leased' = DOMAIN leased \ {k} /\ leased' \in [DOMAIN leased' -> 0..LeaseLen]
      /\ DOMAIN leased' \subseteq Jobs /\ \A j \in DOMAIN leased \ {k} : leased'[j] = leased[j]
  <2>1. PICK z : z = Zrem(leased, k)
    OBVIOUS
  <2>2. leased \in [DOMAIN leased -> 0..LeaseLen] /\ DOMAIN leased \subseteq Jobs
    BY <1>3 DEF Typed, TypeOKR
  <2>3. /\ DOMAIN z = DOMAIN leased \ {k} /\ z \in [DOMAIN z -> 0..LeaseLen]
        /\ \A j \in DOMAIN leased \ {k} : z[j] = leased[j]
    BY <2>1, <2>2 DEF Zrem
  <2> QED BY <1>1, <1>2, <2>1, <2>2, <2>3
<1>6. ASSUME NEW j \in Jobs \ {k} PROVE Frame(j)
  <2>1. (j \in DOMAIN leased)' = (j \in DOMAIN leased) /\ (j \in DOMAIN leased => leased'[j] = leased[j])
    BY <1>5
  <2> QED BY <1>1, <1>3, <2>1, Apart
<1>7. /\ Alone(p, k) /\ \A t \in Tokens : <<k, t>> \notin held /\ <<k, t>> \notin call[p].got
      /\ Runs(blob[k]) /\ (Op(p) \in Settles => blob[k].token = call[p].token)
      /\ k \in DOMAIN leased /\ k \notin DOMAIN ready /\ k \notin dead
  <2>1. CASE Op(p) \in Settles
    BY <1>2, <1>3, <2>1, SettleAlone
  <2>2. CASE Op(p) = "reclaim"
    <3>1. 1 \in 1..Len(call[p].todo) /\ call[p].todo[1] = k
      <4>1. PICK todo \in Seq(Jobs) : todo = call[p].todo
        BY <1>3, InFlight DEF Calls
      <4> QED BY <1>2, <1>3, <4>1 DEF Acting, Job
    <3>2. Pending(p, k)
      BY <1>3, <2>2, <3>1 DEF Pending
    <3>3. k \in DOMAIN leased /\ leased[k] = 0
      BY <1>3, <3>2 DEF JobInv, DueAt
    <3>4. k \notin DOMAIN ready /\ k \notin dead
      BY <1>3, <3>3 DEF JobInv, OneAt
    <3>5. \A t : ~Alive(k, t)
      BY <3>3 DEF Alive
    <3>6. ASSUME NEW q \in Callers \ {p} PROVE ~Grips(q, k) /\ ~Pending(q, k)
      <4>1. ~Grips(q, k)
        BY <1>3, <3>3 DEF JobInv, OneAt, InNone
      <4>2. Pending(q, k) => q \in Reclaimers
        BY <1>3 DEF Pending, Typed, Shape
      <4>3. p \in Reclaimers
        BY <1>3, <2>2 DEF Typed, Shape
      <4> QED BY <4>1, <4>2, <4>3 DEF Peaceful
    <3>7. Runs(blob[k])
      BY <1>3, <3>3 DEF JobInv, RowAt, Placed
    <3> QED BY <1>3, <2>2, <3>3, <3>4, <3>5, <3>6, <3>7, BareAlone DEF Settles
  <2> QED BY <1>4, <2>1, <2>2
<1>8. GoesOn(p)
  BY <1>1, <1>2, <1>7 DEF Removed
<1>9. PICK on : on = Then(Op(p), k, "unlease")
  OBVIOUS
<1>10. /\ Op(p) = "reclaim" => on = "load"
       /\ Op(p) \in Settles => on \in {"unmark", "unslot", "save"}
  BY <1>9 DEF Then, Settles
<1>11. Onward(p, on, call[p].copy, call[p].got)
  BY <1>2, <1>3, <1>8, <1>9, GoesOnIs DEF Last
<1>12. Typed'
  BY <1>1, <1>3, <1>5, <1>11, Retyped
<1>13. InNone(k)'
  BY <1>1, <1>5, <1>7 DEF InNone
<1>14. Placed(k)'
  <2>1. pushed' = pushed
    BY <1>11 DEF Onward, Others
  <2> QED BY <1>1, <1>3, <1>13, <2>1 DEF Placed, InNone, JobInv, RowAt
<1>15. Says(call'[p], on, blob'[k], (k \in finished)')
  <2>1. call'[p].op = Op(p) /\ call'[p].copy = call[p].copy /\ call'[p].token = call[p].token
    BY <1>11 DEF Onward, Op
  <2>2. CASE Op(p) = "reclaim"
    BY <1>1, <1>7, <1>10, <2>1, <2>2 DEF Says, Settles
  <2>3. CASE Op(p) \in Settles
    <3>1. Lies(call[p].copy, Ending(Op(p)))
      BY <1>3, <2>3 DEF Says
    <3>2. blob'[k] = blob[k]
      BY <1>1
    <3> QED BY <1>3, <1>7, <1>10, <2>1, <2>3, <3>1, <3>2, SaysSettle
  <2> QED BY <1>4, <2>2, <2>3
<1>16. on \notin Before(Op(p)) /\ Op(p) \notin {"heartbeat", "pull"}
  BY <1>4, <1>10 DEF Before, Settles
<1>17. JobInv(k)'
  BY <1>2, <1>3, <1>7, <1>11, <1>12, <1>13, <1>14, <1>15, <1>16, Taken
<1> QED BY <1>2, <1>3, <1>6, <1>11, <1>12, <1>17, Rest

-----------------------------------------------------------------------------
(* Starting a call *)

LEMMA RangesIs ==
    ASSUME NEW z, DOMAIN z \subseteq Jobs, NEW limit \in Nat, NEW todo \in Ranges(z, limit)
    PROVE  /\ todo \in Seq(Jobs)
           /\ \A a, b \in 1..Len(todo) : todo[a] = todo[b] => a = b
           /\ \A a \in 1..Len(todo) : todo[a] \in DOMAIN z /\ z[todo[a]] <= 0
<1>1. PICK due : due = {j \in DOMAIN z : z[j] <= 0}
  OBVIOUS
<1>2. due \subseteq Jobs
  BY <1>1
<1>3. Cardinality(due) \in Nat
  <2>1. IsFiniteSet(due)
    BY <1>2, JobAssumption, FS_Subset
  <2> QED BY <2>1, FS_CardinalityType
<1>4. PICK n \in Nat : n = IF Cardinality(due) < limit THEN Cardinality(due) ELSE limit
  BY <1>3
<1>5. /\ todo \in [1..n -> due]
      /\ \A a, b \in 1..n : a < b => todo[a] # todo[b]
  BY <1>1, <1>4 DEF Ranges
<1>6. todo \in Seq(Jobs) /\ Len(todo) = n
  <2>1. todo \in [1..n -> Jobs]
    BY <1>2, <1>5
  <2>2. todo \in Seq(Jobs)
    BY <1>4, <2>1, SeqDef
  <2>3. DOMAIN todo = 1..Len(todo) /\ Len(todo) \in Nat
    BY <2>2, LenProperties
  <2>4. 1..n = 1..Len(todo)
    BY <2>1, <2>3
  <2>5. \A m \in Nat : 1..n = 1..m => m = n
    <3> SUFFICES ASSUME NEW m \in Nat, 1..n = 1..m PROVE m = n
      OBVIOUS
    <3>1. n = 0 \/ n \in 1..m
      OBVIOUS
    <3>2. m = 0 \/ m \in 1..n
      OBVIOUS
    <3>3. n <= m /\ m <= n
      BY <3>1, <3>2
    <3> QED BY <3>3
  <2> QED BY <2>2, <2>3, <2>4, <2>5
<1>7. \A a, b \in 1..n : a # b => a < b \/ b < a
  OBVIOUS
<1>8. \A a, b \in 1..n : todo[a] = todo[b] => a = b
  BY <1>5, <1>7
<1>9. \A a \in 1..n : todo[a] \in due
  BY <1>5
<1>10. \A a \in 1..n : todo[a] \in DOMAIN z /\ z[todo[a]] <= 0
  BY <1>1, <1>9
<1> QED BY <1>6, <1>8, <1>10

LEMMA StartIs ==
    ASSUME Typed, NEW p \in Callers, NEW op \in OpNames, NEW todo \in Seq(Jobs),
           NEW record \in Calls, Starts(p, op, todo, record), record.got = {},
           \A a, b \in 1..Len(todo) : todo[a] = todo[b] => a = b,
           op \notin {"pull", "reclaim"} => Len(todo) = 1,
           op \in {"pull", "heartbeat"} => record.until >= 1,
           op = "reclaim" => p \in Reclaimers,
           pushed \subseteq pushed', pushed' \subseteq Jobs, \A a \in 1..Len(todo) : todo[a] \in pushed',
           held' \subseteq held
    PROVE  /\ Typed' /\ call[p] = Idle /\ Acting(p)' /\ Job(p)' = todo[1] /\ Op(p)' = op
           /\ On(p)' = First(op, todo[1]) /\ call'[p].todo = todo /\ call'[p].copy = record.copy
           /\ call'[p].token = record.token /\ call'[p].got = {} /\ call'[p].op = op
           /\ todo[1] \in Jobs /\ todo[1] \in pushed' /\ 1 \in 1..Len(todo)
           /\ UNCHANGED <<blob, ready, leased, dead, uniq, slot, finished>>
           /\ \A q \in Callers \ {p} : call'[q] = call[q]
<1>1. /\ op \in Ops /\ call[p] = Idle /\ todo # <<>>
      /\ call' = [call EXCEPT ![p] = [record EXCEPT !.op = op, !.todo = todo,
                                                    !.route = Route(op, todo[1])]]
      /\ UNCHANGED <<blob, ready, leased, dead, uniq, slot, finished>>
  BY DEF Starts, indexes
<1>2. Len(todo) \in Nat /\ Len(todo) >= 1 /\ 1 \in 1..Len(todo) /\ todo[1] \in Jobs
  BY <1>1
<1>3. PICK r \in Seq(Words) : /\ r = Route(op, todo[1]) /\ Chain(op, todo[1], r)
                              /\ Head(r) = First(op, todo[1])
  BY <1>2, RouteSeq, Routes
<1>4. PICK d : d = [record EXCEPT !.op = op, !.todo = todo, !.route = r]
  OBVIOUS
<1>5. /\ d \in Calls /\ d.op = op /\ d.todo = todo /\ d.route = r /\ d.copy = record.copy
      /\ d.token = record.token /\ d.until = record.until /\ d.got = {}
  BY <1>4 DEF Calls
<1>6. Busily(d)
  BY <1>1, <1>3, <1>5 DEF Busily
<1>7. call' = [call EXCEPT ![p] = d] /\ call \in [Callers -> Calls]
  BY <1>1, <1>3, <1>4 DEF Typed
<1>8. /\ call' \in [Callers -> Calls] /\ call'[p] = d
      /\ \A q \in Callers \ {p} : call'[q] = call[q]
  BY <1>5, <1>7
<1>9. \A q \in Callers : Shape(q)'
  <2>1. Shape(p)'
    BY <1>5, <1>6, <1>8 DEF Shape, Acting, Op
  <2>2. ASSUME NEW q \in Callers \ {p} PROVE Shape(q)'
    <3>1. Shape(q) /\ call'[q] = call[q]
      BY <1>8 DEF Typed
    <3> QED BY <3>1 DEF Shape, Acting, Op
  <2> QED BY <2>1, <2>2
<1>10. \A q \in Callers : call'[q].copy \in Held /\ call'[q].until \in 0..LeaseLen
  BY <1>8 DEF Calls
<1>11. Typed'
  BY <1>1, <1>8, <1>9, <1>10 DEF Typed, TypeOKR
<1> QED BY <1>1, <1>2, <1>3, <1>5, <1>8, <1>11 DEF Acting, Job, Op, On

\* What the row j needs of a call that starts.
LEMMA Started ==
    ASSUME Typed, NEW p \in Callers, NEW j \in Jobs, JobInv(j), call[p] = Idle,
           UNCHANGED <<blob, ready, leased, dead, uniq, slot, finished>>,
           \A q \in Callers \ {p} : call'[q] = call[q], call'[p].got = {},
           pushed \subseteq pushed', held' \subseteq held,
           Grips(p, j)' => InNone(j) /\ \A q \in Callers : ~Grips(q, j),
           Acting(p)' /\ Job(p)' = j => Written(p)',
           Answers(p)' /\ Job(p)' = j =>
                /\ Alive(j, call'[p].token) /\ Lease1(p)' \notin held'
                /\ \A q \in Callers : Lease1(p)' \notin call[q].got
                /\ \A q \in Callers : ~(Answers(q) /\ Job(q) = j),
           Acting(p)' /\ Job(p)' = j /\ Op(p)' = "heartbeat" => Lease1(p)' \in held',
           \A q \in Callers : Acting(q) /\ Job(q) = j /\ Op(q) = "heartbeat" => Lease1(q) \in held',
           Pending(p, j)' => j \in DOMAIN leased /\ leased[j] = 0,
           Op(p)' \in {"pull", "heartbeat"} => On(p)' \notin {"save", "lease"}
    PROVE  JobInv(j)'
<1>1. ~Acting(p) /\ call[p].got = {}
  BY DEF Acting, Idle
<1>2. ASSUME NEW q \in Callers \ {p}
      PROVE  /\ call'[q] = call[q] /\ (Acting(q)' <=> Acting(q)) /\ Job(q)' = Job(q)
             /\ Op(q)' = Op(q) /\ On(q)' = On(q) /\ Lease1(q)' = Lease1(q)
             /\ (Answers(q)' <=> Answers(q)) /\ (Grips(q, j)' <=> Grips(q, j))
             /\ (Pending(q, j)' <=> Pending(q, j))
  BY SameCall
<1>3. OneAt(j)'
  <2>1. \A q \in Callers : Grips(q, j)' => InNone(j)
    BY <1>2 DEF JobInv, OneAt
  <2>2. \A q, r \in Callers : Grips(q, j)' /\ Grips(r, j)' => q = r
    BY <1>2 DEF JobInv, OneAt
  <2> QED BY <2>1, <2>2 DEF JobInv, OneAt, InNone
<1>4. RowAt(j)'
  <2>1. ASSUME NEW q \in Callers, Acting(q)', Job(q)' = j PROVE Written(q)'
    <3>1. CASE q = p
      BY <2>1, <3>1
    <3>2. CASE q # p
      <4>1. Acting(q) /\ Job(q) = j /\ call'[q] = call[q]
        BY <1>2, <2>1, <3>2
      <4>2. Written(q)
        BY <4>1 DEF JobInv, RowAt
      <4>3. blob'[Job(q)] = blob[Job(q)] /\ (Job(q) \in finished)' = (Job(q) \in finished)
        BY <2>1, <4>1
      <4> QED BY <4>1, <4>2, <4>3, WrittenSame
    <3> QED BY <3>1, <3>2
  <2>2. Placed(j)'
    BY DEF JobInv, RowAt, Placed, InNone
  <2> QED BY <2>1, <2>2 DEF RowAt
<1>5. \A t : Alive(j, t)' <=> Alive(j, t)
  BY DEF Alive
<1>6. \A q \in Callers, t \in Tokens : <<j, t>> \in call'[q].got => <<j, t>> \in call[q].got /\ q # p
  BY <1>2
<1>7. LeaseAt(j)'
  <2>1. \A t \in Tokens : <<j, t>> \in held' => Alive(j, t)'
    BY <1>5 DEF JobInv, LeaseAt
  <2>2. ASSUME NEW q \in Callers, NEW t \in Tokens, <<j, t>> \in call'[q].got
        PROVE  \/ Alive(j, t)'
               \/ Acting(q)' /\ Job(q)' = j /\ Op(q)' = "pull" /\ On(q)' = "lease" /\ blob'[j].token = t
    <3>1. <<j, t>> \in call[q].got /\ q # p
      BY <1>6, <2>2
    <3>2. \/ Alive(j, t)
          \/ Acting(q) /\ Job(q) = j /\ Op(q) = "pull" /\ On(q) = "lease" /\ blob[j].token = t
      BY <3>1 DEF JobInv, LeaseAt
    <3> QED BY <1>2, <1>5, <3>1, <3>2
  <2>3. ASSUME NEW q \in Callers, Answers(q)', Job(q)' = j, On(q)' \in {"load", "unlease"}
        PROVE  Alive(j, call[q].token)'
    <3>1. CASE q = p
      BY <1>5, <2>3, <3>1
    <3>2. CASE q # p
      <4>1. Answers(q) /\ Job(q) = j /\ On(q) \in {"load", "unlease"} /\ call'[q] = call[q]
        BY <1>2, <2>3, <3>2
      <4>2. Alive(j, call[q].token)
        BY <4>1 DEF JobInv, LeaseAt
      <4> QED BY <1>5, <4>1, <4>2
    <3> QED BY <3>1, <3>2
  <2>4. \A q \in Callers : Acting(q)' /\ Job(q)' = j /\ Op(q)' = "heartbeat" => Lease1(q)' \in held'
    BY <1>2
  <2>5. ASSUME NEW q \in Callers, Answers(q)', Job(q)' = j
        PROVE  /\ Lease1(q)' \notin held'
               /\ \A r \in Callers : Lease1(q)' \notin call'[r].got
               /\ \A r \in Callers : Answers(r)' /\ Job(r)' = j => q = r
    <3>1. CASE q = p
      <4>1. \A r \in Callers \ {p} : ~(Answers(r)' /\ Job(r)' = j)
        BY <1>2, <2>5, <3>1
      <4>2. \A r \in Callers : Lease1(p)' \notin call'[r].got
        BY <1>2, <2>5, <3>1
      <4> QED BY <2>5, <3>1, <4>1, <4>2
    <3>2. CASE q # p
      <4>1. Answers(q) /\ Job(q) = j /\ Lease1(q)' = Lease1(q)
        BY <1>2, <2>5, <3>2
      <4>2. /\ Lease1(q) \notin held
            /\ \A r \in Callers : Lease1(q) \notin call[r].got
            /\ \A r \in Callers : Answers(r) /\ Job(r) = j => q = r
        BY <4>1 DEF JobInv, LeaseAt
      <4>3. \A r \in Callers : Lease1(q) \notin call'[r].got
        BY <1>2, <4>2
      <4>4. ~(Answers(p)' /\ Job(p)' = j)
        BY <4>1
      <4> QED BY <1>2, <4>1, <4>2, <4>3, <4>4
    <3> QED BY <3>1, <3>2
  <2>6. \A q \in Callers, t \in Tokens : <<j, t>> \in call'[q].got =>
            /\ <<j, t>> \notin held'
            /\ \A r \in Callers : <<j, t>> \in call'[r].got => q = r
    BY <1>6 DEF JobInv, LeaseAt
  <2> QED BY <2>1, <2>2, <2>3, <2>4, <2>5, <2>6 DEF LeaseAt
<1>8. DueAt(j)'
  BY <1>2 DEF JobInv, DueAt
<1>9. SlotAt(j)'
  <2>1. \A t \in Tokens : <<j, t>> \in held' => Holds(j, leased[j])'
    BY DEF JobInv, SlotAt, Holds, SlotOf
  <2>2. ASSUME NEW q \in Callers, NEW t \in Tokens, <<j, t>> \in call'[q].got
        PROVE  Holds(j, IF j \in DOMAIN leased THEN leased[j] ELSE 1)'
    <3>1. Holds(j, IF j \in DOMAIN leased THEN leased[j] ELSE 1)
      BY <1>6, <2>2 DEF JobInv, SlotAt
    <3> QED BY <3>1 DEF Holds, SlotOf
  <2>3. ASSUME NEW q \in Callers, Acting(q)', Job(q)' = j, Op(q)' \in {"pull", "heartbeat"},
               On(q)' \in {"save", "lease"}
        PROVE  Holds(j, call[q].until)'
    <3>1. q # p
      BY <2>3
    <3>2. Acting(q) /\ Job(q) = j /\ Op(q) \in {"pull", "heartbeat"} /\ On(q) \in {"save", "lease"}
      BY <1>2, <2>3, <3>1
    <3>3. Holds(j, call[q].until) /\ call'[q].until = call[q].until
      BY <1>2, <3>1, <3>2 DEF JobInv, SlotAt
    <3> QED BY <3>3 DEF Holds, SlotOf
  <2> QED BY <2>1, <2>2, <2>3 DEF SlotAt
<1> QED BY <1>3, <1>4, <1>7, <1>8, <1>9 DEF JobInv

\* A call as it starts says nothing of its row, a push aside.
LEMMA SaysFirst ==
    ASSUME NEW op \in OpNames, op # "push", NEW c, c.op = op, NEW b, NEW done, NEW j
    PROVE  /\ Says(c, First(op, j), b, done) /\ First(op, j) \in Before(op)
           /\ First(op, j) \notin {"save", "lease"}
<1>1. CASE op = "pull"
  <2>1. First(op, j) = "unready"
    BY <1>1 DEF First
  <2> QED BY <1>1, <2>1 DEF Says, Settles, Before
<1>2. CASE op = "reclaim"
  <2>1. First(op, j) = "unlease"
    BY <1>2 DEF First
  <2> QED BY <1>2, <2>1 DEF Says, Settles, Before
<1>3. CASE op \in {"retry", "discard"}
  <2>1. First(op, j) = "undead"
    BY <1>3 DEF First
  <2> QED BY <1>3, <2>1 DEF Says, Settles, Before
<1>4. CASE op \in {"ack", "nack", "nack dead", "heartbeat"}
  <2>1. First(op, j) = "load"
    BY <1>4 DEF First
  <2> QED BY <1>4, <2>1 DEF Says, Settles, Before
<1> QED BY <1>1, <1>2, <1>3, <1>4 DEF OpNames

LEMMA SaysStarted ==
    ASSUME NEW p \in Callers, Op(p)' \in OpNames, Op(p)' # "push", On(p)' = First(Op(p)', Job(p)')
    PROVE  /\ Written(p)' /\ On(p)' \notin {"save", "lease"} /\ \A j \in Jobs : ~Grips(p, j)'
<1>1. Written(p)' = Says(call'[p], On(p)', blob'[Job(p)'], Job(p)' \in finished')
  BY DEF Written
<1>2. PICK c, b, done, k, op, on : /\ c = call'[p] /\ b = blob'[Job(p)'] /\ done = (Job(p)' \in finished')
                               /\ k = Job(p)' /\ op = Op(p)' /\ on = On(p)'
  OBVIOUS
<1>3. c.op = op /\ op \in OpNames /\ op # "push" /\ on = First(op, k)
  BY <1>2 DEF Op
<1>4. Says(c, First(op, k), b, done) /\ First(op, k) \in Before(op) /\ First(op, k) \notin {"save", "lease"}
  BY <1>3, SaysFirst
<1>5. Says(c, on, b, done) /\ on \in Before(op) /\ on \notin {"save", "lease"}
  BY <1>3, <1>4
<1> QED BY <1>1, <1>2, <1>5 DEF Grips

\* A call that only looks for its rows, or renews them, is no news to any row.
LEMMA StartedPlain ==
    ASSUME RqIInv, Typed', NEW p \in Callers, call[p] = Idle, call'[p].got = {},
           UNCHANGED <<blob, ready, leased, dead, uniq, slot, finished>>, pushed' = pushed, held' = held,
           \A q \in Callers \ {p} : call'[q] = call[q],
           Acting(p)', Op(p)' \in OpNames \ ({"push"} \union Settles),
           On(p)' = First(Op(p)', Job(p)'),
           Op(p)' = "heartbeat" => Lease1(p)' \in held,
           \A j \in Jobs : Pending(p, j)' => j \in DOMAIN leased /\ leased[j] = 0
    PROVE  RqIInv'
<1>1. /\ Written(p)' /\ On(p)' \notin {"save", "lease"} /\ \A j \in Jobs : ~Grips(p, j)'
      /\ ~Answers(p)'
  BY SaysStarted DEF Answers
<1>2. ASSUME NEW j \in Jobs PROVE JobInv(j)'
  <2>1. Typed /\ JobInv(j)
    BY DEF RqIInv
  <2>2. \A q \in Callers : Acting(q) /\ Job(q) = j /\ Op(q) = "heartbeat" => Lease1(q) \in held'
    BY <2>1 DEF JobInv, LeaseAt
  <2> QED BY <1>1, <2>1, <2>2, Started
<1> QED BY <1>2 DEF RqIInv

LEMMA IdleIs == Idle \in Calls /\ Idle.got = {}
<1>1. Idle.got = {}
  BY DEF Idle
<1> QED BY <1>1, IdleCall

LEMMA IdleUntil == ASSUME NEW u \in 0..LeaseLen, NEW g, g = [Idle EXCEPT !.until = u]
                   PROVE  g \in Calls /\ g.got = {} /\ g.until = u
BY IdleIs DEF Calls

LEMMA IdleToken == ASSUME NEW t \in Tokens \union {NoToken}, NEW g, g = [Idle EXCEPT !.token = t]
                   PROVE  g \in Calls /\ g.got = {} /\ g.token = t
BY IdleIs DEF Calls

LEMMA IdleCopy == ASSUME NEW c \in Held, NEW g, g = [Idle EXCEPT !.copy = c]
                  PROVE  g \in Calls /\ g.got = {} /\ g.copy = c
BY IdleIs DEF Calls

LEMMA NoBlobIs == NoBlob \in Held /\ NoToken \in Tokens \union {NoToken} /\ 0 \in 0..LeaseLen
                    /\ LeaseLen \in 0..LeaseLen /\ LeaseLen >= 1
<1>1. NoBlob \in Held
  BY DEF NoBlob, Held
<1> QED BY <1>1, SizeAssumption

LEMMA PullStep == ASSUME RqIInv, NEW p \in Callers, Pull(p) PROVE RqIInv'
<1>1. PICK limit \in 1..Cardinality(Jobs) :
        \E todo \in Candidates(limit) : Starts(p, "pull", todo, [Idle EXCEPT !.until = LeaseLen])
  BY DEF Pull
<1>2. PICK todo \in Candidates(limit) : Starts(p, "pull", todo, [Idle EXCEPT !.until = LeaseLen])
  BY <1>1
<1>3. held' = held /\ pushed' = pushed /\ Typed
  BY DEF Pull, RqIInv
<1>4. PICK z : z = [j \in DOMAIN ready |-> Score(j)]
  OBVIOUS
<1>5. DOMAIN z = DOMAIN ready /\ DOMAIN z \subseteq Jobs
  BY <1>3, <1>4 DEF Typed, TypeOKR
<1>6. Cardinality(Jobs) \in Nat /\ limit \in Nat
  BY JobAssumption, FS_CardinalityType
<1>7. todo \in Ranges(z, limit)
  BY <1>2, <1>4 DEF Candidates
<1>8. /\ todo \in Seq(Jobs)
      /\ \A a, b \in 1..Len(todo) : todo[a] = todo[b] => a = b
      /\ \A a \in 1..Len(todo) : todo[a] \in DOMAIN ready
  BY <1>5, <1>6, <1>7, RangesIs
<1>9. \A j \in DOMAIN ready : j \in pushed
  <2>1. DOMAIN ready \subseteq Jobs
    BY <1>3 DEF Typed, TypeOKR
  <2> QED BY <2>1 DEF RqIInv, JobInv, RowAt, Placed, InNone
<1>10. PICK record : record = [Idle EXCEPT !.until = LeaseLen]
  OBVIOUS
<1>a. record \in Calls /\ record.got = {} /\ record.until = LeaseLen
  BY <1>10, IdleUntil, NoBlobIs
<1>11. pushed' \subseteq Jobs /\ "pull" \in OpNames /\ LeaseLen >= 1
  BY <1>3, SizeAssumption DEF Typed, OpNames
<1>12. /\ Typed' /\ call[p] = Idle /\ Acting(p)' /\ Job(p)' = todo[1] /\ Op(p)' = "pull"
       /\ On(p)' = First("pull", todo[1]) /\ call'[p].got = {}
       /\ UNCHANGED <<blob, ready, leased, dead, uniq, slot, finished>>
       /\ \A q \in Callers \ {p} : call'[q] = call[q]
  <2>1. \A a \in 1..Len(todo) : todo[a] \in pushed'
    BY <1>3, <1>8, <1>9
  <2>2. Starts(p, "pull", todo, record)
    BY <1>2, <1>10
  <2>3. pushed \subseteq pushed' /\ held' \subseteq held /\ record.until >= 1
    BY <1>3, <1>a, <1>11
  <2> QED BY <1>3, <1>8, <1>a, <1>11, <2>1, <2>2, <2>3, StartIs
<1>13. \A j \in Jobs : ~Pending(p, j)'
  BY <1>12 DEF Pending
<1> QED BY <1>3, <1>11, <1>12, <1>13, StartedPlain DEF Settles

LEMMA ReclaimStep == ASSUME RqIInv, NEW p \in Callers, Reclaim(p) PROVE RqIInv'
<1>1. PICK todo \in Expired : Starts(p, "reclaim", todo, Idle)
  BY DEF Reclaim
<1>2. held' = held /\ pushed' = pushed /\ Typed /\ p \in Reclaimers
  BY DEF Reclaim, RqIInv
<1>3. DOMAIN leased \subseteq Jobs /\ leased \in [DOMAIN leased -> 0..LeaseLen]
  BY <1>2 DEF Typed, TypeOKR
<1>4. Cardinality(Jobs) \in Nat
  BY JobAssumption, FS_CardinalityType
<1>5. /\ todo \in Seq(Jobs)
      /\ \A a, b \in 1..Len(todo) : todo[a] = todo[b] => a = b
      /\ \A a \in 1..Len(todo) : todo[a] \in DOMAIN leased /\ leased[todo[a]] <= 0
  BY <1>1, <1>3, <1>4, RangesIs DEF Expired
<1>6. \A j \in DOMAIN leased : j \in pushed
  BY <1>3 DEF RqIInv, JobInv, RowAt, Placed, InNone
<1>7. pushed' \subseteq Jobs /\ "reclaim" \in OpNames
  BY <1>2 DEF Typed, OpNames
<1>8. /\ Typed' /\ call[p] = Idle /\ Acting(p)' /\ Job(p)' = todo[1] /\ Op(p)' = "reclaim"
      /\ On(p)' = First("reclaim", todo[1]) /\ call'[p].got = {} /\ call'[p].todo = todo
      /\ UNCHANGED <<blob, ready, leased, dead, uniq, slot, finished>>
      /\ \A q \in Callers \ {p} : call'[q] = call[q]
  <2>1. \A a \in 1..Len(todo) : todo[a] \in pushed'
    BY <1>2, <1>5, <1>6
  <2>2. PICK record \in Calls : record = Idle /\ record.got = {}
    BY IdleIs
  <2>3. Starts(p, "reclaim", todo, record)
    BY <1>1, <2>2
  <2> QED BY <1>2, <1>5, <1>7, <2>1, <2>2, <2>3, StartIs
<1>9. ASSUME NEW j \in Jobs, Pending(p, j)' PROVE j \in DOMAIN leased /\ leased[j] = 0
  <2>1. PICK a \in 1..Len(todo) : todo[a] = j
    BY <1>8, <1>9 DEF Pending
  <2>2. j \in DOMAIN leased /\ leased[j] <= 0
    BY <1>5, <2>1
  <2>3. leased[j] \in 0..LeaseLen
    BY <1>3, <2>2
  <2> QED BY <2>2, <2>3, SizeAssumption
<1> QED BY <1>2, <1>7, <1>8, <1>9, StartedPlain DEF Settles

LEMMA OneMember ==
    ASSUME NEW j \in Jobs, NEW todo, todo = <<j>>
    PROVE  /\ todo \in Seq(Jobs) /\ Len(todo) = 1 /\ todo[1] = j
           /\ \A a, b \in 1..Len(todo) : todo[a] = todo[b] => a = b
           /\ \A a \in 1..Len(todo) : todo[a] = j
<1>1. todo \in Seq(Jobs) /\ Len(todo) = 1 /\ todo[1] = j
  OBVIOUS
<1>2. \A a \in 1..1 : a = 1
  OBVIOUS
<1> QED BY <1>1, <1>2

LEMMA OperateStep == ASSUME RqIInv, NEW p \in Callers, Operate(p) PROVE RqIInv'
<1>1. PICK j \in dead, op \in {"retry", "discard"} : Starts(p, op, <<j>>, Idle)
  BY DEF Operate
<1>2. held' = held /\ pushed' = pushed /\ Typed /\ j \in Jobs
  BY DEF Operate, RqIInv, Typed, TypeOKR
<1>3. j \in pushed
  BY <1>1, <1>2 DEF RqIInv, JobInv, RowAt, Placed, InNone
<1>4. pushed' \subseteq Jobs /\ op \in OpNames /\ op \notin {"push", "pull", "reclaim", "heartbeat"}
      /\ op \notin Settles
  BY <1>2 DEF Typed, OpNames, Settles
<1>5. PICK todo : todo = <<j>>
  OBVIOUS
<1>6. /\ todo \in Seq(Jobs) /\ Len(todo) = 1 /\ todo[1] = j
      /\ \A a, b \in 1..Len(todo) : todo[a] = todo[b] => a = b
      /\ \A a \in 1..Len(todo) : todo[a] = j
  BY <1>2, <1>5, OneMember
<1>7. /\ Typed' /\ call[p] = Idle /\ Acting(p)' /\ Job(p)' = todo[1] /\ Op(p)' = op
      /\ On(p)' = First(op, todo[1]) /\ call'[p].got = {}
      /\ UNCHANGED <<blob, ready, leased, dead, uniq, slot, finished>>
      /\ \A q \in Callers \ {p} : call'[q] = call[q]
  <2>1. \A a \in 1..Len(todo) : todo[a] \in pushed'
    BY <1>2, <1>3, <1>6
  <2>2. PICK record \in Calls : record = Idle /\ record.got = {}
    BY IdleIs
  <2>3. Starts(p, op, todo, record)
    BY <1>1, <1>5, <2>2
  <2> QED BY <1>2, <1>4, <1>6, <2>1, <2>2, <2>3, StartIs
<1>8. \A i \in Jobs : ~Pending(p, i)'
  BY <1>4, <1>7 DEF Pending
<1> QED BY <1>2, <1>4, <1>7, <1>8, StartedPlain

LEMMA LeaseIs == ASSUME Typed, NEW l \in held
                 PROVE  l[1] \in Jobs /\ l[2] \in Tokens /\ l = <<l[1], l[2]>>
BY DEF Typed, TypeOKR

\* A renewal knows its lease by its only member and its token.
LEMMA RenewsIs ==
    ASSUME RqIInv, NEW q \in Callers, NEW l \in held, Acting(q), Op(q) = "heartbeat", Lease1(q) = l
    PROVE  Renews(q, l)
<1>1. Typed
  BY DEF RqIInv
<1>2. PICK j \in Jobs, t \in Tokens : l = <<j, t>> /\ l[1] = j /\ l[2] = t
  BY <1>1, LeaseIs
<1>3. Job(q) = j /\ call[q].token = t
  BY <1>2 DEF Lease1
<1>4. PICK todo \in Seq(Jobs) : todo = call[q].todo
  BY <1>1, InFlight DEF Calls
<1>5. Len(todo) = 1 /\ todo[1] = j
  <2>1. Busily(call[q]) /\ call[q].op = "heartbeat"
    BY <1>1, InFlight DEF Op
  <2> QED BY <1>3, <1>4, <2>1 DEF Busily, Job
<1>6. todo = <<j>>
  <2>1. PICK s : s = <<j>> /\ s \in Seq(Jobs) /\ Len(s) = 1 /\ s[1] = j
    BY OneMember
  <2>2. \A i \in 1..Len(todo) : todo[i] = s[i]
    <3>1. \A i \in 1..1 : i = 1
      OBVIOUS
    <3> QED BY <1>5, <2>1, <3>1
  <2> QED BY <1>5, <2>1, <2>2, SeqEqual
<1> QED BY <1>2, <1>3, <1>4, <1>6 DEF Renews

LEMMA HeartbeatStep ==
    ASSUME RqIInv, NEW p \in Callers, NEW l \in held, Heartbeat(p, l) PROVE RqIInv'
<1>1. /\ Starts(p, "heartbeat", <<l[1]>>, [Idle EXCEPT !.token = l[2], !.until = LeaseLen])
      /\ held' = held /\ pushed' = pushed /\ Typed
  BY DEF Heartbeat, RqIInv
<1>2. PICK j \in Jobs, t \in Tokens : l = <<j, t>> /\ l[1] = j /\ l[2] = t
  BY <1>1, LeaseIs
<1>3. j \in pushed
  <2>1. Alive(j, t)
    BY <1>2 DEF RqIInv, JobInv, LeaseAt
  <2> QED BY <2>1 DEF Alive, RqIInv, JobInv, RowAt, Placed, InNone
<1>4. pushed' \subseteq Jobs /\ "heartbeat" \in OpNames /\ "heartbeat" \notin Settles
  BY <1>1 DEF Typed, OpNames, Settles
<1>5. PICK todo : todo = <<j>>
  OBVIOUS
<1>6. /\ todo \in Seq(Jobs) /\ Len(todo) = 1 /\ todo[1] = j
      /\ \A a, b \in 1..Len(todo) : todo[a] = todo[b] => a = b
      /\ \A a \in 1..Len(todo) : todo[a] = j
  BY <1>5, OneMember
<1>7. PICK record : record = [Idle EXCEPT !.token = t, !.until = LeaseLen]
  OBVIOUS
<1>8. record \in Calls /\ record.got = {} /\ record.until >= 1 /\ record.token = t
  <2>1. record \in Calls /\ record.got = {} /\ record.token = t /\ record.until = LeaseLen
    <3>1. PICK f : f = [Idle EXCEPT !.token = t]
      OBVIOUS
    <3>2. f \in Calls /\ f.got = {} /\ f.token = t
      BY <3>1, IdleToken
    <3>3. record = [f EXCEPT !.until = LeaseLen]
      BY <1>7, <3>1
    <3> QED BY <3>2, <3>3, NoBlobIs DEF Calls
  <2> QED BY <2>1, NoBlobIs
<1>9. /\ Typed' /\ call[p] = Idle /\ Acting(p)' /\ Job(p)' = todo[1] /\ Op(p)' = "heartbeat"
      /\ On(p)' = First("heartbeat", todo[1]) /\ call'[p].got = {} /\ call'[p].token = t
      /\ UNCHANGED <<blob, ready, leased, dead, uniq, slot, finished>>
      /\ \A q \in Callers \ {p} : call'[q] = call[q]
  <2>1. \A a \in 1..Len(todo) : todo[a] \in pushed'
    BY <1>1, <1>3, <1>6
  <2>2. Starts(p, "heartbeat", todo, record)
    BY <1>1, <1>2, <1>5, <1>7
  <2>3. pushed \subseteq pushed' /\ held' \subseteq held
    BY <1>1
  <2> QED BY <1>1, <1>4, <1>6, <1>8, <2>1, <2>2, <2>3, StartIs
<1>10. Lease1(p)' \in held
  BY <1>2, <1>6, <1>9 DEF Lease1
<1>11. \A i \in Jobs : ~Pending(p, i)'
  BY <1>9 DEF Pending
<1>12. "heartbeat" \in OpNames \ ({"push"} \union Settles)
  BY <1>4
<1> QED BY <1>1, <1>9, <1>10, <1>11, <1>12, StartedPlain

LEMMA SettleStep ==
    ASSUME RqIInv, NEW p \in Callers, NEW l \in held, NEW op \in Settles, Settle(p, l, op)
    PROVE  RqIInv'
<1>1. /\ Starts(p, op, <<l[1]>>, [Idle EXCEPT !.token = l[2]])
      /\ held' = held \ {l} /\ pushed' = pushed /\ Typed /\ ~Busy(l)
  BY DEF Settle, RqIInv
<1>2. PICK j \in Jobs, t \in Tokens : l = <<j, t>> /\ l[1] = j /\ l[2] = t
  BY <1>1, LeaseIs
<1>3. Alive(j, t)
  BY <1>2 DEF RqIInv, JobInv, LeaseAt
<1>4. j \in pushed
  BY <1>3 DEF Alive, RqIInv, JobInv, RowAt, Placed, InNone
<1>5. /\ pushed' \subseteq Jobs /\ op \in OpNames
      /\ op \notin {"push", "pull", "heartbeat", "reclaim"}
  BY <1>1 DEF Typed, OpNames, Settles
<1>6. PICK todo : todo = <<j>>
  OBVIOUS
<1>7. /\ todo \in Seq(Jobs) /\ Len(todo) = 1 /\ todo[1] = j
      /\ \A a, b \in 1..Len(todo) : todo[a] = todo[b] => a = b
      /\ \A a \in 1..Len(todo) : todo[a] = j
  BY <1>6, OneMember
<1>8. PICK record : record = [Idle EXCEPT !.token = t]
  OBVIOUS
<1>9. record \in Calls /\ record.got = {} /\ record.token = t
  BY <1>8, IdleToken
<1>10. /\ Typed' /\ call[p] = Idle /\ Acting(p)' /\ Job(p)' = j /\ Op(p)' = op
       /\ On(p)' = First(op, j) /\ call'[p].got = {} /\ call'[p].token = t
       /\ UNCHANGED <<blob, ready, leased, dead, uniq, slot, finished>>
       /\ \A q \in Callers \ {p} : call'[q] = call[q]
  <2>1. \A a \in 1..Len(todo) : todo[a] \in pushed'
    BY <1>1, <1>4, <1>7
  <2>2. Starts(p, op, todo, record)
    BY <1>1, <1>2, <1>6, <1>8
  <2>3. pushed \subseteq pushed' /\ held' \subseteq held
    BY <1>1
  <2> QED BY <1>1, <1>5, <1>7, <1>9, <2>1, <2>2, <2>3, StartIs
<1>11. Written(p)' /\ On(p)' \notin {"save", "lease"} /\ \A i \in Jobs : ~Grips(p, i)'
  BY <1>5, <1>10, SaysStarted
<1>12. Lease1(p)' = l
  BY <1>2, <1>10 DEF Lease1
<1>13. \A q \in Callers : l \notin call[q].got
  BY <1>2 DEF RqIInv, JobInv, LeaseAt
<1>14. \A i \in Jobs : ~Pending(p, i)'
  BY <1>5, <1>10 DEF Pending
<1>15. ASSUME NEW q \in Callers, Answers(q), Job(q) = j PROVE FALSE
  <2>1. JobInv(j)
    BY DEF RqIInv
  <2>2. Acting(q) /\ Op(q) \in Settles /\ On(q) \notin Last /\ On(q) \in Makes(Op(q))
    BY <1>1, <1>15, InFlight DEF Answers
  <2>3. Lease1(q) \notin held /\ Lease1(q) = <<j, call[q].token>>
    BY <1>15, <2>1 DEF JobInv, LeaseAt, Lease1
  <2>4. On(q) \notin {"load", "unlease"}
    <3>1. On(q) \in {"load", "unlease"} => Alive(j, call[q].token)
      BY <1>15, <2>1 DEF JobInv, LeaseAt
    <3> QED BY <1>2, <1>3, <2>3, <3>1 DEF Alive
  <2>5. Grips(q, j)
    BY <1>15, <2>2, <2>4 DEF Grips, Before, Settles
  <2> QED BY <1>3, <2>1, <2>5 DEF JobInv, OneAt, InNone, Alive
<1>16. ASSUME NEW q \in Callers, Acting(q), Op(q) = "heartbeat", Job(q) \in Jobs, JobInv(Job(q))
       PROVE  Lease1(q) \in held'
  <2>1. Lease1(q) \in held /\ Lease1(q) = <<Job(q), call[q].token>>
    BY <1>16 DEF JobInv, LeaseAt, Lease1
  <2>2. Lease1(q) # l
    BY <1>1, <1>16, RenewsIs DEF Busy
  <2> QED BY <1>1, <2>1, <2>2
<1>17. ASSUME NEW i \in Jobs PROVE JobInv(i)'
  <2>1. JobInv(i)
    BY DEF RqIInv
  <2>2. Answers(p)' /\ Job(p)' = i =>
            /\ Alive(i, call'[p].token) /\ Lease1(p)' \notin held'
            /\ \A q \in Callers : Lease1(p)' \notin call[q].got
            /\ \A q \in Callers : ~(Answers(q) /\ Job(q) = i)
    BY <1>1, <1>3, <1>10, <1>12, <1>13, <1>15
  <2>3. \A q \in Callers : Acting(q) /\ Job(q) = i /\ Op(q) = "heartbeat" => Lease1(q) \in held'
    BY <1>16, <2>1
  <2>4. Op(p)' # "heartbeat" /\ held' \subseteq held
    BY <1>1, <1>5, <1>10
  <2> QED BY <1>1, <1>10, <1>11, <1>14, <2>1, <2>2, <2>3, <2>4, Started
<1> QED BY <1>10, <1>17 DEF RqIInv

LEMMA PushStep ==
    ASSUME RqIInv, NEW p \in Callers, NEW j \in Jobs, NEW delay \in 0..MaxDelay, Push(p, j, delay)
    PROVE  RqIInv'
<1>1. PICK c : c = [state |-> "ready", attempt |-> 1, runIn |-> delay, token |-> NoToken]
  OBVIOUS
<1>2. /\ Starts(p, "push", <<j>>, [Idle EXCEPT !.copy = c])
      /\ held' = held /\ j \notin pushed /\ pushed' = pushed \union {j} /\ Typed
  BY <1>1 DEF Push, RqIInv
<1>3. c \in Held /\ Waits(c)
  <2>1. delay \in Int
    BY SizeAssumption
  <2> QED BY <1>1, <2>1 DEF Held, Active, Waiting, Waits
<1>4. pushed' \subseteq Jobs /\ "push" \in OpNames
  BY <1>2 DEF Typed, OpNames
<1>5. PICK todo : todo = <<j>>
  OBVIOUS
<1>6. /\ todo \in Seq(Jobs) /\ Len(todo) = 1 /\ todo[1] = j
      /\ \A a, b \in 1..Len(todo) : todo[a] = todo[b] => a = b
      /\ \A a \in 1..Len(todo) : todo[a] = j
  BY <1>5, OneMember
<1>7. PICK record : record = [Idle EXCEPT !.copy = c]
  OBVIOUS
<1>8. record \in Calls /\ record.got = {} /\ record.copy = c
  BY <1>3, <1>7, IdleCopy
<1>9. /\ Typed' /\ call[p] = Idle /\ Acting(p)' /\ Job(p)' = j /\ Op(p)' = "push"
      /\ On(p)' = First("push", j) /\ call'[p].got = {} /\ call'[p].copy = c /\ call'[p].op = "push"
      /\ UNCHANGED <<blob, ready, leased, dead, uniq, slot, finished>>
      /\ \A q \in Callers \ {p} : call'[q] = call[q]
  <2>1. \A a \in 1..Len(todo) : todo[a] \in pushed'
    BY <1>2, <1>6
  <2>2. Starts(p, "push", todo, record)
    BY <1>2, <1>5, <1>7
  <2>3. pushed \subseteq pushed' /\ held' \subseteq held
    BY <1>2
  <2> QED BY <1>2, <1>4, <1>6, <1>8, <2>1, <2>2, <2>3, StartIs
<1>10. On(p)' \in {"mark", "save"}
  BY <1>9 DEF First
<1>11. /\ blob[j] = NoBlob /\ InNone(j) /\ j \notin finished
       /\ \A q \in Callers : Acting(q) => Job(q) # j
  <2>1. JobInv(j)
    BY DEF RqIInv
  <2>2. \A q \in Callers : Acting(q) => Job(q) # j
    BY <1>2, InFlight
  <2> QED BY <1>2, <2>1, <2>2 DEF JobInv, RowAt, Placed
<1>12. Written(p)'
  <2>1. Written(p)' = Says(call'[p], On(p)', blob'[Job(p)'], Job(p)' \in finished')
    BY DEF Written
  <2>2. blob'[Job(p)'] = NoBlob /\ (Job(p)' \in finished') = FALSE
    BY <1>9, <1>11
  <2>3. ASSUME NEW on \in {"mark", "save"}, NEW d, d.op = "push", d.copy = c
        PROVE  Says(d, on, NoBlob, FALSE)
    BY <1>3, <2>3 DEF Says, Settles
  <2> QED BY <1>9, <1>10, <2>1, <2>2, <2>3
<1>13. ASSUME NEW i \in Jobs PROVE JobInv(i)'
  <2>1. JobInv(i)
    BY DEF RqIInv
  <2>2. \A q \in Callers : Acting(q) /\ Job(q) = i /\ Op(q) = "heartbeat" => Lease1(q) \in held'
    BY <1>2, <2>1 DEF JobInv, LeaseAt
  <2>3. ~Answers(p)' /\ ~Pending(p, i)' /\ Op(p)' \notin {"pull", "heartbeat"}
    BY <1>9 DEF Answers, Pending, Settles
  <2>4. Grips(p, i)' => InNone(i) /\ \A q \in Callers : ~Grips(q, i)
    BY <1>9, <1>11 DEF Grips
  <2>5. pushed \subseteq pushed' /\ held' \subseteq held
    BY <1>2
  <2> QED BY <1>2, <1>9, <1>12, <2>1, <2>2, <2>3, <2>4, <2>5, Started
<1> QED BY <1>9, <1>13 DEF RqIInv

-----------------------------------------------------------------------------
(* Mishaps and time *)

\* Calls that end where they are, and leases that nobody answers for any more.
LEMMA Fewer ==
    ASSUME RqIInv, call' \in [Callers -> Calls],
           \A q \in Callers : call'[q] = call[q] \/ call'[q] = Idle,
           held' \subseteq held,
           UNCHANGED <<blob, ready, leased, dead, uniq, slot, pushed, finished>>,
           \A q \in Callers : call'[q] = call[q] /\ Acting(q) /\ Op(q) = "heartbeat" => Lease1(q) \in held'
    PROVE  RqIInv'
<1>1. ASSUME NEW q \in Callers, call'[q] = Idle
      PROVE  /\ ~Acting(q)' /\ call'[q].got = {} /\ ~Answers(q)'
             /\ \A j \in Jobs : ~Grips(q, j)' /\ ~Pending(q, j)'
  BY <1>1 DEF Idle, Acting, Answers, Grips, Pending
<1>2. Typed'
  <2>1. Typed
    BY DEF RqIInv
  <2>2. \A q \in Callers : Shape(q)'
    <3>1. ASSUME NEW q \in Callers, call'[q] = call[q] PROVE Shape(q)'
      <4>1. Shape(q)
        BY <2>1 DEF Typed
      <4> QED BY <3>1, <4>1 DEF Shape, Acting, Op
    <3>2. ASSUME NEW q \in Callers, call'[q] = Idle PROVE Shape(q)'
      <4>1. Idle.todo = <<>> /\ Idle \in Calls
        BY IdleCall DEF Idle
      <4> QED BY <3>2, <4>1 DEF Shape, Acting
    <3> QED BY <3>1, <3>2
  <2>3. \A q \in Callers : call'[q].copy \in Held /\ call'[q].until \in 0..LeaseLen
    BY DEF Calls
  <2> QED BY <2>1, <2>2, <2>3 DEF Typed, TypeOKR
<1>3. ASSUME NEW j \in Jobs PROVE JobInv(j)'
  <2>0. JobInv(j)
    BY DEF RqIInv
  <2>1. ASSUME NEW q \in Callers
        PROVE  /\ Acting(q)' => Acting(q) /\ call'[q] = call[q]
               /\ Answers(q)' => Answers(q) /\ call'[q] = call[q]
               /\ Grips(q, j)' => Grips(q, j) /\ call'[q] = call[q]
               /\ Pending(q, j)' => Pending(q, j) /\ call'[q] = call[q]
               /\ \A t : <<j, t>> \in call'[q].got => <<j, t>> \in call[q].got /\ call'[q] = call[q]
    <3>1. CASE call'[q] = call[q]
      BY <3>1, SameCall
    <3>2. CASE call'[q] = Idle
      BY <1>1, <3>2
    <3> QED BY <3>1, <3>2
  <2>2. ASSUME NEW q \in Callers, call'[q] = call[q]
        PROVE  /\ (Acting(q)' <=> Acting(q)) /\ Job(q)' = Job(q) /\ Op(q)' = Op(q) /\ On(q)' = On(q)
               /\ Lease1(q)' = Lease1(q) /\ (Answers(q)' <=> Answers(q))
    BY <2>2, SameCall
  <2>3. OneAt(j)'
    BY <2>0, <2>1 DEF JobInv, OneAt, InNone
  <2>4. RowAt(j)'
    <3>1. ASSUME NEW q \in Callers, Acting(q)', Job(q)' = j PROVE Written(q)'
      <4>1. Acting(q) /\ Job(q) = j /\ call'[q] = call[q]
        BY <2>1, <2>2, <3>1
      <4>2. Written(q)
        BY <2>0, <4>1 DEF JobInv, RowAt
      <4>3. blob'[Job(q)] = blob[Job(q)] /\ (Job(q) \in finished)' = (Job(q) \in finished)
        BY <3>1, <4>1
      <4> QED BY <4>1, <4>2, <4>3, WrittenSame
    <3>2. Placed(j)'
      BY <2>0 DEF JobInv, RowAt, Placed, InNone
    <3> QED BY <3>1, <3>2 DEF RowAt
  <2>5. LeaseAt(j)'
    <3>0. \A t : Alive(j, t)' <=> Alive(j, t)
      BY DEF Alive
    <3>1. \A t \in Tokens : <<j, t>> \in held' => Alive(j, t)'
      BY <2>0, <3>0 DEF JobInv, LeaseAt
    <3>2. ASSUME NEW q \in Callers, NEW t \in Tokens, <<j, t>> \in call'[q].got
          PROVE  \/ Alive(j, t)'
                 \/ Acting(q)' /\ Job(q)' = j /\ Op(q)' = "pull" /\ On(q)' = "lease" /\ blob'[j].token = t
      <4>1. <<j, t>> \in call[q].got /\ call'[q] = call[q]
        BY <2>1, <3>2
      <4>2. \/ Alive(j, t)
            \/ Acting(q) /\ Job(q) = j /\ Op(q) = "pull" /\ On(q) = "lease" /\ blob[j].token = t
        BY <2>0, <4>1 DEF JobInv, LeaseAt
      <4> QED BY <2>2, <3>0, <4>1, <4>2
    <3>3. ASSUME NEW q \in Callers, Answers(q)', Job(q)' = j, On(q)' \in {"load", "unlease"}
          PROVE  Alive(j, call[q].token)'
      <4>1. Answers(q) /\ Job(q) = j /\ On(q) \in {"load", "unlease"} /\ call'[q] = call[q]
        BY <2>1, <2>2, <3>3
      <4>2. Alive(j, call[q].token)
        BY <2>0, <4>1 DEF JobInv, LeaseAt
      <4> QED BY <3>0, <4>1, <4>2
    <3>4. \A q \in Callers : Acting(q)' /\ Job(q)' = j /\ Op(q)' = "heartbeat" => Lease1(q)' \in held'
      BY <2>1, <2>2
    <3>5. ASSUME NEW q \in Callers, Answers(q)', Job(q)' = j
          PROVE  /\ Lease1(q)' \notin held'
                 /\ \A r \in Callers : Lease1(q)' \notin call'[r].got
                 /\ \A r \in Callers : Answers(r)' /\ Job(r)' = j => q = r
      <4>1. Answers(q) /\ Job(q) = j /\ Lease1(q)' = Lease1(q)
        BY <2>1, <2>2, <3>5
      <4>2. /\ Lease1(q) \notin held
            /\ \A r \in Callers : Lease1(q) \notin call[r].got
            /\ \A r \in Callers : Answers(r) /\ Job(r) = j => q = r
        BY <2>0, <4>1 DEF JobInv, LeaseAt
      <4>3. Lease1(q) = <<j, call[q].token>>
        BY <4>1 DEF Lease1
      <4>4. \A r \in Callers : Lease1(q) \notin call'[r].got
        BY <2>1, <4>2, <4>3
      <4>5. \A r \in Callers : Answers(r)' /\ Job(r)' = j => Answers(r) /\ Job(r) = j
        BY <2>1, <2>2
      <4> QED BY <4>1, <4>2, <4>4, <4>5
    <3>6. \A q \in Callers, t \in Tokens : <<j, t>> \in call'[q].got =>
              /\ <<j, t>> \notin held'
              /\ \A r \in Callers : <<j, t>> \in call'[r].got => q = r
      BY <2>0, <2>1 DEF JobInv, LeaseAt
    <3> QED BY <3>1, <3>2, <3>3, <3>4, <3>5, <3>6 DEF LeaseAt
  <2>6. DueAt(j)'
    BY <2>0, <2>1 DEF JobInv, DueAt
  <2>7. SlotAt(j)'
    <3>1. \A t \in Tokens : <<j, t>> \in held' => Holds(j, leased[j])'
      BY <2>0 DEF JobInv, SlotAt, Holds, SlotOf
    <3>2. ASSUME NEW q \in Callers, NEW t \in Tokens, <<j, t>> \in call'[q].got
          PROVE  Holds(j, IF j \in DOMAIN leased THEN leased[j] ELSE 1)'
      <4>1. Holds(j, IF j \in DOMAIN leased THEN leased[j] ELSE 1)
        BY <2>0, <2>1, <3>2 DEF JobInv, SlotAt
      <4> QED BY <4>1 DEF Holds, SlotOf
    <3>3. ASSUME NEW q \in Callers, Acting(q)', Job(q)' = j, Op(q)' \in {"pull", "heartbeat"},
                 On(q)' \in {"save", "lease"}
          PROVE  Holds(j, call[q].until)'
      <4>1. Acting(q) /\ Job(q) = j /\ call'[q] = call[q] /\ Op(q) \in {"pull", "heartbeat"}
            /\ On(q) \in {"save", "lease"}
        BY <2>1, <2>2, <3>3
      <4>2. Holds(j, call[q].until)
        BY <2>0, <4>1 DEF JobInv, SlotAt
      <4> QED BY <4>1, <4>2 DEF Holds, SlotOf
    <3> QED BY <3>1, <3>2, <3>3 DEF SlotAt
  <2> QED BY <2>3, <2>4, <2>5, <2>6, <2>7 DEF JobInv
<1> QED BY <1>2, <1>3 DEF RqIInv

LEMMA InterruptStep == ASSUME RqIInv, NEW p \in Callers, Interrupt(p) PROVE RqIInv'
<1>1. /\ call' = [call EXCEPT ![p] = Idle] /\ Typed
      /\ UNCHANGED <<blob, ready, leased, dead, uniq, slot, held, pushed, finished>>
  BY DEF Interrupt, indexes, RqIInv
<1>2. call \in [Callers -> Calls] /\ Idle \in Calls
  BY <1>1, IdleCall DEF Typed
<1>3. call' \in [Callers -> Calls] /\ \A q \in Callers : call'[q] = call[q] \/ call'[q] = Idle
  BY <1>1, <1>2
<1>4. ASSUME NEW q \in Callers, Acting(q), Op(q) = "heartbeat" PROVE Lease1(q) \in held'
  <2>1. Job(q) \in Jobs
    BY <1>1, <1>4, InFlight
  <2> QED BY <1>1, <1>4, <2>1 DEF RqIInv, JobInv, LeaseAt
<1> QED BY <1>1, <1>3, <1>4, Fewer

LEMMA DropStep == ASSUME RqIInv, NEW l \in held, Drop(l) PROVE RqIInv'
<1>1. /\ held' = held \ {l} /\ Typed
      /\ call' = [p \in Callers |-> IF Renews(p, l) THEN Idle ELSE call[p]]
      /\ UNCHANGED <<blob, ready, leased, dead, uniq, slot, pushed, finished>>
  BY DEF Drop, indexes, RqIInv
<1>2. call \in [Callers -> Calls] /\ Idle \in Calls
  BY <1>1, IdleCall DEF Typed
<1>3. /\ call' \in [Callers -> Calls] /\ \A q \in Callers : call'[q] = call[q] \/ call'[q] = Idle
      /\ \A q \in Callers : Renews(q, l) => call'[q] = Idle
  <2> HIDE DEF Idle
  <2> QED BY <1>1, <1>2
<1>4. ASSUME NEW q \in Callers, call'[q] = call[q], Acting(q), Op(q) = "heartbeat"
      PROVE  Lease1(q) \in held'
  <2>1. Job(q) \in Jobs
    BY <1>1, <1>4, InFlight
  <2>2. Lease1(q) \in held
    BY <1>4, <2>1 DEF RqIInv, JobInv, LeaseAt
  <2>3. Lease1(q) # l
    <3> SUFFICES ASSUME Lease1(q) = l PROVE FALSE
      OBVIOUS
    <3>1. call[q] = Idle
      BY <1>3, <1>4, RenewsIs
    <3> QED BY <1>4, <3>1 DEF Acting, Idle
  <2> QED BY <1>1, <2>2, <2>3
<1>5. held' \subseteq held
  BY <1>1
<1> QED BY <1>1, <1>3, <1>4, <1>5, Fewer

\* A settle that has not written yet has its save before it.
LEMMA SavesYet ==
    ASSUME NEW op \in Settles, NEW j, NEW r \in Seq(Words), Chain(op, j, r), Head(r) \notin Last
    PROVE  \E i \in DOMAIN r : r[i] = "save"
<1>1. r # <<>> /\ Len(r) \in Nat /\ Len(r) >= 1 /\ Head(r) = r[1] /\ DOMAIN r = 1..Len(r)
  BY DEF Chain
<1>2. ASSUME NEW i \in 1..Len(r)
      PROVE  r[i] \in Makes(op) /\ IF i = Len(r) THEN r[i] \in Last
                                   ELSE r[i] \notin Last /\ r[i + 1] = Then(op, j, r[i])
  BY DEF Chain
<1>3. Len(r) # 1
  <2>1. 1 \in 1..Len(r)
    BY <1>1
  <2> QED BY <1>1, <1>2, <2>1
<1>a. \A m \in Nat : m >= 1 /\ m # 1 =>
          m - 1 \in Nat /\ m - 1 \in 1..m /\ m - 1 # m /\ (m - 1) + 1 = m /\ m \in 1..m
  OBVIOUS
<1>4. PICK n \in Nat : n \in 1..Len(r) /\ n # Len(r) /\ n + 1 = Len(r) /\ n + 1 \in 1..Len(r)
  <2>1. Len(r) - 1 \in Nat /\ Len(r) - 1 \in 1..Len(r) /\ Len(r) - 1 # Len(r)
        /\ (Len(r) - 1) + 1 = Len(r) /\ Len(r) \in 1..Len(r)
    BY <1>1, <1>3, <1>a
  <2>2. (Len(r) - 1) + 1 \in 1..Len(r)
    BY <2>1
  <2> QED BY <2>1, <2>2
<1>5. r[n] \in Makes(op) /\ r[n + 1] = Then(op, j, r[n])
  BY <1>2, <1>4
<1>6. r[n + 1] \in Last
  BY <1>2, <1>4
<1>7. r[n] = "save"
  <2>1. r[n] \in {"load", "unlease", "unmark", "unslot", "save", "enqueue", "erase", "bury"}
    BY <1>5 DEF Makes, Settles
  <2>2. Then(op, j, r[n]) \in Last
    BY <1>5, <1>6
  <2>3. r[n] \notin Last
    BY <1>2, <1>4
  <2> QED BY <2>1, <2>2, <2>3 DEF Then, Settles, Last
<1> QED BY <1>1, <1>4, <1>7

LEMMA AgedIs ==
    ASSUME NEW b \in Held
    PROVE  /\ Aged(b) \in Held /\ Aged(NoBlob) = NoBlob
           /\ Aged(b).state = b.state /\ Aged(b).token = b.token
<1>1. CASE b = NoBlob
  BY <1>1 DEF Aged
<1>2. CASE b # NoBlob
  <2>1. b.runIn \in Int
    BY DEF Held
  <2>2. Later(b.runIn) \in Int
    BY <2>1 DEF Later
  <2>3. PICK d \in Int : d = Later(b.runIn)
    BY <2>2
  <2>4. Aged(b) = [b EXCEPT !.runIn = d]
    BY <1>2, <2>3 DEF Aged
  <2>5. [b EXCEPT !.runIn = d] \in Held
    BY DEF Held
  <2>6. [b EXCEPT !.runIn = d].state = b.state /\ [b EXCEPT !.runIn = d].token = b.token
    BY DEF Held
  <2>7. Aged(NoBlob) = NoBlob
    BY DEF Aged
  <2> QED BY <2>4, <2>5, <2>6, <2>7
<1> QED BY <1>1, <1>2

LEMMA SaysAged ==
    ASSUME NEW c, NEW d, NEW on, NEW b, NEW e, NEW done, Says(c, on, b, done),
           d.op = c.op, d.todo = c.todo, d.token = c.token, d.got = c.got,
           e.state = b.state, e.token = b.token, b = NoBlob => e = NoBlob,
           d.copy.state = c.copy.state, d.copy.token = c.copy.token, c.copy = b => d.copy = e
    PROVE  Says(d, on, e, done)
<1>1. (Waits(b) <=> Waits(e)) /\ (Runs(b) <=> Runs(e))
  BY DEF Waits, Runs
<1>2. \A s : Lies(b, s) <=> Lies(e, s)
  BY DEF Lies
<1>3. (Waits(c.copy) <=> Waits(d.copy)) /\ (Runs(c.copy) <=> Runs(d.copy))
  BY DEF Waits, Runs
<1>4. \A s : Lies(c.copy, s) <=> Lies(d.copy, s)
  BY DEF Lies
<1>5. b = NoBlob => e = NoBlob
  OBVIOUS
<1>6. c.copy = b => d.copy = e
  OBVIOUS
<1>7. <<c.todo[1], b.token>> \in c.got => <<d.todo[1], e.token>> \in d.got
  OBVIOUS
<1> HIDE DEF Waits, Runs, Lies
<1>8. CASE c.op = "push"
  BY <1>1, <1>2, <1>3, <1>4, <1>5, <1>6, <1>7, <1>8 DEF Says, Settles
<1>9. CASE c.op = "pull"
  BY <1>1, <1>2, <1>3, <1>4, <1>5, <1>6, <1>7, <1>9 DEF Says, Settles
<1>10. CASE c.op = "reclaim"
  BY <1>1, <1>2, <1>3, <1>4, <1>5, <1>6, <1>7, <1>10 DEF Says, Settles
<1>11. CASE c.op = "retry"
  BY <1>1, <1>2, <1>3, <1>4, <1>5, <1>6, <1>7, <1>11 DEF Says, Settles
<1>12. CASE c.op = "discard"
  BY <1>1, <1>2, <1>3, <1>4, <1>5, <1>6, <1>7, <1>12 DEF Says, Settles
<1>13. CASE c.op = "heartbeat"
  BY <1>1, <1>2, <1>3, <1>4, <1>5, <1>6, <1>7, <1>13 DEF Says, Settles
<1>14. CASE c.op = "ack"
  BY <1>1, <1>2, <1>3, <1>4, <1>5, <1>6, <1>7, <1>14 DEF Says, Settles
<1>15. CASE c.op = "nack"
  BY <1>1, <1>2, <1>3, <1>4, <1>5, <1>6, <1>7, <1>15 DEF Says, Settles
<1>16. CASE c.op = "nack dead"
  BY <1>1, <1>2, <1>3, <1>4, <1>5, <1>6, <1>7, <1>16 DEF Says, Settles
<1>17. CASE c.op \notin {"push", "pull", "reclaim", "retry", "discard", "heartbeat", "ack", "nack", "nack dead"}
  BY <1>1, <1>2, <1>3, <1>4, <1>17 DEF Says, Settles
<1> QED BY <1>8, <1>9, <1>10, <1>11, <1>12, <1>13, <1>14, <1>15, <1>16, <1>17

LEMMA SoonerIs == \A d \in Nat : Sooner(d) \in Nat /\ Sooner(d) <= d
                      /\ (d >= 2 => Sooner(d) = d - 1) /\ (d = 0 => Sooner(d) = 0)
BY DEF Sooner

\* What a tick does to a call.
LEMMA TickCallIs ==
    ASSUME call \in [Callers -> Calls], Tick, NEW q \in Callers
    PROVE  /\ call'[q] \in Calls
           /\ call'[q].op = call[q].op /\ call'[q].todo = call[q].todo
           /\ call'[q].route = call[q].route /\ call'[q].token = call[q].token
           /\ call'[q].got = call[q].got /\ call'[q].copy = Aged(call[q].copy)
           /\ call'[q].until = Sooner(call[q].until)
           /\ call[q] = Idle => call'[q] = Idle
<1>1. call[q] \in Calls /\ call[q].copy \in Held /\ call[q].until \in 0..LeaseLen
  BY DEF Calls
<1>2. PICK c : c = Aged(call[q].copy)
  OBVIOUS
<1>3. PICK u : u = Sooner(call[q].until)
  OBVIOUS
<1>4. c \in Held
  BY <1>1, <1>2, AgedIs
<1>5. u \in 0..LeaseLen
  BY <1>1, <1>3, SoonerIs, SizeAssumption
<1>6. PICK f : f = [call[q] EXCEPT !.copy = c]
  OBVIOUS
<1>7. /\ f \in Calls /\ f.copy = c /\ f.op = call[q].op /\ f.todo = call[q].todo
      /\ f.route = call[q].route /\ f.token = call[q].token /\ f.got = call[q].got
      /\ f.until = call[q].until
  BY <1>1, <1>4, <1>6 DEF Calls
<1>8. PICK g : g = [f EXCEPT !.until = u]
  OBVIOUS
<1>9. /\ g \in Calls /\ g.copy = c /\ g.op = f.op /\ g.todo = f.todo
      /\ g.route = f.route /\ g.token = f.token /\ g.got = f.got /\ g.until = u
  BY <1>5, <1>7, <1>8 DEF Calls
<1>10. call'[q] = g
  <2>1. call' = [p \in Callers |-> [call[p] EXCEPT !.copy = Aged(@), !.until = Sooner(@)]]
    BY DEF Tick
  <2>2. call'[q] = [call[q] EXCEPT !.copy = Aged(@), !.until = Sooner(@)]
    BY <2>1
  <2> QED BY <1>2, <1>3, <1>6, <1>8, <2>2
<1>11. ASSUME call[q] = Idle PROVE g = Idle
  <2>1. Idle.copy = NoBlob /\ Idle.until = 0
    BY DEF Idle
  <2>2. c = NoBlob /\ u = 0
    BY <1>1, <1>2, <1>3, <1>11, <2>1, AgedIs, SoonerIs
  <2>3. f = Idle
    BY <1>1, <1>6, <1>11, <2>1, <2>2 DEF Calls
  <2>4. g = Idle
    BY <1>7, <1>8, <2>1, <2>2, <2>3 DEF Calls
  <2> QED BY <2>4
<1> QED BY <1>2, <1>3, <1>7, <1>9, <1>10, <1>11

LEMMA TickCall ==
    ASSUME Typed, Tick, NEW q \in Callers
    PROVE  /\ call'[q] \in Calls
           /\ call'[q].op = call[q].op /\ call'[q].todo = call[q].todo
           /\ call'[q].route = call[q].route /\ call'[q].token = call[q].token
           /\ call'[q].got = call[q].got /\ call'[q].copy = Aged(call[q].copy)
           /\ call'[q].until = Sooner(call[q].until)
           /\ call[q] = Idle => call'[q] = Idle
BY TickCallIs DEF Typed

\* A slot with two ticks or more left loses one and stays.
LEMMA SlotAged ==
    ASSUME Typed, Tick, NEW j \in Jobs, NEW d \in Int, d >= 2, Holds(j, d)
    PROVE  Serial(j) => slot'[NameOf[j]].job = j /\ slot'[NameOf[j]].left >= d - 1
<1> SUFFICES ASSUME Serial(j) PROVE slot'[NameOf[j]].job = j /\ slot'[NameOf[j]].left >= d - 1
  OBVIOUS
<1>1. PICK n \in Names : n = NameOf[j]
  BY ColumnAssumption
<1>2. PICK s : s = slot[n]
  OBVIOUS
<1>3. s \in [job : Jobs \union {NoJob}, left : 0..LeaseLen] /\ s.job = j /\ s.left >= d
      /\ s.left \in Int
  BY <1>1, <1>2, SizeAssumption DEF Typed, Holds, SlotOf
<1>4. slot'[n] = IF s.left <= 1 THEN FreeSlot ELSE [s EXCEPT !.left = @ - 1]
  BY <1>1, <1>2 DEF Tick
<1>5. ~(s.left <= 1)
  BY <1>3
<1>6. [s EXCEPT !.left = @ - 1].job = s.job /\ [s EXCEPT !.left = @ - 1].left = s.left - 1
  BY <1>3
<1>7. s.left - 1 >= d - 1
  BY <1>3
<1> QED BY <1>1, <1>3, <1>4, <1>5, <1>6, <1>7

LEMMA TickTyped == ASSUME Typed, Tick, Timely PROVE Typed'
<1>1. /\ blob' = [j \in Jobs |-> Aged(blob[j])]
      /\ ready' = [j \in DOMAIN ready |-> Later(ready[j])]
      /\ leased' = [j \in DOMAIN leased |-> Sooner(leased[j])]
      /\ dead' = dead /\ uniq' = uniq /\ held' = held /\ pushed' = pushed /\ finished' = finished
  BY DEF Tick
<1>2. blob' \in [Jobs -> Held]
  <2>1. \A j \in Jobs : Aged(blob[j]) \in Held
    BY AgedIs DEF Typed, TypeOKR
  <2> QED BY <1>1, <2>1
<1>3. ready' \in [DOMAIN ready' -> Int] /\ DOMAIN ready' = DOMAIN ready
  <2>1. \A i \in Int : Later(i) \in Int
    BY DEF Later
  <2>2. \A j \in DOMAIN ready : Later(ready[j]) \in Int
    BY <2>1 DEF Typed
  <2> QED BY <1>1, <2>2
<1>4. leased' \in [DOMAIN leased' -> 0..LeaseLen] /\ DOMAIN leased' = DOMAIN leased
  <2>1. \A i \in 0..LeaseLen : Sooner(i) \in 0..LeaseLen
    BY SizeAssumption DEF Sooner
  <2>2. \A j \in DOMAIN leased : Sooner(leased[j]) \in 0..LeaseLen
    BY <2>1 DEF Typed
  <2> QED BY <1>1, <2>2
<1>5. slot' \in [Names -> [job : Jobs \union {NoJob}, left : 0..LeaseLen]]
  <2>1. ASSUME NEW n \in Names
        PROVE  (IF slot[n].left <= 1 THEN FreeSlot ELSE [slot[n] EXCEPT !.left = @ - 1])
                    \in [job : Jobs \union {NoJob}, left : 0..LeaseLen]
    <3>1. PICK s : s = slot[n]
      OBVIOUS
    <3>2. s \in [job : Jobs \union {NoJob}, left : 0..LeaseLen]
      BY <3>1 DEF Typed
    <3>3. FreeSlot \in [job : Jobs \union {NoJob}, left : 0..LeaseLen]
      BY SizeAssumption DEF FreeSlot
    <3>4. ~(s.left <= 1) => s.left - 1 \in 0..LeaseLen
      BY <3>2, SizeAssumption
    <3>5. ~(s.left <= 1) => [s EXCEPT !.left = @ - 1] \in [job : Jobs \union {NoJob}, left : 0..LeaseLen]
      BY <3>2, <3>4
    <3> QED BY <3>1, <3>3, <3>5
  <2>2. slot' = [n \in Names |-> IF slot[n].left <= 1 THEN FreeSlot
                                 ELSE [slot[n] EXCEPT !.left = @ - 1]]
    BY DEF Tick
  <2> QED BY <2>1, <2>2
<1>6. call' \in [Callers -> Calls]
  <2>1. \A q \in Callers : call'[q] \in Calls
    BY TickCall
  <2>2. call' = [p \in Callers |-> [call[p] EXCEPT !.copy = Aged(@), !.until = Sooner(@)]]
    BY DEF Tick
  <2>3. DOMAIN call' = Callers /\ call' = [p \in Callers |-> call'[p]]
    BY <2>2
  <2> QED BY <2>1, <2>3
<1>7. ASSUME NEW q \in Callers PROVE Shape(q)'
  <2>1. Shape(q) /\ call[q] \in Calls
    BY DEF Typed, Shape
  <2>2. /\ call'[q] \in Calls
        /\ call'[q].op = call[q].op /\ call'[q].todo = call[q].todo
        /\ call'[q].route = call[q].route /\ call'[q].got = call[q].got
        /\ call'[q].until = Sooner(call[q].until)
        /\ call[q] = Idle => call'[q] = Idle
    BY TickCall
  <2>3. call'[q] = Idle \/ Busily(call'[q])
    <3>1. CASE call[q] = Idle
      BY <2>2, <3>1
    <3>2. CASE Busily(call[q])
      <4>1. call[q].until \in Nat /\ call[q].until # 1
        BY <2>1, SizeAssumption DEF Calls, Timely
      <4>2. call[q].until >= 1 => call'[q].until >= 1
        BY <2>2, <4>1, SoonerIs
      <4>3. call[q].op \in {"pull", "heartbeat"} => call'[q].until >= 1
        BY <3>2, <4>2 DEF Busily
      <4> QED BY <2>2, <3>2, <4>3 DEF Busily
    <3> QED BY <2>1, <3>1, <3>2 DEF Shape
  <2> QED BY <1>1, <2>1, <2>2, <2>3 DEF Shape, Acting, Op
<1>8. \A q \in Callers : call'[q].copy \in Held /\ call'[q].until \in 0..LeaseLen
  BY <1>6 DEF Calls
<1>9. \A n \in Names : slot'[n].job \in Jobs \union {NoJob} /\ slot'[n].left \in 0..LeaseLen
  BY <1>5
<1>10. TypeOKR'
  BY <1>1, <1>2, <1>3, <1>4, <1>8, <1>9 DEF Typed, TypeOKR
<1> QED BY <1>1, <1>3, <1>4, <1>5, <1>6, <1>7, <1>10 DEF Typed

\* A call is where it was.
LEMMA TickWhere ==
    ASSUME Typed, Tick, NEW q \in Callers
    PROVE  /\ Acting(q)' <=> Acting(q)
           /\ Job(q)' = Job(q) /\ Op(q)' = Op(q) /\ On(q)' = On(q) /\ Lease1(q)' = Lease1(q)
           /\ Answers(q)' <=> Answers(q)
           /\ \A j \in Jobs : (Grips(q, j)' <=> Grips(q, j)) /\ (Pending(q, j)' <=> Pending(q, j))
<1>1. /\ call'[q].op = call[q].op /\ call'[q].todo = call[q].todo
      /\ call'[q].route = call[q].route /\ call'[q].token = call[q].token
  BY TickCall
<1>2. (Acting(q)' <=> Acting(q)) /\ Job(q)' = Job(q) /\ Op(q)' = Op(q) /\ On(q)' = On(q)
  BY <1>1 DEF Acting, Job, Op, On
<1>3. Lease1(q)' = Lease1(q) /\ (Answers(q)' <=> Answers(q))
  BY <1>1, <1>2 DEF Lease1, Answers
<1>4. \A j \in Jobs : (Grips(q, j)' <=> Grips(q, j)) /\ (Pending(q, j)' <=> Pending(q, j))
  BY <1>1, <1>2 DEF Grips, Pending
<1> QED BY <1>2, <1>3, <1>4

\* The lease of a settle that has not taken its row out is one someone answers for.
LEMMA AnswersLease ==
    ASSUME Typed, NEW q \in Callers, Answers(q) PROVE Lease1(q) \in Leases
<1>1. Acting(q) /\ call[q].op \in Settles /\ On(q) \notin Last
  BY DEF Answers, Op
<1>2. Busily(call[q])
  BY <1>1, InFlight
<1>3. Chain(call[q].op, call[q].todo[1], call[q].route) /\ Head(call[q].route) \notin Last
  BY <1>1, <1>2 DEF Busily, On
<1>4. call[q].route \in Seq(Words)
  BY <1>3 DEF Chain
<1>5. \E i \in DOMAIN call[q].route : call[q].route[i] = "save"
  BY <1>1, <1>3, <1>4, SavesYet
<1>6. q \in {p \in Callers : /\ call[p].op \in Settles
                             /\ \E i \in DOMAIN call[p].route : call[p].route[i] = "save"}
  BY <1>1, <1>5
<1>7. Lease1(q) \in {<<Job(p), call[p].token>> :
                        p \in {r \in Callers : /\ call[r].op \in Settles
                                               /\ \E i \in DOMAIN call[r].route :
                                                    call[r].route[i] = "save"}}
  BY <1>6 DEF Lease1
<1> QED BY <1>7 DEF Leases

\* A lease that is alive has a tick to spare.
LEMMA TickAlive ==
    ASSUME Typed, Tick, Timely, NEW j \in Jobs, NEW t, <<j, t>> \in Leases, Alive(j, t)
    PROVE  Alive(j, t)' /\ leased[j] \in Int /\ leased[j] >= 2 /\ leased'[j] = leased[j] - 1
<1>1. blob[j].token = t /\ j \in DOMAIN leased /\ leased[j] >= 1
  BY DEF Alive
<1>2. leased[j] # 1
  <2>1. PICK l : l = <<j, t>>
    OBVIOUS
  <2>2. l[1] = j /\ l[2] = t /\ l \in Leases
    BY <2>1
  <2>3. Current(l)
    BY <1>1, <2>2 DEF Current
  <2> QED BY <1>1, <2>2, <2>3 DEF Timely
<1>3. leased[j] \in Nat
  BY <1>1, SizeAssumption DEF Typed
<1>4. leased'[j] = Sooner(leased[j]) /\ j \in DOMAIN leased'
  BY <1>1 DEF Tick
<1>5. leased[j] >= 2 /\ leased'[j] = leased[j] - 1 /\ leased'[j] >= 1
  BY <1>1, <1>2, <1>3, <1>4 DEF Sooner
<1>6. blob'[j].token = t
  <2>1. blob[j] \in Held /\ blob'[j] = Aged(blob[j])
    BY DEF Typed, TypeOKR, Tick
  <2> QED BY <1>1, <2>1, AgedIs
<1> QED BY <1>3, <1>4, <1>5, <1>6 DEF Alive

LEMMA TickRow == ASSUME Typed, Tick, NEW j \in Jobs, RowAt(j) PROVE RowAt(j)'
<1>1. blob[j] \in Held /\ blob'[j] = Aged(blob[j])
  BY DEF Typed, TypeOKR, Tick
<1>2. /\ blob'[j].state = blob[j].state /\ blob'[j].token = blob[j].token
      /\ blob[j] = NoBlob => blob'[j] = NoBlob
  BY <1>1, AgedIs
<1>3. /\ DOMAIN ready' = DOMAIN ready /\ DOMAIN leased' = DOMAIN leased
      /\ dead' = dead /\ pushed' = pushed /\ finished' = finished
  BY DEF Tick
<1>4. /\ Waits(blob[j])' <=> Waits(blob[j])
      /\ Runs(blob[j])' <=> Runs(blob[j])
      /\ Lies(blob[j], "dead")' <=> Lies(blob[j], "dead")
  BY <1>2 DEF Waits, Runs, Lies
<1>5. Placed(j)'
  BY <1>2, <1>3, <1>4 DEF RowAt, Placed, InNone
<1>6. ASSUME NEW q \in Callers, Acting(q)', Job(q)' = j PROVE Written(q)'
  <2>1. Acting(q) /\ Job(q) = j /\ On(q)' = On(q)
    BY <1>6, TickWhere
  <2>2. Says(call[q], On(q), blob[j], j \in finished)
    BY <2>1 DEF RowAt, Written
  <2>3. call[q].copy \in Held
    BY DEF Typed, TypeOKR
  <2>4. /\ call'[q].op = call[q].op /\ call'[q].todo = call[q].todo
        /\ call'[q].token = call[q].token /\ call'[q].got = call[q].got
        /\ call'[q].copy = Aged(call[q].copy)
    BY TickCall
  <2>5. /\ call'[q].copy.state = call[q].copy.state /\ call'[q].copy.token = call[q].copy.token
        /\ call[q].copy = blob[j] => call'[q].copy = blob'[j]
    BY <1>1, <2>3, <2>4, AgedIs
  <2>6. Says(call'[q], On(q), blob'[j], j \in finished)
    BY <1>2, <2>2, <2>4, <2>5, SaysAged
  <2>7. Written(q)' = Says(call'[q], On(q)', blob'[Job(q)'], Job(q)' \in finished')
    BY DEF Written
  <2> QED BY <1>3, <1>6, <2>1, <2>6, <2>7
<1> QED BY <1>5, <1>6 DEF RowAt

LEMMA TickLease ==
    ASSUME Typed, Tick, Timely, NEW j \in Jobs, LeaseAt(j)
    PROVE  LeaseAt(j)'
<1>1. held' = held /\ blob'[j].token = blob[j].token
  <2>1. blob[j] \in Held /\ blob'[j] = Aged(blob[j])
    BY DEF Typed, TypeOKR, Tick
  <2> QED BY <2>1, AgedIs DEF Tick
<1>2. ASSUME NEW q \in Callers
      PROVE  /\ Acting(q)' <=> Acting(q)
             /\ Job(q)' = Job(q) /\ Op(q)' = Op(q) /\ On(q)' = On(q) /\ Lease1(q)' = Lease1(q)
             /\ Answers(q)' <=> Answers(q)
             /\ call'[q].got = call[q].got /\ call'[q].token = call[q].token
  BY TickWhere, TickCall
<1>3. \A t \in Tokens : <<j, t>> \in held' => Alive(j, t)'
  <2> SUFFICES ASSUME NEW t \in Tokens, <<j, t>> \in held PROVE Alive(j, t)'
    BY <1>1
  <2>1. Alive(j, t) /\ <<j, t>> \in Leases
    BY DEF LeaseAt, Leases
  <2> QED BY <2>1, TickAlive
<1>4. ASSUME NEW q \in Callers, NEW t \in Tokens, <<j, t>> \in call'[q].got
      PROVE  \/ Alive(j, t)'
             \/ Acting(q)' /\ Job(q)' = j /\ Op(q)' = "pull" /\ On(q)' = "lease" /\ blob'[j].token = t
  <2>1. <<j, t>> \in call[q].got
    BY <1>2, <1>4
  <2>2. <<j, t>> \in Leases
    BY <2>1 DEF Leases
  <2>3. \/ Alive(j, t)
        \/ Acting(q) /\ Job(q) = j /\ Op(q) = "pull" /\ On(q) = "lease" /\ blob[j].token = t
    BY <2>1 DEF LeaseAt
  <2> QED BY <1>1, <1>2, <2>2, <2>3, TickAlive
<1>5. ASSUME NEW q \in Callers, Answers(q)', Job(q)' = j, On(q)' \in {"load", "unlease"}
      PROVE  Alive(j, call[q].token)'
  <2>1. Answers(q) /\ Job(q) = j /\ On(q) \in {"load", "unlease"}
    BY <1>2, <1>5
  <2>2. PICK t : t = call[q].token
    OBVIOUS
  <2>3. Alive(j, t)
    BY <2>1, <2>2 DEF LeaseAt
  <2>4. <<j, t>> \in Leases
    BY <2>1, <2>2, AnswersLease DEF Lease1
  <2>5. Alive(j, t)'
    BY <2>3, <2>4, TickAlive
  <2>6. call'[q].token = t
    BY <1>2, <2>2
  <2> QED BY <2>5, <2>6
<1>6. \A q \in Callers : Acting(q)' /\ Job(q)' = j /\ Op(q)' = "heartbeat" => Lease1(q)' \in held'
  BY <1>1, <1>2 DEF LeaseAt
<1>7. \A q \in Callers : Answers(q)' /\ Job(q)' = j =>
         /\ Lease1(q)' \notin held'
         /\ \A r \in Callers : Lease1(q)' \notin call'[r].got
         /\ \A r \in Callers : Answers(r)' /\ Job(r)' = j => q = r
  BY <1>1, <1>2 DEF LeaseAt
<1>8. \A q \in Callers, t \in Tokens : <<j, t>> \in call'[q].got =>
         /\ <<j, t>> \notin held'
         /\ \A r \in Callers : <<j, t>> \in call'[r].got => q = r
  BY <1>1, <1>2 DEF LeaseAt
<1> QED BY <1>3, <1>4, <1>5, <1>6, <1>7, <1>8 DEF LeaseAt

LEMMA TickSlot ==
    ASSUME Typed, Tick, Timely, NEW j \in Jobs, JobInv(j)
    PROVE  SlotAt(j)'
<1>1. held' = held /\ DOMAIN leased' = DOMAIN leased
  BY DEF Tick
<1>2. ASSUME NEW q \in Callers
      PROVE  /\ Acting(q)' <=> Acting(q)
             /\ Job(q)' = Job(q) /\ Op(q)' = Op(q) /\ On(q)' = On(q)
             /\ call'[q].got = call[q].got
  BY TickWhere, TickCall
<1>3. ASSUME NEW q \in Callers, Acting(q), Job(q) = j, Op(q) \in {"pull", "heartbeat"},
             On(q) \in {"save", "lease"}
      PROVE  Holds(j, call[q].until)' /\ Holds(j, 1)'
  <2>1. Holds(j, call[q].until)
    BY <1>3 DEF JobInv, SlotAt
  <2>2. call[q].until \in Nat /\ call[q].until # 1
    BY SizeAssumption DEF Typed, TypeOKR, Timely
  <2>3. call[q].until >= 1
    BY <1>3, InFlight DEF Busily, Op
  <2>4. call[q].until >= 2 /\ call'[q].until = call[q].until - 1
    BY <2>2, <2>3, TickCall, SoonerIs
  <2>5. Serial(j) => slot'[NameOf[j]].job = j /\ slot'[NameOf[j]].left >= call[q].until - 1
    BY <2>1, <2>2, <2>4, SlotAged
  <2>6. Holds(j, call[q].until)'
    BY <2>4, <2>5 DEF Holds, SlotOf
  <2>7. call[q].until - 1 >= 1 /\ call[q].until - 1 \in Int
    BY <2>2, <2>4
  <2>8. Serial(j) => slot'[NameOf[j]].left \in Int
    <3>1. NameOf[j] \in Names
      BY ColumnAssumption
    <3> QED BY <3>1, TickTyped, SizeAssumption DEF Typed
  <2>9. Serial(j) => slot'[NameOf[j]].left >= 1
    BY <2>5, <2>7, <2>8
  <2> QED BY <2>5, <2>6, <2>9 DEF Holds, SlotOf
<1>4. ASSUME NEW t \in Tokens, <<j, t>> \in Leases, Alive(j, t), Holds(j, leased[j])
      PROVE  Holds(j, leased[j])'
  <2>1. leased[j] \in Int /\ leased[j] >= 2 /\ leased'[j] = leased[j] - 1
    BY <1>4, TickAlive
  <2>2. Serial(j) => slot'[NameOf[j]].job = j /\ slot'[NameOf[j]].left >= leased[j] - 1
    BY <1>4, <2>1, SlotAged
  <2> QED BY <2>1, <2>2 DEF Holds, SlotOf
<1>5. \A t \in Tokens : <<j, t>> \in held' => Holds(j, leased[j])'
  <2> SUFFICES ASSUME NEW t \in Tokens, <<j, t>> \in held PROVE Holds(j, leased[j])'
    BY <1>1
  <2>1. <<j, t>> \in Leases
    BY DEF Leases
  <2>2. Alive(j, t) /\ Holds(j, leased[j])
    BY DEF JobInv, LeaseAt, SlotAt
  <2> QED BY <1>4, <2>1, <2>2
<1>6. ASSUME NEW q \in Callers, NEW t \in Tokens, <<j, t>> \in call'[q].got
      PROVE  Holds(j, IF j \in DOMAIN leased THEN leased[j] ELSE 1)'
  <2>1. <<j, t>> \in call[q].got
    BY <1>2, <1>6
  <2>2. <<j, t>> \in Leases
    BY <2>1 DEF Leases
  <2>3. Holds(j, IF j \in DOMAIN leased THEN leased[j] ELSE 1)
    BY <2>1 DEF JobInv, SlotAt
  <2>4. \/ Alive(j, t)
        \/ Acting(q) /\ Job(q) = j /\ Op(q) = "pull" /\ On(q) = "lease"
    BY <2>1 DEF JobInv, LeaseAt
  <2>5. CASE Alive(j, t)
    <3>1. j \in DOMAIN leased
      BY <2>5 DEF Alive
    <3>2. Holds(j, leased[j])
      BY <2>3, <3>1
    <3>3. Holds(j, leased[j])'
      BY <1>4, <2>2, <2>5, <3>2
    <3> QED BY <1>1, <3>1, <3>3
  <2>6. CASE Acting(q) /\ Job(q) = j /\ Op(q) = "pull" /\ On(q) = "lease"
    <3>1. Grips(q, j)
      BY <2>6 DEF Grips, Before
    <3>2. j \notin DOMAIN leased
      BY <3>1 DEF JobInv, OneAt, InNone
    <3>3. Holds(j, 1)'
      BY <1>3, <2>6
    <3> QED BY <1>1, <3>2, <3>3
  <2> QED BY <2>4, <2>5, <2>6
<1>7. ASSUME NEW q \in Callers, Acting(q)', Job(q)' = j, Op(q)' \in {"pull", "heartbeat"},
             On(q)' \in {"save", "lease"}
      PROVE  Holds(j, call[q].until)'
  BY <1>2, <1>3, <1>7
<1> QED BY <1>5, <1>6, <1>7 DEF SlotAt

LEMMA TickStep == ASSUME RqIInv, TickTimely PROVE RqIInv'
<1>1. Typed /\ Timely /\ Tick
  BY DEF RqIInv, TickTimely
<1>2. ASSUME NEW j \in Jobs PROVE JobInv(j)'
  <2>1. JobInv(j)
    BY DEF RqIInv
  <2>2. /\ DOMAIN ready' = DOMAIN ready /\ DOMAIN leased' = DOMAIN leased /\ dead' = dead
        /\ \A i \in DOMAIN leased : leased'[i] = Sooner(leased[i])
    BY <1>1 DEF Tick
  <2>3. ASSUME NEW q \in Callers
        PROVE  (Grips(q, j)' <=> Grips(q, j)) /\ (Pending(q, j)' <=> Pending(q, j))
    BY <1>1, TickWhere
  <2>4. OneAt(j)'
    BY <2>1, <2>2, <2>3 DEF JobInv, OneAt, InNone
  <2>5. DueAt(j)'
    <3>1. Sooner(0) = 0
      BY SoonerIs
    <3> QED BY <2>1, <2>2, <2>3, <3>1 DEF JobInv, DueAt
  <2>6. RowAt(j)' /\ LeaseAt(j)' /\ SlotAt(j)'
    BY <1>1, <2>1, TickRow, TickLease, TickSlot DEF JobInv
  <2> QED BY <2>4, <2>5, <2>6 DEF JobInv
<1> QED BY <1>1, <1>2, TickTyped DEF RqIInv

-----------------------------------------------------------------------------
(* The invariant *)

LEMMA InitRq == ASSUME Init PROVE RqIInv
<1>1. /\ blob = [j \in Jobs |-> NoBlob] /\ ready = <<>> /\ leased = <<>> /\ dead = {}
      /\ uniq = {} /\ slot = [n \in Names |-> FreeSlot] /\ held = {}
      /\ call = [p \in Callers |-> Idle] /\ pushed = {} /\ finished = {}
  BY DEF Init
<1>2. NoBlob \in Held
  BY NoBlobIs
<1>3. /\ Idle \in Calls /\ Idle.todo = <<>> /\ Idle.got = {} /\ Len(<<>>) = 0
  BY IdleCall DEF Idle
<1>4. FreeSlot \in [job : Jobs \union {NoJob}, left : 0..LeaseLen]
  BY SizeAssumption DEF FreeSlot
<1>5. DOMAIN ready = {} /\ DOMAIN leased = {}
  BY <1>1
<1> HIDE DEF Idle, NoBlob, FreeSlot
<1>6. /\ \A q \in Callers : call[q] = Idle /\ call[q] \in Calls
      /\ call \in [Callers -> Calls]
      /\ slot \in [Names -> [job : Jobs \union {NoJob}, left : 0..LeaseLen]]
      /\ blob \in [Jobs -> Held]
  BY <1>1, <1>2, <1>3, <1>4
<1>7. ASSUME NEW q \in Callers
      PROVE  /\ ~Acting(q) /\ ~Answers(q) /\ call[q].got = {}
             /\ \A j \in Jobs : ~Grips(q, j) /\ ~Pending(q, j)
  BY <1>3, <1>6 DEF Acting, Answers, Grips, Pending
<1>8. Typed
  <2>1. \A q \in Callers : Shape(q)
    <3> SUFFICES ASSUME NEW q \in Callers PROVE Shape(q)
      OBVIOUS
    <3>1. call[q] = Idle /\ call[q] \in Calls /\ ~Acting(q) /\ Len(call[q].todo) = 0
      BY <1>3, <1>6, <1>7
    <3> QED BY <3>1 DEF Shape
  <2>2. \A q \in Callers : call[q].copy \in Held /\ call[q].until \in 0..LeaseLen
    BY <1>6 DEF Calls
  <2>3. \A n \in Names : slot[n].job \in Jobs \union {NoJob} /\ slot[n].left \in 0..LeaseLen
    BY <1>6
  <2>4. ready \in [DOMAIN ready -> Int] /\ leased \in [DOMAIN leased -> 0..LeaseLen]
    BY <1>1
  <2> QED BY <1>1, <1>5, <1>6, <2>1, <2>2, <2>3, <2>4 DEF Typed, TypeOKR
<1>9. ASSUME NEW j \in Jobs PROVE JobInv(j)
  <2>1. blob[j] = NoBlob /\ InNone(j)
    BY <1>1, <1>5 DEF InNone
  <2>2. OneAt(j)
    BY <1>5, <1>7, <2>1 DEF OneAt
  <2>3. RowAt(j)
    BY <1>1, <1>5, <1>7, <2>1 DEF RowAt, Placed
  <2>4. LeaseAt(j)
    BY <1>1, <1>7 DEF LeaseAt
  <2>5. DueAt(j)
    BY <1>7 DEF DueAt
  <2>6. SlotAt(j)
    BY <1>1, <1>7 DEF SlotAt
  <2> QED BY <2>2, <2>3, <2>4, <2>5, <2>6 DEF JobInv
<1> QED BY <1>8, <1>9 DEF RqIInv

\* Nothing of the invariant is about the ghosts of the run's length.
LEMMA StutterStep == ASSUME RqIInv, UNCHANGED vars PROVE RqIInv'
<1>1. /\ UNCHANGED <<blob, ready, leased, dead, uniq, slot, held, pushed, finished>>
      /\ call' = call
  BY DEF vars, indexes
<1>2. /\ call' \in [Callers -> Calls] /\ held' \subseteq held
      /\ \A q \in Callers : call'[q] = call[q] \/ call'[q] = Idle
  BY <1>1 DEF RqIInv, Typed
<1>3. ASSUME NEW q \in Callers, Acting(q), Op(q) = "heartbeat" PROVE Lease1(q) \in held'
  <2>1. Job(q) \in Jobs
    BY <1>3, InFlight DEF RqIInv
  <2> QED BY <1>1, <1>3, <2>1 DEF RqIInv, JobInv, LeaseAt
<1> QED BY <1>1, <1>2, <1>3, Fewer

\* Nobody cancels.
LEMMA NoCancel == ASSUME Peaceful, NEW p \in Callers, NEW j \in Jobs PROVE ~Cancel(p, j)
BY DEF Peaceful, Cancel, Starts

LEMMA NextStep == ASSUME Peaceful, RqIInv, Next PROVE RqIInv'
<1>1. ASSUME NEW p \in Callers, Begin(p) PROVE RqIInv'
  BY <1>1, PushStep, PullStep, ReclaimStep, OperateStep, HeartbeatStep, SettleStep, NoCancel
  DEF Begin, Peaceful
<1>2. ASSUME NEW p \in Callers, StoreCall(p) PROVE RqIInv'
  <2>1. "cancel" \notin Ops
    BY DEF Peaceful
  <2>2. CASE Mark(p) \/ Unmark(p) \/ Load(p) \/ Save(p) \/ Erase(p)
    BY <2>1, <2>2, MarkStep, UnmarkStep, LoadStep, SaveStep, EraseStep
  <2>3. CASE Enqueue(p) \/ Lease(p) \/ Bury(p) \/ Unready(p) \/ Unlease(p) \/ Undead(p)
    BY <2>3, EnqueueStep, LeaseStep, BuryStep, UnreadyStep, UnleaseStep, UndeadStep
  <2>4. CASE ClaimSerial(p) \/ ReleaseSerial(p) \/ ExtendSerial(p)
    BY <2>4, ClaimSerialStep, ReleaseSerialStep, ExtendSerialStep
  <2> QED BY <1>2, <2>2, <2>3, <2>4 DEF StoreCall
<1>3. ~TickStalled
  BY DEF TickStalled, Mishap, Peaceful
<1> QED BY <1>1, <1>2, <1>3, InterruptStep, DropStep, TickStep DEF Next

\* In every state a row is in one of the three sets or in the grip of one call, what
\* it is agrees with where it is, and a lease somebody answers for is good: no store
\* call of push, pull, ack, nack, heartbeat, reclaim, retry or discard, no call cut
\* short and no client lost undoes that.
THEOREM RqInductive == ASSUME Peaceful PROVE Spec => []RqIInv
<1>1. Init => RqIInv
  BY InitRq
<1>2. RqIInv /\ [Next]_vars => RqIInv'
  BY NextStep, StutterStep
<1> QED BY <1>1, <1>2, PTL DEF Spec

-----------------------------------------------------------------------------
(* What follows *)

LEMMA OneOrNone == ASSUME NEW S, \A a, b \in S : a = b
                   PROVE  Cardinality(S) = 0 \/ (Cardinality(S) = 1 /\ S # {})
<1>1. CASE S = {}
  BY <1>1, FS_EmptySet
<1>2. CASE S # {}
  <2>1. PICK a : a \in S
    BY <1>2
  <2>2. S = {a}
    BY <2>1
  <2> QED BY <1>2, <2>2, FS_Singleton
<1> QED BY <1>1, <1>2

LEMMA OnePlaceIs == ASSUME RqIInv PROVE OnePlace
<1> SUFFICES ASSUME NEW j \in Jobs
             PROVE  Cardinality({z \in 1..3 : j \in <<DOMAIN ready, DOMAIN leased, dead>>[z]})
                        + Cardinality(Claimed(j)) <= 1
  BY DEF OnePlace
<1>1. PICK S : S = {z \in 1..3 : j \in <<DOMAIN ready, DOMAIN leased, dead>>[z]}
  OBVIOUS
<1>2. PICK C : C = Claimed(j)
  OBVIOUS
<1>3. OneAt(j)
  BY DEF RqIInv, JobInv
<1>4. \A z \in S : \/ z = 1 /\ j \in DOMAIN ready
                   \/ z = 2 /\ j \in DOMAIN leased
                   \/ z = 3 /\ j \in dead
  <2>1. \A z \in 1..3 : z = 1 \/ z = 2 \/ z = 3
    OBVIOUS
  <2>2. /\ <<DOMAIN ready, DOMAIN leased, dead>>[1] = DOMAIN ready
        /\ <<DOMAIN ready, DOMAIN leased, dead>>[2] = DOMAIN leased
        /\ <<DOMAIN ready, DOMAIN leased, dead>>[3] = dead
    OBVIOUS
  <2>3. \A z \in S : z \in 1..3 /\ j \in <<DOMAIN ready, DOMAIN leased, dead>>[z]
    BY <1>1
  <2> QED BY <2>1, <2>2, <2>3
<1>5. \A y, z \in S : y = z
  BY <1>3, <1>4 DEF OneAt
<1>6. ASSUME NEW p \in C PROVE p \in Callers /\ Grips(p, j)
  <2>1. /\ p \in Callers /\ call[p].op \in Claims /\ call[p].todo # <<>> /\ Job(p) = j
        /\ Head(call[p].route) \notin {"unready", "unlease", "undead"}
    BY <1>2 DEF Claimed
  <2>2. Before(call[p].op) \subseteq {"unready", "unlease", "undead"}
    BY <2>1 DEF Before, Claims, Settles
  <2> QED BY <2>1, <2>2 DEF Grips, Acting, On, Op
<1>7. \A p, q \in C : p = q
  BY <1>3, <1>6 DEF OneAt
<1>8. C # {} => S = {}
  BY <1>3, <1>4, <1>6 DEF OneAt, InNone
<1>9. /\ Cardinality(S) = 0 \/ (Cardinality(S) = 1 /\ S # {})
      /\ Cardinality(C) = 0 \/ (Cardinality(C) = 1 /\ C # {})
  BY <1>5, <1>7, OneOrNone
<1>10. Cardinality(S) + Cardinality(C) <= 1
  BY <1>8, <1>9, FS_EmptySet
<1> QED BY <1>1, <1>2, <1>10

\* The store's records keep their shapes, and a row is in one index or with one
\* claimant: a zrem that answers 1 is an exclusive claim, whatever the callers'
\* store calls interleave with and wherever one of them is cut short.
THEOREM RqCoherence == ASSUME Peaceful PROVE Spec => []IndexCoherent
<1>1. RqIInv => IndexCoherent
  BY OnePlaceIs DEF IndexCoherent, RqIInv, Typed
<1> QED BY <1>1, RqInductive, PTL

\* A lease under which a body may run has its job's slot.
LEMMA RunningHolds ==
    ASSUME RqIInv, NEW l \in Running
    PROVE  /\ l \in Jobs \X Tokens /\ blob[l[1]].token = l[2]
           /\ Serial(l[1]) => SlotOf(l[1]).job = l[1]
<1>1. l \in held \union UNION {call[p].got : p \in Callers} /\ blob[l[1]].token = l[2]
  BY DEF Running, Current
<1>2. held \subseteq Jobs \X Tokens /\ \A p \in Callers : call[p].got \in SUBSET (Jobs \X Tokens)
  BY DEF RqIInv, Typed, TypeOKR, Calls
<1>3. CASE l \in held
  <2>1. PICK j \in Jobs, t \in Tokens : l = <<j, t>>
    BY <1>2, <1>3
  <2>2. Holds(j, leased[j])
    BY <1>3, <2>1 DEF RqIInv, JobInv, SlotAt
  <2> QED BY <1>1, <2>1, <2>2 DEF Holds
<1>4. CASE l \notin held
  <2>1. PICK p \in Callers : l \in call[p].got
    BY <1>1, <1>4
  <2>2. PICK j \in Jobs, t \in Tokens : l = <<j, t>>
    BY <1>2, <2>1
  <2>3. Holds(j, IF j \in DOMAIN leased THEN leased[j] ELSE 1)
    BY <2>1, <2>2 DEF RqIInv, JobInv, SlotAt
  <2> QED BY <1>1, <2>2, <2>3 DEF Holds
<1> QED BY <1>3, <1>4

\* One instance of a serial job in the fleet, whatever its slot goes through:
\* the slot of claim_serial lasts at least as long as the lease it stands for,
\* because the claim comes before the lease is entered, a renewal extends the
\* slot before the lease, and release_serial compares the job's id.
THEOREM RqSerial == ASSUME Peaceful PROVE Spec => []SerialOneHolder
<1>1. ASSUME RqIInv PROVE SerialOneHolder
  <2> SUFFICES ASSUME NEW l \in Running, NEW k \in Running, SameSerial(l[1], k[1])
               PROVE  l = k
    BY DEF SerialOneHolder
  <2>1. /\ l \in Jobs \X Tokens /\ blob[l[1]].token = l[2]
        /\ Serial(l[1]) => SlotOf(l[1]).job = l[1]
    BY <1>1, RunningHolds
  <2>2. /\ k \in Jobs \X Tokens /\ blob[k[1]].token = k[2]
        /\ Serial(k[1]) => SlotOf(k[1]).job = k[1]
    BY <1>1, RunningHolds
  <2>3. Serial(l[1]) /\ Serial(k[1]) /\ SlotOf(l[1]) = SlotOf(k[1])
    BY DEF SameSerial, Serial, SlotOf
  <2>4. l[1] = k[1] /\ l[2] = k[2]
    BY <2>1, <2>2, <2>3
  <2> QED BY <2>1, <2>2, <2>4
<1>2. RqIInv => SerialOneHolder
  BY <1>1
<1> QED BY <1>2, RqInductive, PTL

-----------------------------------------------------------------------------
(* What a store call makes of its call *)

\* The call is done with its row, not in the middle of a settle; or it goes on, and
\* only a load changes the copy, and only a save what was got.
Effect(p) ==
    \/ Quits(p) /\ (On(p) \in Last \/ Op(p) \in Claims \union {"push"})
    \/ /\ On(p) \notin Last
       /\ \E copy, got : /\ Onward(p, Then(Op(p), Job(p), On(p)), copy, got)
                         /\ On(p) # "load" => copy = call[p].copy
                         /\ On(p) # "save" => got = call[p].got
    \/ /\ Op(p) = "pull" /\ On(p) = "slot"
       /\ Onward(p, "enqueue", call[p].copy, call[p].got)

LEMMA GoesOnEffect ==
    ASSUME Typed, NEW p \in Callers, Acting(p), GoesOn(p) PROVE Effect(p)
BY GoesOnIs DEF Effect

LEMMA RemovedEffect ==
    ASSUME Typed, NEW p \in Callers, Acting(p), NEW members, Removed(p, members) PROVE Effect(p)
<1>1. CASE call[p].op \in Claims /\ Job(p) \notin members
  <2>1. Quits(p)
    BY <1>1, QuitsIs DEF Removed
  <2> QED BY <1>1, <2>1 DEF Effect, Op
<1>2. CASE ~(call[p].op \in Claims /\ Job(p) \notin members)
  BY <1>2, GoesOnEffect DEF Removed
<1> QED BY <1>1, <1>2

\* What a load writes into the copy.
LEMMA LoadEffect ==
    ASSUME RqIInv, NEW p \in Callers, "cancel" \notin Ops, Load(p)
    PROVE  /\ Acting(p) /\ On(p) = "load" /\ Op(p) \in OpNames \ {"push", "discard"}
           /\ \E c \in Updated(Op(p), blob[Job(p)]) :
                 Onward(p, Then(Op(p), Job(p), "load"), c, call[p].got)
<1>1. At(p, "load")
  BY DEF Load
<1>2. PICK k : k = Job(p)
  OBVIOUS
<1>3. /\ Typed /\ Acting(p) /\ On(p) = "load" /\ call[p].op = Op(p)
      /\ blob[k] \in Held /\ Op(p) \in OpNames /\ "load" \in Makes(Op(p))
  BY <1>1, <1>2, Standing
<1>4. Op(p) \in OpNames \ {"push", "discard"}
  BY <1>3 DEF OpNames, Makes
<1>5. PICK c \in Updated(Op(p), blob[k]) : Becomes(p, [OneOn(call[p]) EXCEPT !.copy = c])
  <2>1. Proceeds(call[p], blob[Job(p)])
    BY <1>1, Proceeding
  <2> QED BY <1>2, <1>3, <2>1 DEF Load
<1>6. c \in Held
  BY <1>3, <1>4, <1>5, UpdatedIs
<1>7. Onward(p, Then(Op(p), Job(p), "load"), c, call[p].got)
  BY <1>1, <1>3, <1>5, <1>6, LoadIs
<1> QED BY <1>2, <1>3, <1>4, <1>5, <1>7

LEMMA SaveEffect ==
    ASSUME RqIInv, NEW p \in Callers, Save(p), NEW k, k = Job(p)
    PROVE  /\ Acting(p) /\ On(p) = "save"
           /\ Onward(p, Then(Op(p), k, "save"), call[p].copy,
                     IF Op(p) = "pull" THEN call[p].got \union {<<k, call[p].copy.token>>}
                     ELSE call[p].got)
           /\ call[p].copy \in Held /\ blob' = [blob EXCEPT ![k] = call[p].copy]
           /\ finished' = IF Op(p) = "ack" THEN finished \union {k} ELSE finished
           /\ k \in Jobs /\ Op(p) \in OpNames /\ "save" \in Makes(Op(p)) /\ Typed
           /\ JobInv(k) /\ Says(call[p], "save", blob[k], k \in finished)
<1>1. /\ At(p, "save")
      /\ blob' = [blob EXCEPT ![Job(p)] = call[p].copy]
      /\ finished' = IF call[p].op = "ack" THEN finished \union {Job(p)} ELSE finished
      /\ Becomes(p, OneOn(IF call[p].op = "pull"
                          THEN [call[p] EXCEPT !.got = @ \union {<<Job(p), call[p].copy.token>>}]
                          ELSE call[p]))
  BY DEF Save
<1>2. /\ Typed /\ Acting(p) /\ On(p) = "save" /\ k \in Jobs /\ call[p].op = Op(p)
      /\ Op(p) \in OpNames /\ "save" \in Makes(Op(p)) /\ JobInv(k)
      /\ Says(call[p], "save", blob[k], k \in finished)
  BY <1>1, Standing
<1>3. call[p].copy \in Held
  BY <1>2, InFlight
<1>4. CASE Op(p) = "pull"
  <2>1. Runs(call[p].copy)
    BY <1>1, <1>4, Saves
  <2>2. PICK t \in Tokens : t = call[p].copy.token
    BY <1>3, <2>1 DEF Runs, Held
  <2>3. Becomes(p, OneOn([call[p] EXCEPT !.got = @ \union {<<Job(p), t>>}]))
    BY <1>1, <1>2, <1>4, <2>2
  <2>4. Onward(p, "lease", call[p].copy, call[p].got \union {<<Job(p), t>>})
    BY <1>1, <1>2, <1>4, <2>3, SaveIs
  <2>5. Then(Op(p), k, "save") = "lease"
    BY <1>4 DEF Then, Settles
  <2> QED BY <1>1, <1>2, <1>3, <1>4, <2>2, <2>4, <2>5
<1>5. CASE Op(p) # "pull"
  <2>1. GoesOn(p)
    BY <1>1, <1>2, <1>5 DEF GoesOn
  <2>2. Onward(p, Then(Op(p), k, "save"), call[p].copy, call[p].got)
    BY <1>2, <2>1, GoesOnIs DEF Last
  <2> QED BY <1>1, <1>2, <1>3, <1>5, <2>2
<1> QED BY <1>4, <1>5

LEMMA StoreEffect ==
    ASSUME RqIInv, "cancel" \notin Ops, NEW p \in Callers, StoreCall(p)
    PROVE  Acting(p) /\ Effect(p)
<1>1. Typed
  BY DEF RqIInv
<1>2. CASE Mark(p)
  <2>1. At(p, "mark")
    BY <1>2 DEF Mark
  <2>2. Acting(p) /\ Op(p) \in OpNames /\ "mark" \in Makes(Op(p))
    BY <2>1, Standing
  <2>3. Op(p) = "push"
    BY <2>2 DEF Makes, OpNames
  <2>4. CASE Becomes(p, Idle)
    BY <1>1, <2>2, <2>3, <2>4, TwiceIs DEF Effect
  <2>5. CASE GoesOn(p)
    BY <1>1, <2>2, <2>5, GoesOnEffect
  <2> QED BY <1>2, <2>2, <2>4, <2>5 DEF Mark
<1>3. CASE Unmark(p) \/ Erase(p) \/ Enqueue(p) \/ Lease(p) \/ Bury(p) \/ ReleaseSerial(p) \/ ExtendSerial(p)
  <2>1. (\E storeCall : At(p, storeCall)) /\ GoesOn(p)
    BY <1>3 DEF Unmark, Erase, Enqueue, Lease, Bury, ReleaseSerial, ExtendSerial
  <2> QED BY <1>1, <2>1, AtIs, GoesOnEffect
<1>4. CASE Load(p)
  <2>1. Acting(p) /\ On(p) = "load" /\ "load" \notin Last
    BY <1>4, LoadEffect DEF Last
  <2> QED BY <1>4, <2>1, LoadEffect DEF Effect
<1>5. CASE Save(p)
  <2>1. Acting(p) /\ On(p) = "save" /\ "save" \notin Last
    BY <1>5, SaveEffect DEF Last
  <2>2. PICK k : k = Job(p)
    OBVIOUS
  <2>3. \E got : Onward(p, Then(Op(p), Job(p), On(p)), call[p].copy, got)
    BY <1>5, <2>1, <2>2, SaveEffect
  <2> QED BY <2>1, <2>3 DEF Effect
<1>6. CASE Unready(p) \/ Unlease(p) \/ Undead(p)
  <2>1. (\E storeCall : At(p, storeCall)) /\ \E members : Removed(p, members)
    BY <1>6 DEF Unready, Unlease, Undead
  <2> QED BY <1>1, <2>1, AtIs, RemovedEffect
<1>7. CASE ClaimSerial(p)
  <2>1. At(p, "slot")
    BY <1>7 DEF ClaimSerial
  <2>2. Acting(p) /\ On(p) = "slot" /\ Op(p) \in OpNames /\ "slot" \in Makes(Op(p))
    BY <2>1, Standing
  <2>3. Op(p) = "pull"
    BY <2>2 DEF Makes, OpNames
  <2>4. CASE Becomes(p, [call[p] EXCEPT !.route = <<"enqueue">>])
    BY <1>1, <2>2, <2>3, <2>4, BackIs DEF Effect
  <2>5. CASE GoesOn(p)
    BY <1>1, <2>2, <2>5, GoesOnEffect
  <2> QED BY <1>7, <2>2, <2>4, <2>5 DEF ClaimSerial
<1> QED BY <1>2, <1>3, <1>4, <1>5, <1>6, <1>7 DEF StoreCall

-----------------------------------------------------------------------------
(* The markers *)

LEMMA MarkedInit == ASSUME Init PROVE Marked
<1>1. DOMAIN ready = {} /\ DOMAIN leased = {}
  BY DEF Init
<1>2. \A q \in Callers : ~Acting(q)
  BY DEF Init, Acting, Idle
<1> QED BY <1>1, <1>2 DEF Marked, Owns, Grips

\* Nobody comes to stand for a key.
LEMMA MarkedKept ==
    ASSUME Marked, uniq' = uniq, \A j \in Jobs : Keyed(j) /\ Owns(j)' => Owns(j)
    PROVE  Marked'
BY DEF Marked, SameKey, Keyed

\* p is the only one whose call changes.
LEMMA OwnsOf ==
    ASSUME NEW p \in Callers, \A q \in Callers \ {p} : call'[q] = call[q],
           NEW j \in Jobs,
           j \in DOMAIN ready' \union DOMAIN leased' => Owns(j),
           Grips(p, j)' /\ Keeps(Op(p)', On(p)') => Owns(j),
           Owns(j)'
    PROVE  Owns(j)
<1>1. CASE \E q \in Callers \ {p} : Grips(q, j)' /\ Keeps(Op(q)', On(q)')
  <2>1. PICK q \in Callers \ {p} : Grips(q, j)' /\ Keeps(Op(q)', On(q)')
    BY <1>1
  <2>2. Grips(q, j) /\ Op(q)' = Op(q) /\ On(q)' = On(q)
    BY <2>1, SameCall
  <2> QED BY <2>1, <2>2 DEF Owns
<1>2. Keeps(Op(p), On(p))' <=> Keeps(Op(p)', On(p)')
  BY DEF Keeps
<1>3. \A q \in Callers : Keeps(Op(q), On(q))' <=> Keeps(Op(q)', On(q)')
  BY DEF Keeps
<1> QED BY <1>1, <1>3 DEF Owns

\* Starting a call takes no row.
LEMMA StartOwns ==
    ASSUME Typed, NEW p \in Callers, NEW op \in OpNames, NEW todo, NEW record \in Calls,
           Starts(p, op, todo, record)
    PROVE  uniq' = uniq /\ \A j \in Jobs : Keyed(j) /\ Owns(j)' => Owns(j)
<1>1. /\ uniq' = uniq /\ ready' = ready /\ leased' = leased
      /\ call' = [call EXCEPT ![p] = [record EXCEPT !.op = op, !.todo = todo,
                                                    !.route = Route(op, todo[1])]]
  BY DEF Starts, indexes
<1>2. /\ call'[p] = [record EXCEPT !.op = op, !.todo = todo, !.route = Route(op, todo[1])]
      /\ \A q \in Callers \ {p} : call'[q] = call[q]
  BY <1>1 DEF Typed
<1>3. call'[p].op = op /\ call'[p].todo = todo /\ call'[p].route = Route(op, todo[1])
  BY <1>2 DEF Calls
<1>4. ASSUME NEW j \in Jobs, Keyed(j), Grips(p, j)', Keeps(Op(p)', On(p)') PROVE FALSE
  <2>1. todo[1] = j /\ On(p)' = Head(Route(op, j)) /\ Op(p)' = op
    BY <1>3, <1>4 DEF Grips, Job, On, Op
  <2>2. On(p)' = First(op, j)
    BY <2>1, Routes
  <2>3. First(op, j) \notin Before(op)
    BY <1>4, <2>1, <2>2 DEF Grips
  <2>4. op = "push" /\ First(op, j) = "mark"
    BY <1>4, <2>3 DEF First, Before, Settles, OpNames
  <2> QED BY <1>4, <2>1, <2>2, <2>4 DEF Keeps
<1>5. ASSUME NEW j \in Jobs, Keyed(j), Owns(j)' PROVE Owns(j)
  <2>1. j \in DOMAIN ready' \union DOMAIN leased' => Owns(j)
    BY <1>1 DEF Owns
  <2> QED BY <1>2, <1>4, <1>5, <2>1, OwnsOf
<1> QED BY <1>1, <1>5

\* A settle takes its lease from its client; the others leave the leases alone.
Hands(op, todo, record) ==
    \/ op \notin Settles /\ held' = held
    \/ op \in Settles /\ \E l \in held : todo = <<l[1]>> /\ record.token = l[2] /\ held' = held \ {l}

LEMMA RangesSeq ==
    ASSUME DOMAIN ready \subseteq Jobs, DOMAIN leased \subseteq Jobs
    PROVE  /\ Expired \subseteq Seq(Jobs)
           /\ \A limit \in 1..Cardinality(Jobs) : Candidates(limit) \subseteq Seq(Jobs)
<1>1. Cardinality(Jobs) \in Nat
  BY JobAssumption, FS_CardinalityType
<1>2. Expired \subseteq Seq(Jobs)
  BY <1>1, RangesIs DEF Expired
<1>3. ASSUME NEW limit \in 1..Cardinality(Jobs) PROVE Candidates(limit) \subseteq Seq(Jobs)
  <2>1. PICK z : z = [j \in DOMAIN ready |-> Score(j)]
    OBVIOUS
  <2>2. DOMAIN z \subseteq Jobs /\ limit \in Nat
    BY <1>1, <2>1
  <2> QED BY <2>1, <2>2, RangesIs DEF Candidates
<1> QED BY <1>2, <1>3

\* What a call starts with.
LEMMA BeginCalls ==
    ASSUME DOMAIN ready \subseteq Jobs, DOMAIN leased \subseteq Jobs, dead \subseteq Jobs,
           held \subseteq Jobs \X Tokens, NEW p \in Callers, Begin(p)
    PROVE  \E op \in OpNames \union {"cancel"}, record \in Calls : \E todo \in Seq(Jobs) :
              record.got = {} /\ Starts(p, op, todo, record) /\ Hands(op, todo, record)
<1>0. ASSUME NEW op \in OpNames \union {"cancel"}, NEW record \in Calls, NEW todo \in Seq(Jobs),
             record.got = {}, Starts(p, op, todo, record), Hands(op, todo, record)
      PROVE  \E o \in OpNames \union {"cancel"}, r \in Calls : \E t \in Seq(Jobs) :
                r.got = {} /\ Starts(p, o, t, r) /\ Hands(o, t, r)
  BY <1>0
<1>1. CASE \E j \in Jobs, delay \in 0..MaxDelay : Push(p, j, delay)
  <2>1. PICK j \in Jobs, delay \in 0..MaxDelay : Push(p, j, delay)
    BY <1>1
  <2>2. PICK c : c = [state |-> "ready", attempt |-> 1, runIn |-> delay, token |-> NoToken]
    OBVIOUS
  <2>3. c \in Held
    BY <2>2 DEF Held, Active, Waiting
  <2>4. PICK g : g = [Idle EXCEPT !.copy = c]
    OBVIOUS
  <2>5. g \in Calls /\ g.got = {}
    BY <2>3, <2>4, IdleCopy
  <2>6. Starts(p, "push", <<j>>, g) /\ held' = held /\ <<j>> \in Seq(Jobs)
    BY <2>1, <2>2, <2>4 DEF Push
  <2>7. Hands("push", <<j>>, g) /\ "push" \in OpNames
    BY <2>6 DEF OpNames, Hands, Settles
  <2> QED BY <1>0, <2>5, <2>6, <2>7
<1>2. CASE Pull(p)
  <2>1. PICK todo \in Seq(Jobs) : Starts(p, "pull", todo, [Idle EXCEPT !.until = LeaseLen])
    BY <1>2, RangesSeq DEF Pull
  <2>2. PICK g : g = [Idle EXCEPT !.until = LeaseLen]
    OBVIOUS
  <2>3. g \in Calls /\ g.got = {}
    BY <2>2, IdleUntil, NoBlobIs
  <2>4. Starts(p, "pull", todo, g)
    BY <2>1, <2>2
  <2>5. Hands("pull", todo, g) /\ "pull" \in OpNames
    BY <1>2 DEF Pull, OpNames, Hands, Settles
  <2> QED BY <1>0, <2>3, <2>4, <2>5
<1>3. CASE Reclaim(p) \/ Operate(p)
  <2>1. held' = held /\ \E op \in {"reclaim", "retry", "discard"} : \E todo \in Seq(Jobs) :
                              Starts(p, op, todo, Idle)
    <3>1. CASE Reclaim(p)
      <4>1. held' = held /\ \E todo \in Seq(Jobs) : Starts(p, "reclaim", todo, Idle)
        BY <3>1, RangesSeq DEF Reclaim
      <4> QED BY <4>1
    <3>2. CASE Operate(p)
      <4>1. PICK j \in dead : \E op \in {"retry", "discard"} : Starts(p, op, <<j>>, Idle)
        BY <3>2 DEF Operate
      <4>2. <<j>> \in Seq(Jobs) /\ held' = held
        BY <3>2, <4>1 DEF Operate
      <4> QED BY <4>1, <4>2
    <3> QED BY <1>3, <3>1, <3>2
  <2>2. PICK op \in {"reclaim", "retry", "discard"} : \E todo \in Seq(Jobs) : Starts(p, op, todo, Idle)
    BY <2>1
  <2>3. op \in OpNames /\ op \notin Settles
    BY DEF OpNames, Settles
  <2>4. PICK g \in Calls : g = Idle /\ g.got = {}
    BY IdleIs
  <2> QED BY <2>1, <2>2, <2>3, <2>4 DEF Hands
<1>4. CASE \E l \in held : Heartbeat(p, l)
  <2>1. PICK l \in held : Heartbeat(p, l)
    BY <1>4
  <2>2. l[1] \in Jobs /\ l[2] \in Tokens \union {NoToken}
    OBVIOUS
  <2>3. PICK f : f = [Idle EXCEPT !.token = l[2]]
    OBVIOUS
  <2>4. f \in Calls /\ f.got = {}
    BY <2>2, <2>3, IdleToken
  <2>5. PICK g : g = [Idle EXCEPT !.token = l[2], !.until = LeaseLen]
    OBVIOUS
  <2>6. g = [f EXCEPT !.until = LeaseLen]
    BY <2>3, <2>5
  <2>7. g \in Calls /\ g.got = {}
    BY <2>4, <2>6, NoBlobIs DEF Calls
  <2>8. Starts(p, "heartbeat", <<l[1]>>, g) /\ held' = held /\ <<l[1]>> \in Seq(Jobs)
    BY <2>1, <2>2, <2>5 DEF Heartbeat
  <2>9. Hands("heartbeat", <<l[1]>>, g) /\ "heartbeat" \in OpNames
    BY <2>8 DEF OpNames, Hands, Settles
  <2> QED BY <1>0, <2>7, <2>8, <2>9
<1>5. CASE \E l \in held, op \in Settles : Settle(p, l, op)
  <2>1. PICK l \in held, op \in Settles : Settle(p, l, op)
    BY <1>5
  <2>2. l[1] \in Jobs /\ l[2] \in Tokens \union {NoToken}
    OBVIOUS
  <2>3. PICK f : f = [Idle EXCEPT !.token = l[2]]
    OBVIOUS
  <2>4. f \in Calls /\ f.got = {} /\ f.token = l[2]
    BY <2>2, <2>3, IdleToken
  <2>5. op \in OpNames
    BY DEF Settles, OpNames
  <2>6. Starts(p, op, <<l[1]>>, f) /\ held' = held \ {l} /\ <<l[1]>> \in Seq(Jobs)
    BY <2>1, <2>2, <2>3 DEF Settle
  <2>7. Hands(op, <<l[1]>>, f)
    BY <2>4, <2>6 DEF Hands
  <2> QED BY <2>4, <2>5, <2>6, <2>7
<1>6. CASE \E j \in Jobs : Cancel(p, j)
  <2>1. PICK j \in Jobs : Cancel(p, j)
    BY <1>6
  <2>2. Starts(p, "cancel", <<j>>, Idle) /\ held' = held /\ <<j>> \in Seq(Jobs)
    BY <2>1 DEF Cancel
  <2>3. PICK g \in Calls : g = Idle /\ g.got = {}
    BY IdleIs
  <2>4. Hands("cancel", <<j>>, g)
    BY <2>2 DEF Hands, Settles
  <2> QED BY <1>0, <2>2, <2>3, <2>4
<1> QED BY <1>1, <1>2, <1>3, <1>4, <1>5, <1>6 DEF Begin

LEMMA BeginStarts ==
    ASSUME Typed, Peaceful, NEW p \in Callers, Begin(p)
    PROVE  \E op \in OpNames, record \in Calls : \E todo :
              record.got = {} /\ Starts(p, op, todo, record) /\ Hands(op, todo, record)
<1>1. PICK op \in OpNames \union {"cancel"}, record \in Calls : \E todo \in Seq(Jobs) :
              record.got = {} /\ Starts(p, op, todo, record) /\ Hands(op, todo, record)
  BY BeginCalls DEF Typed, TypeOKR
<1>2. op # "cancel"
  BY <1>1 DEF Starts, Peaceful
<1> QED BY <1>1, <1>2

LEMMA BeginOwns ==
    ASSUME Typed, Peaceful, NEW p \in Callers, Begin(p)
    PROVE  uniq' = uniq /\ \A j \in Jobs : Keyed(j) /\ Owns(j)' => Owns(j)
<1>1. PICK op \in OpNames, record \in Calls : \E todo : Starts(p, op, todo, record)
  BY BeginStarts
<1> QED BY <1>1, StartOwns

\* What a call keeps is not new with the store call that comes next.
LEMMA KeepsOn ==
    ASSUME NEW op \in OpNames, NEW j \in Jobs, NEW on \in Makes(op), Keyed(j),
           on \notin Last, on # "mark", on \notin Before(op), Keeps(op, Then(op, j, on))
    PROVE  Keeps(op, on)
<1>1. CASE op \in {"push", "pull", "reclaim", "nack"}
  BY <1>1 DEF Keeps
<1>2. CASE op = "ack"
  <2>1. on \in {"unmark", "unslot", "save"}
    BY <1>2 DEF Makes, Before, Settles, Last
  <2> QED BY <1>2, <2>1 DEF Keeps, Then, Settles
<1>3. CASE op = "nack dead"
  <2>1. on \in {"unmark", "unslot", "save"}
    BY <1>3 DEF Makes, Before, Settles, Last
  <2> QED BY <1>3, <2>1 DEF Keeps, Then, Settles
<1>4. CASE op \in {"heartbeat", "retry", "discard"}
  BY <1>4 DEF Keeps
<1> QED BY <1>1, <1>2, <1>3, <1>4 DEF OpNames

\* The row p is about to take out of a set is in it, whatever p is.
LEMMA TakesOwned ==
    ASSUME RqIInv, Peaceful, NEW p \in Callers, Acting(p), StoreCall(p), NEW k, k = Job(p),
           On(p) \in Before(Op(p)), Grips(p, k)', On(p) # "mark",
           Onward(p, Then(Op(p), k, On(p)), call'[p].copy, call'[p].got), Keeps(Op(p)', On(p)')
    PROVE  Owns(k)
<1>1. /\ Typed /\ k \in Jobs /\ JobInv(k) /\ Op(p) \in OpNames /\ On(p) \in Makes(Op(p))
  BY InFlight DEF RqIInv
<1>2. Op(p)' = Op(p) /\ On(p)' = Then(Op(p), k, On(p)) /\ call'[p].todo = call[p].todo
  BY DEF Onward
<1>3. Op(p) \in {"pull", "reclaim"} \union Settles
  BY <1>1, <1>2 DEF Keeps, Before, OpNames, Settles
<1>4. CASE Op(p) = "pull"
  <2>1. On(p) = "unready"
    BY <1>4 DEF Before, Settles
  <2>2. At(p, "unready")
    BY <1>1, <2>1, InFlight DEF At, On
  <2>3. Unready(p)
    BY <2>1 DEF StoreCall, Mark, Unmark, Load, Save, Erase, Enqueue, Lease, Bury, Unready,
                Unlease, Undead, ClaimSerial, ReleaseSerial, ExtendSerial, At, On
  <2>4. k \notin DOMAIN ready => Quits(p)
    <3>1. ASSUME k \notin DOMAIN ready PROVE Becomes(p, NextMember(call[p]))
      BY <1>4, <2>3, <3>1 DEF Unready, Removed, Claims, Op
    <3> QED BY <1>1, <3>1, QuitsIs
  <2>5. k \notin DOMAIN ready => ~Grips(p, k)'
    BY <1>1, <2>4, OverNow
  <2> QED BY <2>5 DEF Owns
<1>5. CASE Op(p) = "reclaim"
  <2>1. On(p) = "unlease"
    BY <1>5 DEF Before, Settles
  <2>3. Unlease(p)
    BY <2>1 DEF StoreCall, Mark, Unmark, Load, Save, Erase, Enqueue, Lease, Bury, Unready,
                Unlease, Undead, ClaimSerial, ReleaseSerial, ExtendSerial, At, On
  <2>4. k \notin DOMAIN leased => Quits(p)
    <3>1. ASSUME k \notin DOMAIN leased PROVE Becomes(p, NextMember(call[p]))
      BY <1>5, <2>3, <3>1 DEF Unlease, Removed, Claims, Op
    <3> QED BY <1>1, <3>1, QuitsIs
  <2>5. k \notin DOMAIN leased => ~Grips(p, k)'
    BY <1>1, <2>4, OverNow
  <2> QED BY <2>5 DEF Owns
<1>6. CASE Op(p) \in Settles
  <2>1. On(p) \in {"load", "unlease"}
    BY <1>6 DEF Before, Settles
  <2>2. Answers(p)
    BY <1>6, <2>1 DEF Answers, Last
  <2>3. Alive(k, call[p].token)
    BY <1>1, <2>1, <2>2 DEF JobInv, LeaseAt
  <2> QED BY <2>3 DEF Alive, Owns
<1> QED BY <1>3, <1>4, <1>5, <1>6

\* No store call but the marker's own brings a row to stand for its key.
LEMMA StoreOwns ==
    ASSUME RqIInv, Peaceful, NEW p \in Callers, StoreCall(p), "retry" \notin Ops
    PROVE  \A j \in Jobs : Keyed(j) /\ Owns(j)' /\ (j = Job(p) => On(p) # "mark") => Owns(j)
<1>1. Acting(p) /\ Effect(p) /\ Typed
  BY StoreEffect DEF Peaceful, RqIInv
<1>2. PICK k : k = Job(p)
  OBVIOUS
<1>3. /\ k \in Jobs /\ JobInv(k) /\ Op(p) \in OpNames /\ On(p) \in Makes(Op(p)) /\ Op(p) \in Ops
  BY <1>1, <1>2, InFlight DEF RqIInv
<1>4. Others(p)
  BY <1>1 DEF Effect, Onward, Quits
<1>5. ASSUME NEW j \in Jobs, Keyed(j), Grips(p, j)', Keeps(Op(p)', On(p)'), On(p) # "mark"
      PROVE  Owns(j)
  <2>1. ~Quits(p)
    BY <1>1, <1>5, OverNow
  <2>2. CASE /\ On(p) \notin Last
             /\ Onward(p, Then(Op(p), Job(p), On(p)), call'[p].copy, call'[p].got)
    <3>1. Op(p)' = Op(p) /\ On(p)' = Then(Op(p), k, On(p)) /\ Job(p)' = k
      BY <1>2, <2>2 DEF Onward
    <3>2. j = k
      BY <1>5, <3>1 DEF Grips
    <3>3. CASE On(p) \notin Before(Op(p))
      <4>1. Keeps(Op(p), On(p))
        BY <1>3, <1>5, <2>2, <3>1, <3>2, <3>3, KeepsOn
      <4>2. Grips(p, k)
        BY <1>1, <1>2, <3>3 DEF Grips
      <4> QED BY <3>2, <4>1, <4>2 DEF Owns
    <3>4. CASE On(p) \in Before(Op(p))
      BY <1>1, <1>2, <1>5, <2>2, <3>2, <3>4, TakesOwned
    <3> QED BY <3>3, <3>4
  <2>3. CASE Op(p) = "pull" /\ On(p) = "slot" /\ Onward(p, "enqueue", call[p].copy, call[p].got)
    <3>1. j = k
      BY <1>2, <1>5, <2>3 DEF Onward, Grips
    <3>2. Grips(p, k)
      BY <1>1, <1>2, <2>3 DEF Grips, Before
    <3> QED BY <2>3, <3>1, <3>2 DEF Owns, Keeps
  <2>4. \A on, copy, got : Onward(p, on, copy, got) => copy = call'[p].copy /\ got = call'[p].got
    BY DEF Onward
  <2> QED BY <1>1, <2>1, <2>2, <2>3, <2>4 DEF Effect
<1>6. ASSUME NEW j \in Jobs, j \in DOMAIN ready' \union DOMAIN leased' PROVE Owns(j)
  <2>1. CASE Enqueue(p)
    <3>1. /\ DOMAIN ready' = DOMAIN ready \union {k} /\ leased' = leased /\ On(p) = "enqueue"
      BY <1>2, <2>1 DEF Enqueue, Zadd, At, On
    <3>2. Op(p) \in {"push", "pull", "nack", "reclaim"}
      BY <1>3, <3>1 DEF Makes, OpNames
    <3>3. Grips(p, k)
      BY <1>1, <1>2, <3>1, <3>2 DEF Grips, Before, Settles
    <3>4. Keeps(Op(p), On(p))
      BY <3>1, <3>2 DEF Keeps
    <3> QED BY <1>6, <3>1, <3>3, <3>4 DEF Owns
  <2>2. CASE Lease(p)
    <3>1. /\ DOMAIN leased' = DOMAIN leased \union {k} /\ ready' = ready /\ On(p) = "lease"
      BY <1>2, <2>2 DEF Lease, Zadd, At, On
    <3>2. Op(p) \in {"pull", "heartbeat"}
      BY <1>3, <3>1 DEF Makes, OpNames
    <3>3. CASE Op(p) = "pull"
      <4>1. Grips(p, k) /\ Keeps(Op(p), On(p))
        BY <1>1, <1>2, <3>1, <3>3 DEF Grips, Before, Keeps
      <4> QED BY <1>6, <3>1, <4>1 DEF Owns
    <3>4. CASE Op(p) = "heartbeat"
      <4>1. Lease1(p) \in held /\ Lease1(p) = <<k, call[p].token>>
        BY <1>1, <1>2, <1>3, <3>4 DEF JobInv, LeaseAt, Lease1
      <4>2. call[p].token \in Tokens
        BY <1>1, <4>1 DEF Typed, TypeOKR
      <4>3. k \in DOMAIN leased
        BY <1>3, <4>1, <4>2 DEF JobInv, LeaseAt, Alive
      <4> QED BY <1>6, <3>1, <4>3 DEF Owns
    <3> QED BY <3>2, <3>3, <3>4
  <2>3. CASE ~Enqueue(p) /\ ~Lease(p)
    <3>1. DOMAIN ready' \subseteq DOMAIN ready /\ DOMAIN leased' \subseteq DOMAIN leased
      BY <2>3 DEF StoreCall, Mark, Unmark, Load, Save, Erase, Bury, Unready,
                  Unlease, Undead, ClaimSerial, ReleaseSerial, ExtendSerial, indexes, Zrem
    <3> QED BY <1>6, <3>1 DEF Owns
  <2> QED BY <2>1, <2>2, <2>3
<1>7. ASSUME NEW j \in Jobs, Keyed(j), Owns(j)', j = Job(p) => On(p) # "mark" PROVE Owns(j)
  <2>1. CASE On(p) # "mark"
    BY <1>4, <1>5, <1>6, <1>7, <2>1, OwnsOf DEF Others
  <2>2. CASE On(p) = "mark"
    <3>1. Grips(p, j)' => j = Job(p)
      <4>1. Op(p) = "push"
        BY <1>3, <2>2 DEF Makes, OpNames
      <4>2. Quits(p) => ~Grips(p, j)'
        BY <1>1, OverNow
      <4> QED BY <1>1, <4>1, <4>2 DEF Effect, Onward, Grips
    <3>2. ~Grips(p, j)'
      BY <1>7, <2>2, <3>1
    <3> QED BY <1>4, <1>6, <1>7, <3>2, OwnsOf DEF Others
  <2> QED BY <2>1, <2>2
<1> QED BY <1>7

LEMMA MarkedMark ==
    ASSUME RqIInv, Peaceful, Marked, "retry" \notin Ops, NEW p \in Callers, Mark(p)
    PROVE  Marked'
<1>1. PICK k : k = Job(p)
  OBVIOUS
<1>2. /\ Typed /\ Acting(p) /\ On(p) = "mark" /\ k \in Jobs /\ Op(p) \in OpNames
      /\ "mark" \in Makes(Op(p))
  <2>1. At(p, "mark")
    BY DEF Mark
  <2> QED BY <1>1, <2>1, Standing
<1>3. StoreCall(p)
  BY DEF StoreCall
<1>4. ASSUME NEW j \in Jobs, Keyed(j), Owns(j)', j # k PROVE Owns(j)
  BY <1>1, <1>3, <1>4, StoreOwns
<1>5. CASE KeyOf[k] \in uniq
  <2>1. uniq' = uniq /\ Becomes(p, Idle)
    BY <1>1, <1>5 DEF Mark
  <2>2. Op(p) = "push"
    BY <1>2 DEF Makes, OpNames
  <2>3. Quits(p)
    BY <1>2, <2>1, <2>2, TwiceIs
  <2>4. ASSUME NEW j \in Jobs, Keyed(j), Owns(j)' PROVE Owns(j)
    <3>1. ~Grips(p, j)'
      BY <1>2, <2>3, OverNow
    <3>2. ready' = ready /\ leased' = leased
      BY DEF Mark, indexes
    <3> QED BY <2>3, <2>4, <3>1, <3>2, OwnsOf DEF Quits, Others, Owns
  <2> QED BY <2>1, <2>4, MarkedKept
<1>6. CASE KeyOf[k] \notin uniq
  <2>1. uniq' = uniq \union {KeyOf[k]}
    BY <1>1, <1>6 DEF Mark
  <2>2. ASSUME NEW j \in Jobs, Keyed(j), Owns(j)' PROVE j = k \/ (Owns(j) /\ KeyOf[j] # KeyOf[k])
    <3>1. j # k => Owns(j)
      BY <1>4, <2>2
    <3>2. Owns(j) => KeyOf[j] \in uniq
      BY <2>2 DEF Marked
    <3> QED BY <1>6, <3>1, <3>2
  <2>3. ASSUME NEW j \in Jobs, Keyed(j), Owns(j)' PROVE KeyOf[j] \in uniq'
    BY <2>1, <2>2, <2>3 DEF Marked
  <2>4. ASSUME NEW i \in Jobs, NEW j \in Jobs, SameKey(i, j), Owns(i)', Owns(j)' PROVE i = j
    <3>1. Keyed(i) /\ Keyed(j) /\ KeyOf[i] = KeyOf[j]
      BY <2>4 DEF SameKey, Keyed
    <3>2. i = k \/ (Owns(i) /\ KeyOf[i] # KeyOf[k])
      BY <2>2, <2>4, <3>1
    <3>3. j = k \/ (Owns(j) /\ KeyOf[j] # KeyOf[k])
      BY <2>2, <2>4, <3>1
    <3> QED BY <2>4, <3>1, <3>2, <3>3 DEF Marked
  <2> QED BY <2>3, <2>4 DEF Marked
<1> QED BY <1>5, <1>6

LEMMA MarkedUnmark ==
    ASSUME RqIInv, Peaceful, Marked, "retry" \notin Ops, NEW p \in Callers, Unmark(p)
    PROVE  Marked'
<1>1. PICK k : k = Job(p)
  OBVIOUS
<1>2. /\ Typed /\ Acting(p) /\ On(p) = "unmark" /\ k \in Jobs /\ Op(p) \in OpNames
      /\ "unmark" \in Makes(Op(p)) /\ JobInv(k)
  <2>1. At(p, "unmark")
    BY DEF Unmark
  <2> QED BY <1>1, <2>1, Standing
<1>3. Op(p) \in {"ack", "nack dead"}
  BY <1>2 DEF Makes, OpNames
<1>4. Grips(p, k) /\ Keeps(Op(p), On(p))
  BY <1>1, <1>2, <1>3 DEF Grips, Before, Settles, Keeps
<1>5. StoreCall(p) /\ uniq' = uniq \ {KeyOf[k]} /\ GoesOn(p) /\ ready' = ready /\ leased' = leased
  BY <1>1 DEF StoreCall, Unmark, indexes
<1>6. Onward(p, Then(Op(p), k, "unmark"), call[p].copy, call[p].got)
  BY <1>1, <1>2, <1>5, GoesOnIs DEF Last
<1>7. ~Owns(k)'
  <2>1. k \notin DOMAIN ready' \union DOMAIN leased'
    BY <1>2, <1>4, <1>5 DEF JobInv, OneAt, InNone
  <2>2. ASSUME NEW q \in Callers, Grips(q, k)', Keeps(Op(q)', On(q)') PROVE FALSE
    <3>1. CASE q = p
      <4>1. Op(p)' = Op(p) /\ On(p)' = Then(Op(p), k, "unmark")
        BY <1>6 DEF Onward
      <4>2. Then(Op(p), k, "unmark") \in {"unslot", "save"} /\ (Op(p) = "nack dead" => Then(Op(p), k, "unmark") = "save")
        BY <1>3 DEF Then, Settles
      <4> QED BY <1>3, <2>2, <3>1, <4>1, <4>2 DEF Keeps
    <3>2. CASE q # p
      <4>1. call'[q] = call[q]
        BY <1>6, <3>2 DEF Onward, Others
      <4>2. Grips(q, k)
        BY <1>2, <2>2, <4>1, SameCall
      <4> QED BY <1>2, <1>4, <3>2, <4>2 DEF JobInv, OneAt
    <3> QED BY <3>1, <3>2
  <2>3. \A q \in Callers : Keeps(Op(q), On(q))' <=> Keeps(Op(q)', On(q)')
    BY DEF Keeps
  <2> QED BY <2>1, <2>2, <2>3 DEF Owns
<1>8. ASSUME NEW j \in Jobs, Keyed(j), Owns(j)' PROVE Owns(j) /\ KeyOf[j] # KeyOf[k] /\ KeyOf[j] \in uniq'
  <2>1. Owns(j)
    BY <1>2, <1>5, <1>8, StoreOwns
  <2>2. Owns(k) /\ j # k
    BY <1>4, <1>7, <1>8 DEF Owns
  <2>3. KeyOf[j] # KeyOf[k]
    BY <1>2, <1>8, <2>1, <2>2 DEF Marked, SameKey
  <2>4. KeyOf[j] \in uniq
    BY <1>8, <2>1 DEF Marked
  <2> QED BY <1>5, <2>1, <2>3, <2>4
<1>9. \A i, j \in Jobs : SameKey(i, j) /\ Owns(i)' /\ Owns(j)' => i = j
  <2> SUFFICES ASSUME NEW i \in Jobs, NEW j \in Jobs, SameKey(i, j), Owns(i)', Owns(j)' PROVE i = j
    OBVIOUS
  <2>1. Keyed(i) /\ Keyed(j)
    BY DEF SameKey, Keyed
  <2>2. Owns(i) /\ Owns(j)
    BY <1>8, <2>1
  <2> QED BY <2>2 DEF Marked
<1> QED BY <1>8, <1>9 DEF Marked

LEMMA MarkedStep ==
    ASSUME RqIInv, Peaceful, Marked, "retry" \notin Ops, [Next]_vars
    PROVE  Marked'
<1>1. Typed
  BY DEF RqIInv
<1>2. ASSUME NEW p \in Callers, Begin(p) PROVE Marked'
  BY <1>1, <1>2, BeginOwns, MarkedKept
<1>3. ASSUME NEW p \in Callers, StoreCall(p) PROVE Marked'
  <2>1. CASE Mark(p)
    BY <2>1, MarkedMark
  <2>2. CASE Unmark(p)
    BY <2>2, MarkedUnmark
  <2>3. CASE ~Mark(p) /\ ~Unmark(p)
    <3>1. uniq' = uniq /\ \E storeCall : storeCall # "mark" /\ At(p, storeCall)
      BY <1>3, <2>3 DEF StoreCall, Load, Save, Erase, Enqueue, Lease, Bury, Unready, Unlease,
                        Undead, ClaimSerial, ReleaseSerial, ExtendSerial, indexes
    <3>2. On(p) # "mark"
      BY <3>1 DEF At, On
    <3> QED BY <1>3, <3>1, <3>2, StoreOwns, MarkedKept
  <2> QED BY <2>1, <2>2, <2>3
<1>4. ASSUME ready' = ready, leased' = leased, uniq' = uniq,
             \A q \in Callers : call'[q] = call[q] \/ call'[q] = Idle
      PROVE  Marked'
  <2>1. ASSUME NEW j \in Jobs, Owns(j)' PROVE Owns(j)
    <3>1. ASSUME NEW q \in Callers, Grips(q, j)', Keeps(Op(q)', On(q)')
          PROVE  Grips(q, j) /\ Keeps(Op(q), On(q))
      <4>1. call'[q] = call[q]
        BY <1>4, <3>1 DEF Grips, Acting, Idle
      <4>2. Grips(q, j) /\ Op(q)' = Op(q) /\ On(q)' = On(q)
        BY <3>1, <4>1, SameCall
      <4> QED BY <3>1, <4>2
    <3>2. \A q \in Callers : Keeps(Op(q), On(q))' <=> Keeps(Op(q)', On(q)')
      BY DEF Keeps
    <3> QED BY <1>4, <2>1, <3>1, <3>2 DEF Owns
  <2> QED BY <1>4, <2>1, MarkedKept
<1>5. ASSUME NEW p \in Callers, Interrupt(p) PROVE Marked'
  <2>1. /\ call' = [call EXCEPT ![p] = Idle] /\ ready' = ready /\ leased' = leased /\ uniq' = uniq
    BY <1>5 DEF Interrupt, indexes
  <2>2. \A q \in Callers : call'[q] = call[q] \/ call'[q] = Idle
    <3> HIDE DEF Idle
    <3> QED BY <1>1, <2>1 DEF Typed
  <2> QED BY <1>4, <2>1, <2>2
<1>6. ASSUME NEW l \in held, Drop(l) PROVE Marked'
  BY <1>4, <1>6 DEF Drop, indexes
<1>7. ASSUME TickTimely PROVE Marked'
  <2>1. Tick /\ uniq' = uniq /\ DOMAIN ready' = DOMAIN ready /\ DOMAIN leased' = DOMAIN leased
    BY <1>7 DEF TickTimely, Tick
  <2>2. ASSUME NEW j \in Jobs, Owns(j)' PROVE Owns(j)
    <3>1. \A q \in Callers : Keeps(Op(q), On(q))' <=> Keeps(Op(q)', On(q)')
      BY DEF Keeps
    <3>2. \A q \in Callers : (Grips(q, j)' <=> Grips(q, j)) /\ Op(q)' = Op(q) /\ On(q)' = On(q)
      BY <1>1, <2>1, TickWhere
    <3> QED BY <2>1, <2>2, <3>1, <3>2 DEF Owns
  <2> QED BY <2>1, <2>2, MarkedKept
<1>8. ~TickStalled
  BY DEF TickStalled, Mishap, Peaceful
<1>9. CASE UNCHANGED vars
  BY <1>4, <1>9 DEF vars, indexes
<1> QED BY <1>2, <1>3, <1>5, <1>6, <1>7, <1>8, <1>9 DEF Next

\* Of the rows of one key, one at most is queued or leased, although a settle takes
\* the row out of its set in one store call and the marker away in another: the
\* marker is set before the row is entered, and it outlasts the row's entries and
\* every call that may bring them back.  An operator's retry brings back a row
\* whose marker is gone, so nobody retries.
THEOREM RqUnique == ASSUME Peaceful, "retry" \notin Ops PROVE Spec => []UniqueInFlight
<1>1. Init => RqIInv /\ Marked
  BY InitRq, MarkedInit
<1>2. RqIInv /\ Marked /\ [Next]_vars => (RqIInv /\ Marked)'
  BY NextStep, StutterStep, MarkedStep
<1>3. RqIInv /\ Marked => UniqueInFlight
  BY DEF RqIInv, Typed, TypeOKR, Marked, Owns, UniqueInFlight
<1> QED BY <1>1, <1>2, <1>3, PTL DEF Spec

-----------------------------------------------------------------------------
(* The leases *)

\* The calls with a save before them are the settles that have not written yet.
LEMMA AnswersIs ==
    ASSUME Typed, NEW q \in Callers
    PROVE  Answers(q) <=> /\ call[q].op \in Settles
                          /\ \E i \in DOMAIN call[q].route : call[q].route[i] = "save"
<1>1. ASSUME Answers(q)
      PROVE  /\ call[q].op \in Settles
             /\ \E i \in DOMAIN call[q].route : call[q].route[i] = "save"
  <2>1. Acting(q) /\ call[q].op \in Settles /\ On(q) \notin Last
    BY <1>1 DEF Answers, Op
  <2>2. Busily(call[q])
    BY <2>1, InFlight
  <2>3. Chain(call[q].op, call[q].todo[1], call[q].route) /\ Head(call[q].route) \notin Last
    BY <2>1, <2>2 DEF Busily, On
  <2>4. call[q].route \in Seq(Words)
    BY <2>3 DEF Chain
  <2> QED BY <2>1, <2>3, <2>4, SavesYet
<1>2. ASSUME call[q].op \in Settles, \E i \in DOMAIN call[q].route : call[q].route[i] = "save"
      PROVE  Answers(q)
  <2>0. Idle.op = "idle" /\ "idle" \notin Settles /\ call[q].op \in Settles
    BY <1>2 DEF Settles, Idle
  <2>1. call[q] # Idle
    BY <2>0
  <2>2. Acting(q)
    BY <2>1, NotActing
  <2>3. Busily(call[q])
    BY <2>2, InFlight
  <2>4. PICK r \in Seq(Words) : r = call[q].route /\ Chain(call[q].op, call[q].todo[1], r)
    BY <2>3 DEF Busily, Chain
  <2>5. Len(r) \in Nat /\ Len(r) >= 1 /\ DOMAIN r = 1..Len(r) /\ Head(r) = r[1] /\ 1 \in 1..Len(r)
    BY <2>4 DEF Chain
  <2>6. r[1] \in Last => Len(r) = 1
    BY <2>4, <2>5 DEF Chain
  <2>7. PICK i \in 1..Len(r) : r[i] = "save"
    BY <1>2, <2>4, <2>5
  <2>8. ASSUME r[1] \in Last PROVE FALSE
    <3>1. Len(r) = 1
      BY <2>6, <2>8
    <3>2. i = 1
      BY <3>1
    <3> QED BY <2>7, <2>8, <3>2 DEF Last
  <2>9. On(q) \notin Last
    BY <2>4, <2>5, <2>8 DEF On
  <2> QED BY <1>2, <2>2, <2>9 DEF Answers, Op
<1> QED BY <1>1, <1>2

LeasesAre ==
    \A l : l \in Leases <=>
              \/ l \in held
              \/ \E q \in Callers : l \in call[q].got
              \/ \E q \in Callers : Answers(q) /\ l = Lease1(q)

LEMMA LeasesIs == Typed => LeasesAre
<1> SUFFICES ASSUME Typed PROVE LeasesAre
  OBVIOUS
<1>1. PICK A : A = {q \in Callers : /\ call[q].op \in Settles
                                    /\ \E i \in DOMAIN call[q].route : call[q].route[i] = "save"}
  OBVIOUS
<1>2. \A q : q \in A <=> q \in Callers /\ Answers(q)
  BY <1>1, AnswersIs
<1>3. Leases = (held \union (UNION {call[p].got : p \in Callers}))
                 \union {<<Job(p), call[p].token>> : p \in A}
  BY <1>1, Zenon DEF Leases
<1> QED BY <1>2, <1>3 DEF Lease1, LeasesAre

LEMMA LeasesNext == Typed' => LeasesAre'
BY LeasesIs, PTL

\* Only p's call changes, and the leases it answers for are the same ones.
LEMMA LeasesOf ==
    ASSUME Typed, Typed', NEW p \in Callers, \A q \in Callers \ {p} : call'[q] = call[q],
           \A l : (l \in held' \/ l \in call'[p].got \/ (Answers(p)' /\ l = Lease1(p)'))
                     <=> (l \in held \/ l \in call[p].got \/ (Answers(p) /\ l = Lease1(p)))
    PROVE  Leases' = Leases
<1>1. \A l : l \in Leases <=>
              \/ l \in held
              \/ \E q \in Callers : l \in call[q].got
              \/ \E q \in Callers : Answers(q) /\ l = Lease1(q)
  BY LeasesIs DEF LeasesAre
<1>2. \A l : l \in Leases' <=>
              \/ l \in held'
              \/ \E q \in Callers : l \in call'[q].got
              \/ \E q \in Callers : Answers(q)' /\ l = Lease1(q)'
  BY LeasesNext DEF LeasesAre
<1>3. ASSUME NEW q \in Callers \ {p}
      PROVE  call'[q].got = call[q].got /\ (Answers(q)' <=> Answers(q)) /\ Lease1(q)' = Lease1(q)
  BY SameCall
<1>4. \A l : l \in Leases' <=> l \in Leases
  BY <1>1, <1>2, <1>3
<1> QED BY <1>4

\* A settle answers for its lease until its save.
LEMMA AnswersOn ==
    ASSUME NEW op \in Settles, NEW j, NEW on \in Makes(op), on \notin Last
    PROVE  Then(op, j, on) \in Last <=> on = "save"
<1>1. on \in {"load", "unlease", "unmark", "unslot", "save"}
  BY DEF Makes, Settles, Last
<1> QED BY <1>1 DEF Then, Settles, Last

\* A store call that is not a save leaves the leases as they were.
LEMMA StoreLeases ==
    ASSUME RqIInv, Typed', NEW p \in Callers, Acting(p), Effect(p), On(p) # "save" \/ Op(p) = "heartbeat",
           call'[p].got = call[p].got \/ call'[p] = Idle \/ On(p) # "save"
    PROVE  Leases' = Leases
<1>1. Typed /\ Op(p) \in OpNames /\ On(p) \in Makes(Op(p))
  BY InFlight DEF RqIInv
<1>2. \A q \in Callers \ {p} : call'[q] = call[q]
  BY DEF Effect, Quits, Onward, Others
<1>3. CASE Quits(p) /\ (On(p) \in Last \/ Op(p) \in Claims \union {"push"})
  <2>1. ~Answers(p)
    BY <1>3 DEF Answers, Claims, Settles
  <2>2. ~Answers(p)'
    <3>1. CASE call'[p] = Idle
      BY <3>1 DEF Answers, Acting, Idle
    <3>2. CASE Op(p)' = Op(p) /\ Op(p) \in {"pull", "reclaim"}
      BY <3>2 DEF Answers, Settles
    <3> QED BY <1>3, <3>1, <3>2 DEF Quits
  <2>3. \A l : (l \in held' \/ l \in call'[p].got) <=> (l \in held \/ l \in call[p].got)
    <3>1. CASE call'[p] = Idle /\ held' = held \union call[p].got
      <4>1. call'[p].got = {}
        BY <3>1, IdleIs
      <4> QED BY <3>1, <4>1
    <3>2. CASE call'[p].got = call[p].got /\ held' = held
      BY <3>2
    <3> QED BY <1>3, <3>1, <3>2 DEF Quits
  <2> QED BY <1>1, <1>2, <2>1, <2>2, <2>3, LeasesOf
<1>4. ASSUME NEW on, NEW copy, Onward(p, on, copy, call[p].got),
             (on = Then(Op(p), Job(p), On(p)) /\ On(p) \notin Last) \/ Op(p) = "pull"
      PROVE  Leases' = Leases
  <2>1. /\ held' = held /\ call'[p].got = call[p].got /\ Op(p)' = Op(p) /\ On(p)' = on
        /\ Job(p)' = Job(p) /\ call'[p].token = call[p].token /\ Acting(p)'
    BY <1>4 DEF Onward
  <2>2. Lease1(p)' = Lease1(p)
    BY <2>1 DEF Lease1
  <2>3. Answers(p)' <=> Answers(p)
    <3>1. CASE Op(p) \in Settles
      <4>1. on = Then(Op(p), Job(p), On(p)) /\ On(p) \notin Last /\ On(p) # "save"
        BY <1>4, <3>1 DEF Settles
      <4>2. on \notin Last
        BY <1>1, <3>1, <4>1, AnswersOn
      <4> QED BY <2>1, <3>1, <4>1, <4>2 DEF Answers
    <3>2. CASE Op(p) \notin Settles
      BY <2>1, <3>2 DEF Answers
    <3> QED BY <3>1, <3>2
  <2> QED BY <1>1, <1>2, <2>1, <2>2, <2>3, LeasesOf
<1>5. ASSUME On(p) \notin Last,
             NEW copy, NEW got, Onward(p, Then(Op(p), Job(p), On(p)), copy, got),
             On(p) # "save" => got = call[p].got
      PROVE  Leases' = Leases
  <2>1. got = call[p].got
    <3>1. On(p) = "save" => call'[p].got = call[p].got
      <4>1. call'[p] # Idle
        BY <1>5 DEF Onward, Acting, Idle
      <4> QED BY <4>1
    <3> QED BY <1>5, <3>1 DEF Onward
  <2> QED BY <1>4, <1>5, <2>1
<1> QED BY <1>3, <1>4, <1>5 DEF Effect

LEMMA BeginLeases ==
    ASSUME Typed, Typed', Peaceful, NEW p \in Callers, Begin(p)
    PROVE  /\ Leases' = Leases /\ ~Chosen(p)' /\ blob' = blob /\ finished' = finished
           /\ \A q \in Callers \ {p} : call'[q] = call[q]
<1>1. PICK op \in OpNames, record \in Calls :
          \E todo : record.got = {} /\ Starts(p, op, todo, record) /\ Hands(op, todo, record)
  BY BeginStarts
<1>2. PICK todo : record.got = {} /\ Starts(p, op, todo, record) /\ Hands(op, todo, record)
  BY <1>1
<1>3. /\ call[p] = Idle /\ todo # <<>> /\ blob' = blob /\ finished' = finished
      /\ call' = [call EXCEPT ![p] = [record EXCEPT !.op = op, !.todo = todo,
                                                    !.route = Route(op, todo[1])]]
  BY <1>2 DEF Starts
<1>4. /\ call'[p] = [record EXCEPT !.op = op, !.todo = todo, !.route = Route(op, todo[1])]
      /\ \A q \in Callers \ {p} : call'[q] = call[q]
  BY <1>3 DEF Typed
<1>5. /\ call'[p].op = op /\ call'[p].todo = todo /\ call'[p].route = Route(op, todo[1])
      /\ call'[p].got = {} /\ call'[p].token = record.token
  BY <1>2, <1>4 DEF Calls
<1>6. todo[1] \in Jobs
  <2>1. call'[p] \in Calls
    BY DEF Typed
  <2>2. todo \in Seq(Jobs)
    BY <1>5, <2>1 DEF Calls
  <2> QED BY <1>3, <2>2
<1>7. /\ Acting(p)' /\ Op(p)' = op /\ Job(p)' = todo[1] /\ On(p)' = First(op, todo[1])
      /\ Lease1(p)' = <<todo[1], record.token>>
  BY <1>3, <1>5, <1>6, Routes DEF Acting, Op, Job, On, Lease1
<1>8. ~Chosen(p)'
  BY <1>7 DEF Chosen, First
<1>9. ~Answers(p) /\ call[p].got = {}
  BY <1>3, IdleIs DEF Answers, Acting, Idle
<1>10. CASE op \notin Settles /\ held' = held
  <2>1. ~Answers(p)'
    BY <1>7, <1>10 DEF Answers
  <2>2. Leases' = Leases
    BY <1>4, <1>5, <1>9, <1>10, <2>1, LeasesOf
  <2> QED BY <1>3, <1>4, <1>8, <2>2
<1>11. CASE op \in Settles /\ \E l \in held : todo = <<l[1]>> /\ record.token = l[2] /\ held' = held \ {l}
  <2>1. PICK l \in held : todo = <<l[1]>> /\ record.token = l[2] /\ held' = held \ {l}
    BY <1>11
  <2>2. l = <<todo[1], record.token>>
    BY <2>1, LeaseIs
  <2>3. First(op, todo[1]) = "load"
    BY <1>11 DEF First, Settles
  <2>4. Answers(p)' /\ Lease1(p)' = l
    BY <1>7, <1>11, <2>2, <2>3 DEF Answers, Last
  <2>5. Leases' = Leases
    BY <1>4, <1>5, <1>9, <2>1, <2>4, LeasesOf
  <2> QED BY <1>3, <1>4, <1>8, <2>5
<1> QED BY <1>2, <1>10, <1>11 DEF Hands

\* The tokens of the pulls under way stay apart from what the rows and leases have.
LEMMA FreshKept ==
    ASSUME Fresh,
           \A q \in Callers : Chosen(q)' => Chosen(q) /\ call'[q].copy.token = call[q].copy.token,
           \A q \in Callers : Chosen(q)' =>
              /\ \A j \in Jobs : blob'[j].token # call[q].copy.token
              /\ \A l \in Leases' : l[2] # call[q].copy.token
    PROVE  Fresh'
<1>1. ASSUME NEW q \in Callers, Chosen(q)'
      PROVE  /\ \A j \in Jobs : blob'[j].token # call'[q].copy.token
             /\ \A l \in Leases' : l[2] # call'[q].copy.token
             /\ \A r \in Callers : r # q /\ Chosen(r)' => call'[r].copy.token # call'[q].copy.token
  <2>1. Chosen(q) /\ call'[q].copy.token = call[q].copy.token
    BY <1>1
  <2>2. ASSUME NEW r \in Callers, r # q, Chosen(r)' PROVE call'[r].copy.token # call'[q].copy.token
    <3>1. Chosen(r) /\ call'[r].copy.token = call[r].copy.token
      BY <2>2
    <3>2. call[r].copy.token # call[q].copy.token
      BY <2>1, <2>2, <3>1 DEF Fresh
    <3> QED BY <2>1, <3>1, <3>2
  <2> QED BY <1>1, <2>1, <2>2
<1> QED BY <1>1 DEF Fresh

\* The rows keep their tokens and no lease is new.
LEMMA FreshSame ==
    ASSUME Fresh,
           \A q \in Callers : Chosen(q)' => Chosen(q) /\ call'[q].copy.token = call[q].copy.token,
           \A j \in Jobs : blob'[j].token = blob[j].token, Leases' \subseteq Leases
    PROVE  Fresh'
<1>1. ASSUME NEW q \in Callers, Chosen(q)'
      PROVE  /\ \A j \in Jobs : blob'[j].token # call[q].copy.token
             /\ \A l \in Leases' : l[2] # call[q].copy.token
  <2>1. Chosen(q)
    BY <1>1
  <2> QED BY <2>1 DEF Fresh
<1> QED BY <1>1, FreshKept

LEMMA ChosenSame ==
    ASSUME NEW q \in Callers, call'[q] = call[q]
    PROVE  (Chosen(q)' <=> Chosen(q)) /\ call'[q].copy.token = call[q].copy.token
BY SameCall DEF Chosen

\* Only a load chooses.
LEMMA ChosenOn ==
    ASSUME Typed, NEW p \in Callers, Acting(p), Effect(p), Op(p) = "pull" => On(p) # "load", Chosen(p)'
    PROVE  Chosen(p) /\ call'[p].copy.token = call[p].copy.token
<1>1. Op(p) \in OpNames /\ On(p) \in Makes(Op(p))
  BY InFlight
<1>2. ~Quits(p)
  BY DEF Quits, Chosen, Acting, Idle, First
<1>3. ASSUME NEW on, NEW copy, NEW got, Onward(p, on, copy, got)
      PROVE  Op(p) = "pull" /\ on \in {"slot", "save"} /\ call'[p].copy = copy
  BY <1>3 DEF Onward, Chosen
<1>4. On(p) \notin Last
  <2>1. ~(\E copy, got : Onward(p, "enqueue", copy, got))
    BY <1>3
  <2> QED BY <1>2, <2>1 DEF Effect
<1>5. PICK copy, got : /\ Onward(p, Then(Op(p), Job(p), On(p)), copy, got)
                       /\ On(p) # "load" => copy = call[p].copy
  <2>1. ~(\E copy, got : Onward(p, "enqueue", copy, got))
    BY <1>3
  <2> QED BY <1>2, <2>1 DEF Effect
<1>6. Op(p) = "pull" /\ Then("pull", Job(p), On(p)) \in {"slot", "save"} /\ call'[p].copy = copy
  BY <1>3, <1>5
<1>7. On(p) \in {"unready", "slot", "save"}
  BY <1>1, <1>4, <1>6 DEF Makes, Last
<1>8. On(p) = "slot"
  BY <1>6, <1>7 DEF Then, Settles
<1> QED BY <1>5, <1>6, <1>8 DEF Chosen

LEMMA OthersChosen ==
    ASSUME NEW p \in Callers, \A q \in Callers \ {p} : call'[q] = call[q],
           Chosen(p)' => Chosen(p) /\ call'[p].copy.token = call[p].copy.token
    PROVE  \A q \in Callers : Chosen(q)' => Chosen(q) /\ call'[q].copy.token = call[q].copy.token
BY ChosenSame

LEMMA EffectOthers ==
    ASSUME NEW p \in Callers, Effect(p) PROVE \A q \in Callers \ {p} : call'[q] = call[q]
BY DEF Effect, Quits, Onward, Others

\* The token a pull chooses is no one's.
LEMMA LoadFresh ==
    ASSUME RqIInv, Typed', Peaceful, Fresh, NEW p \in Callers, Load(p)
    PROVE  Fresh' /\ Leases' = Leases
<1>1. /\ Acting(p) /\ On(p) = "load" /\ Op(p) \in OpNames \ {"push", "discard"}
      /\ \E c \in Updated(Op(p), blob[Job(p)]) :
            Onward(p, Then(Op(p), Job(p), "load"), c, call[p].got)
  BY LoadEffect DEF Peaceful
<1>2. PICK c \in Updated(Op(p), blob[Job(p)]) : Onward(p, Then(Op(p), Job(p), "load"), c, call[p].got)
  BY <1>1
<1>3. Typed /\ Effect(p) /\ blob' = blob
  BY StoreEffect DEF RqIInv, Peaceful, StoreCall, Load
<1>4. Leases' = Leases
  BY <1>1, <1>3, StoreLeases
<1>5. CASE Op(p) # "pull"
  <2>1. Chosen(p)' => Chosen(p) /\ call'[p].copy.token = call[p].copy.token
    BY <1>1, <1>3, <1>5, ChosenOn
  <2>2. \A q \in Callers : Chosen(q)' => Chosen(q) /\ call'[q].copy.token = call[q].copy.token
    BY <1>3, <2>1, EffectOthers, OthersChosen
  <2> QED BY <1>3, <1>4, <2>2, FreshSame
<1>6. CASE Op(p) = "pull"
  <2>1. blob[Job(p)] \in Held
    BY <1>1, <1>3, InFlight DEF Typed, TypeOKR
  <2>2. PICK t : t = c.token /\ t \in Tokens /\ t \notin UsedTokens
    BY <1>1, <1>6, <2>1, UpdatedIs
  <2>3. call'[p].copy.token = t
    BY <1>2, <2>2 DEF Onward
  <2>4. /\ \A j \in Jobs : blob[j].token # t
        /\ \A l \in held : l[2] # t
        /\ \A q \in Callers : /\ call[q].token # t /\ call[q].copy.token # t
                              /\ \A l \in call[q].got : l[2] # t
    <3>1. \A j \in Jobs : blob[j].token \in UsedTokens
      BY DEF UsedTokens
    <3>2. \A l \in held : l[2] \in UsedTokens
      BY DEF UsedTokens
    <3>3. ASSUME NEW q \in Callers
          PROVE  /\ call[q].token \in UsedTokens /\ call[q].copy.token \in UsedTokens
                 /\ \A l \in call[q].got : l[2] \in UsedTokens
      BY DEF UsedTokens
    <3> QED BY <2>2, <3>1, <3>2, <3>3
  <2>5. \A l \in Leases : l[2] # t
    BY <1>3, <2>4, LeasesIs DEF LeasesAre, Lease1
  <2>6. \A q \in Callers \ {p} : (Chosen(q)' <=> Chosen(q)) /\ call'[q].copy.token = call[q].copy.token
    BY <1>3, EffectOthers, ChosenSame
  <2>7. ASSUME NEW q \in Callers, Chosen(q)'
        PROVE  /\ \A j \in Jobs : blob'[j].token # call'[q].copy.token
               /\ \A l \in Leases' : l[2] # call'[q].copy.token
               /\ \A r \in Callers : r # q /\ Chosen(r)' => call'[r].copy.token # call'[q].copy.token
    <3>1. CASE q = p
      BY <1>3, <1>4, <2>3, <2>4, <2>5, <2>6, <3>1
    <3>2. CASE q # p
      <4>1. Chosen(q) /\ call'[q].copy.token = call[q].copy.token
        BY <2>6, <2>7, <3>2
      <4>2. \A r \in Callers \ {p} : r # q /\ Chosen(r)' => call'[r].copy.token # call'[q].copy.token
        BY <2>6, <4>1 DEF Fresh
      <4>3. call'[p].copy.token # call'[q].copy.token
        BY <2>3, <2>4, <4>1
      <4> QED BY <1>3, <1>4, <4>1, <4>2, <4>3 DEF Fresh
    <3> QED BY <3>1, <3>2
  <2> QED BY <1>4, <2>7 DEF Fresh
<1> QED BY <1>5, <1>6

\* A save hands out the lease of a pull, takes the one of a settle, and leaves the rest.
LEMMA SaveLeases ==
    ASSUME RqIInv, Typed', NEW p \in Callers, Save(p), NEW k, k = Job(p)
    PROVE  /\ Op(p) = "pull" => Leases' = Leases \union {<<k, call[p].copy.token>>}
           /\ Op(p) \in Settles => Lease1(p) \in Leases /\ Leases' = Leases \ {Lease1(p)}
           /\ Op(p) \notin Settles \union {"pull"} => Leases' = Leases
<1>1. /\ Acting(p) /\ On(p) = "save" /\ Typed /\ k \in Jobs /\ Op(p) \in OpNames /\ JobInv(k)
      /\ Onward(p, Then(Op(p), k, "save"), call[p].copy,
                IF Op(p) = "pull" THEN call[p].got \union {<<k, call[p].copy.token>>}
                ELSE call[p].got)
  BY SaveEffect
<1>2. \A l : l \in Leases <=>
              \/ l \in held
              \/ \E q \in Callers : l \in call[q].got
              \/ \E q \in Callers : Answers(q) /\ l = Lease1(q)
  BY <1>1, LeasesIs DEF LeasesAre
<1>3. \A l : l \in Leases' <=>
              \/ l \in held'
              \/ \E q \in Callers : l \in call'[q].got
              \/ \E q \in Callers : Answers(q)' /\ l = Lease1(q)'
  BY LeasesNext DEF LeasesAre
<1>4. \A q \in Callers \ {p} :
          call'[q].got = call[q].got /\ (Answers(q)' <=> Answers(q)) /\ Lease1(q)' = Lease1(q)
  <2>1. \A q \in Callers \ {p} : call'[q] = call[q]
    BY <1>1 DEF Onward, Others
  <2> QED BY <2>1, SameCall
<1>5. /\ held' = held /\ Op(p)' = Op(p) /\ On(p)' = Then(Op(p), k, "save")
      /\ call'[p].got = IF Op(p) = "pull" THEN call[p].got \union {<<k, call[p].copy.token>>}
                        ELSE call[p].got
  BY <1>1 DEF Onward
<1>6. CASE Op(p) = "pull"
  <2>1. ~Answers(p) /\ ~Answers(p)'
    BY <1>5, <1>6 DEF Answers, Settles
  <2>2. \A l : l \in Leases' <=> l \in Leases \/ l = <<k, call[p].copy.token>>
    BY <1>2, <1>3, <1>4, <1>5, <1>6, <2>1
  <2> QED BY <1>6, <2>2 DEF Settles
<1>7. CASE Op(p) \in Settles
  <2>1. Answers(p)
    BY <1>1, <1>7 DEF Answers, Last
  <2>2. On(p)' \in Last
    BY <1>5, <1>7 DEF Then, Settles, Last
  <2>3. ~Answers(p)'
    BY <2>2 DEF Answers
  <2>4. /\ Lease1(p) \notin held
        /\ \A q \in Callers : Lease1(p) \notin call[q].got
        /\ \A q \in Callers : Answers(q) /\ Job(q) = k => p = q
    BY <1>1, <2>1 DEF JobInv, LeaseAt
  <2>5. \A q \in Callers : Answers(q) /\ Lease1(q) = Lease1(p) => q = p
    BY <2>4 DEF Lease1
  <2>6. Lease1(p) \in Leases
    BY <1>2, <2>1
  <2>7. call'[p].got = call[p].got /\ Op(p) # "pull"
    BY <1>5, <1>7 DEF Settles
  <2>8. ASSUME NEW l PROVE l \in Leases' <=> l \in Leases /\ l # Lease1(p)
    <3>1. l \in Leases' => l \in Leases /\ l # Lease1(p)
      BY <1>2, <1>3, <1>4, <1>5, <2>3, <2>4, <2>5, <2>7
    <3>2. l \in Leases /\ l # Lease1(p) => l \in Leases'
      BY <1>2, <1>3, <1>4, <1>5, <2>7
    <3> QED BY <3>1, <3>2
  <2> QED BY <1>7, <2>6, <2>7, <2>8
<1>8. CASE Op(p) \notin Settles \union {"pull"}
  <2>1. ~Answers(p) /\ ~Answers(p)'
    BY <1>5, <1>8 DEF Answers
  <2>2. \A l : l \in Leases' <=> l \in Leases
    BY <1>2, <1>3, <1>4, <1>5, <1>8, <2>1
  <2> QED BY <1>8, <2>2
<1> QED BY <1>6, <1>7, <1>8

\* The copy a pull is to save is a run.
LEMMA ChosenRuns ==
    ASSUME RqIInv, NEW q \in Callers, Chosen(q)
    PROVE  Runs(call[q].copy) /\ call[q].copy.token # NoToken /\ call[q].copy.token \in Tokens
<1>1. Acting(q) /\ Op(q) = "pull" /\ On(q) \in {"slot", "save"}
  BY DEF Chosen
<1>2. Typed /\ Job(q) \in Jobs /\ call[q].copy \in Held /\ JobInv(Job(q))
  BY <1>1, InFlight DEF RqIInv
<1>3. Written(q)
  BY <1>1, <1>2 DEF JobInv, RowAt
<1>4. Runs(call[q].copy)
  BY <1>1, <1>3 DEF Written, Says, Op, On
<1> QED BY <1>2, <1>4 DEF Runs, Held

LEMMA SaveFresh ==
    ASSUME RqIInv, Typed', Peaceful, Fresh, NEW p \in Callers, Save(p)
    PROVE  Fresh'
<1>0. PICK k : k = Job(p)
  OBVIOUS
<1>1. /\ Acting(p) /\ On(p) = "save" /\ Typed /\ k \in Jobs /\ Op(p) \in OpNames /\ JobInv(k)
      /\ Onward(p, Then(Op(p), k, "save"), call[p].copy,
                IF Op(p) = "pull" THEN call[p].got \union {<<k, call[p].copy.token>>}
                ELSE call[p].got)
      /\ blob' = [blob EXCEPT ![k] = call[p].copy]
      /\ Says(call[p], "save", blob[k], k \in finished)
  BY <1>0, SaveEffect
<1>2. ~Chosen(p)' /\ \A q \in Callers \ {p} : call'[q] = call[q]
  <2>1. Op(p) = "pull" => Then(Op(p), k, "save") = "lease"
    BY DEF Then, Settles
  <2> QED BY <1>1, <2>1 DEF Onward, Others, Chosen
<1>3. \A q \in Callers : Chosen(q)' => q # p /\ Chosen(q) /\ call'[q].copy.token = call[q].copy.token
  BY <1>2, ChosenSame
<1>4. \A j \in Jobs : blob'[j].token = IF j = k THEN call[p].copy.token ELSE blob[j].token
  BY <1>1 DEF Typed, TypeOKR
<1>5. CASE Op(p) = "pull"
  <2>1. Chosen(p)
    BY <1>1, <1>5 DEF Chosen
  <2>2. Leases' = Leases \union {<<k, call[p].copy.token>>}
    BY <1>0, <1>5, SaveLeases
  <2>3. ASSUME NEW q \in Callers, Chosen(q)'
        PROVE  /\ \A j \in Jobs : blob'[j].token # call[q].copy.token
               /\ \A l \in Leases' : l[2] # call[q].copy.token
    <3>1. q # p /\ Chosen(q)
      BY <1>3, <2>3
    <3>2. call[p].copy.token # call[q].copy.token
      BY <2>1, <3>1 DEF Fresh
    <3> QED BY <1>4, <2>2, <3>1, <3>2 DEF Fresh
  <2> QED BY <1>3, <2>3, FreshKept
<1>6. CASE Op(p) = "heartbeat"
  <2>1. call[p].copy = blob[k]
    BY <1>1, <1>6 DEF Says, Op
  <2>2. Leases' = Leases
    BY <1>0, <1>6, SaveLeases DEF Settles
  <2> QED BY <1>3, <1>4, <2>1, <2>2, FreshSame
<1>7. CASE Op(p) \notin {"pull", "heartbeat"}
  <2>1. At(p, "save")
    BY DEF Save
  <2>2. call[p].copy.token = NoToken
    BY <1>0, <1>7, <2>1, Saves DEF Waits, Lies
  <2>3. \A l \in Leases' : l \in Leases
    BY <1>0, <1>7, SaveLeases
  <2>4. ASSUME NEW q \in Callers, Chosen(q)'
        PROVE  /\ \A j \in Jobs : blob'[j].token # call[q].copy.token
               /\ \A l \in Leases' : l[2] # call[q].copy.token
    <3>1. Chosen(q) /\ call[q].copy.token # NoToken
      BY <1>3, <2>4, ChosenRuns
    <3> QED BY <1>4, <2>2, <2>3, <3>1 DEF Fresh
  <2> QED BY <1>3, <2>4, FreshKept
<1> QED BY <1>5, <1>6, <1>7

\* A store call that is neither a load nor a save, in what the queue shows of it.
LEMMA PlainCall ==
    ASSUME RqIInv, Typed', Peaceful, NEW p \in Callers, StoreCall(p), ~Load(p), ~Save(p)
    PROVE  /\ Acting(p) /\ On(p) \notin {"load", "save"} /\ Effect(p) /\ Leases' = Leases
           /\ finished' = finished
           /\ Erase(p) \/ blob' = blob
<1>1. Acting(p) /\ Effect(p) /\ Typed
  BY StoreEffect DEF RqIInv, Peaceful
<1>2. PICK storeCall : At(p, storeCall) /\ storeCall \notin {"load", "save"}
  BY DEF StoreCall, Mark, Unmark, Erase, Enqueue, Lease, Bury, Unready, Unlease, Undead,
         ClaimSerial, ReleaseSerial, ExtendSerial
<1>3. On(p) \notin {"load", "save"}
  BY <1>2 DEF At, On
<1>4. Leases' = Leases
  BY <1>1, <1>3, StoreLeases
<1>5. finished' = finished /\ (Erase(p) \/ blob' = blob)
  BY DEF StoreCall, Mark, Unmark, Erase, Enqueue, Lease, Bury, Unready, Unlease, Undead,
         ClaimSerial, ReleaseSerial, ExtendSerial
<1> QED BY <1>1, <1>3, <1>4, <1>5

LEMMA EraseBlob ==
    ASSUME RqIInv, NEW p \in Callers, Erase(p), NEW k, k = Job(p)
    PROVE  /\ k \in Jobs /\ blob' = [blob EXCEPT ![k] = NoBlob] /\ blob'[k] = NoBlob
           /\ \A j \in Jobs \ {k} : blob'[j] = blob[j]
           /\ JobInv(k) /\ Op(p) \in {"ack", "discard"}
           /\ Op(p) = "ack" => Lies(blob[k], "done") /\ k \in finished
           /\ Op(p) = "discard" => Lies(blob[k], "dead") /\ k \notin finished
<1>1. At(p, "erase") /\ blob' = [blob EXCEPT ![k] = NoBlob]
  BY DEF Erase
<1>2. /\ Typed /\ On(p) = "erase" /\ "erase" \in Makes(Op(p)) /\ Op(p) \in OpNames
      /\ k \in Jobs /\ JobInv(k) /\ call[p].op = Op(p)
      /\ Says(call[p], "erase", blob[k], k \in finished)
  BY <1>1, Standing
<1>3. Op(p) \in {"ack", "discard"}
  BY <1>2 DEF Makes, OpNames
<1>4. blob'[k] = NoBlob /\ \A j \in Jobs \ {k} : blob'[j] = blob[j]
  BY <1>1, <1>2 DEF Typed, TypeOKR
<1>5. Op(p) = "ack" => Lies(blob[k], "done") /\ k \in finished
  BY <1>2 DEF Says
<1>6. Op(p) = "discard" => Lies(blob[k], "dead")
  BY <1>2 DEF Says
<1>7. k \in finished => blob[k].state \in {"done", "absent"}
  BY <1>2 DEF JobInv, RowAt, Placed
<1>8. Op(p) = "discard" => k \notin finished
  BY <1>6, <1>7 DEF Lies
<1> QED BY <1>1, <1>2, <1>3, <1>4, <1>5, <1>6, <1>8

LEMMA PlainFresh ==
    ASSUME RqIInv, Typed', Peaceful, Fresh, NEW p \in Callers, StoreCall(p), ~Load(p), ~Save(p)
    PROVE  Fresh'
<1>1. /\ Typed /\ Acting(p) /\ On(p) # "load" /\ Effect(p) /\ Leases' = Leases
      /\ Erase(p) \/ blob' = blob
  BY PlainCall DEF RqIInv
<1>2. \A q \in Callers : Chosen(q)' => Chosen(q) /\ call'[q].copy.token = call[q].copy.token
  BY <1>1, ChosenOn, EffectOthers, OthersChosen
<1>3. CASE blob' = blob
  BY <1>1, <1>2, <1>3, FreshSame
<1>4. CASE Erase(p)
  <2>1. PICK k : k = Job(p)
    OBVIOUS
  <2>2. /\ \A j \in Jobs \ {k} : blob'[j] = blob[j]
        /\ blob'[k].token = NoToken
    BY <1>4, <2>1, EraseBlob DEF NoBlob
  <2>3. ASSUME NEW q \in Callers, Chosen(q)'
        PROVE  /\ \A j \in Jobs : blob'[j].token # call[q].copy.token
               /\ \A l \in Leases' : l[2] # call[q].copy.token
    <3>1. Chosen(q) /\ call[q].copy.token # NoToken
      BY <1>2, <2>3, ChosenRuns
    <3> QED BY <1>1, <2>2, <3>1 DEF Fresh
  <2> QED BY <1>2, <2>3, FreshKept
<1> QED BY <1>1, <1>3, <1>4

\* Calls that end and leases that are dropped: the queue's rows are left alone.
Ends ==
    /\ blob' = blob /\ finished' = finished /\ held' \subseteq held
    /\ \A q \in Callers : call'[q] = call[q] \/ call'[q] = Idle

LEMMA EndsLeases == ASSUME Typed, Typed', Ends PROVE Leases' \subseteq Leases
<1>1. \A l : l \in Leases <=>
              \/ l \in held
              \/ \E q \in Callers : l \in call[q].got
              \/ \E q \in Callers : Answers(q) /\ l = Lease1(q)
  BY LeasesIs DEF LeasesAre
<1>2. \A l : l \in Leases' <=>
              \/ l \in held'
              \/ \E q \in Callers : l \in call'[q].got
              \/ \E q \in Callers : Answers(q)' /\ l = Lease1(q)'
  BY LeasesNext DEF LeasesAre
<1>3. ASSUME NEW q \in Callers
      PROVE  /\ \A l : l \in call'[q].got => l \in call[q].got
             /\ Answers(q)' => Answers(q) /\ Lease1(q)' = Lease1(q)
  <2>1. CASE call'[q] = call[q]
    BY <2>1, SameCall
  <2>2. CASE call'[q] = Idle
    BY <2>2, IdleIs DEF Answers, Acting, Idle
  <2> QED BY <2>1, <2>2 DEF Ends
<1> QED BY <1>1, <1>2, <1>3 DEF Ends

LEMMA EndsFresh == ASSUME Typed, Typed', Ends, Fresh PROVE Fresh'
<1>1. ASSUME NEW q \in Callers, Chosen(q)'
      PROVE  Chosen(q) /\ call'[q].copy.token = call[q].copy.token
  <2>1. call'[q] = call[q]
    BY <1>1 DEF Ends, Chosen, Acting, Idle
  <2> QED BY <1>1, <2>1, ChosenSame
<1> QED BY <1>1, EndsLeases, FreshSame DEF Ends

LEMMA EndsIs ==
    ASSUME Typed
    PROVE  /\ \A p \in Callers : Interrupt(p) => Ends
           /\ \A l \in held : Drop(l) => Ends
           /\ UNCHANGED vars => Ends
<1>1. ASSUME NEW p \in Callers, Interrupt(p) PROVE Ends
  <2>1. /\ call' = [call EXCEPT ![p] = Idle] /\ blob' = blob /\ finished' = finished /\ held' = held
    BY <1>1 DEF Interrupt
  <2>2. \A q \in Callers : call'[q] = call[q] \/ call'[q] = Idle
    <3> HIDE DEF Idle
    <3> QED BY <2>1 DEF Typed
  <2> QED BY <2>1, <2>2 DEF Ends
<1>2. ASSUME NEW l \in held, Drop(l) PROVE Ends
  BY <1>2 DEF Drop, Ends
<1>3. ASSUME UNCHANGED vars PROVE Ends
  BY <1>3 DEF vars, Ends
<1> QED BY <1>1, <1>2, <1>3

LEMMA TickLeases ==
    ASSUME Typed, Typed', Tick
    PROVE  /\ Leases' = Leases /\ finished' = finished
           /\ \A j \in Jobs : blob'[j].state = blob[j].state /\ blob'[j].token = blob[j].token
           /\ \A q \in Callers : (Chosen(q)' <=> Chosen(q)) /\ call'[q].copy.token = call[q].copy.token
<1>1. /\ held' = held /\ finished' = finished /\ blob' = [j \in Jobs |-> Aged(blob[j])]
  BY DEF Tick
<1>2. ASSUME NEW q \in Callers
      PROVE  /\ call'[q].got = call[q].got /\ (Answers(q)' <=> Answers(q)) /\ Lease1(q)' = Lease1(q)
             /\ (Chosen(q)' <=> Chosen(q)) /\ call'[q].copy.token = call[q].copy.token
  <2>1. call[q].copy \in Held
    BY DEF Typed, TypeOKR
  <2> QED BY <2>1, TickCall, TickWhere, AgedIs DEF Chosen
<1>3. \A l : l \in Leases <=>
              \/ l \in held
              \/ \E q \in Callers : l \in call[q].got
              \/ \E q \in Callers : Answers(q) /\ l = Lease1(q)
  BY LeasesIs DEF LeasesAre
<1>4. \A l : l \in Leases' <=>
              \/ l \in held'
              \/ \E q \in Callers : l \in call'[q].got
              \/ \E q \in Callers : Answers(q)' /\ l = Lease1(q)'
  BY LeasesNext DEF LeasesAre
<1>5. \A l : l \in Leases' <=> l \in Leases
  BY <1>1, <1>2, <1>3, <1>4
<1>6. ASSUME NEW j \in Jobs
      PROVE  blob'[j].state = blob[j].state /\ blob'[j].token = blob[j].token
  <2>1. blob[j] \in Held
    BY DEF Typed, TypeOKR
  <2> QED BY <1>1, <2>1, AgedIs
<1> QED BY <1>1, <1>2, <1>5, <1>6

LEMMA FreshStep ==
    ASSUME RqIInv, RqIInv', Peaceful, Fresh, [Next]_vars PROVE Fresh'
<1>1. Typed /\ Typed'
  BY DEF RqIInv
<1>2. ASSUME NEW p \in Callers, Begin(p) PROVE Fresh'
  <2>1. /\ Leases' = Leases /\ ~Chosen(p)' /\ blob' = blob
        /\ \A q \in Callers \ {p} : call'[q] = call[q]
    BY <1>1, <1>2, BeginLeases
  <2> QED BY <2>1, OthersChosen, FreshSame
<1>3. ASSUME NEW p \in Callers, StoreCall(p) PROVE Fresh'
  BY <1>1, <1>3, LoadFresh, SaveFresh, PlainFresh
<1>4. ASSUME Ends PROVE Fresh'
  BY <1>1, <1>4, EndsFresh
<1>5. ASSUME TickTimely PROVE Fresh'
  <2>1. Tick
    BY <1>5 DEF TickTimely
  <2> QED BY <1>1, <2>1, TickLeases, FreshSame
<1>6. ~TickStalled
  BY DEF TickStalled, Mishap, Peaceful
<1> QED BY <1>1, <1>2, <1>3, <1>4, <1>5, <1>6, EndsIs DEF Next

-----------------------------------------------------------------------------
(* The Redis queue implements the Queue trait *)

\* Row k is written: it moves to phase p, under the token it now has.
Rewrites(k, p) ==
    /\ k \in Jobs /\ Phase(k)' = p
    /\ \A j \in Jobs \ {k} : blob'[j] = blob[j] /\ (j \in finished' <=> j \in finished)

LEMMA RewritesIs ==
    ASSUME NEW k, NEW p, Rewrites(k, p)
    PROVE  /\ [j \in Jobs |-> Phase(j)]' =
                [j \in Jobs |-> IF j \in {k} THEN p ELSE [i \in Jobs |-> Phase(i)][j]]
           /\ [j \in Jobs |-> blob[j].token]' =
                [j \in Jobs |-> IF j \in {k} THEN blob'[k].token
                                ELSE [i \in Jobs |-> blob[i].token][j]]
<1>1. ASSUME NEW j \in Jobs PROVE Phase(j)' = IF j \in {k} THEN p ELSE Phase(j)
  <2>1. j # k => Phase(j)' = Phase(j)
    BY DEF Rewrites, Phase
  <2> QED BY <2>1 DEF Rewrites
<1>2. ASSUME NEW j \in Jobs PROVE blob'[j].token = IF j \in {k} THEN blob'[k].token ELSE blob[j].token
  BY DEF Rewrites
<1> QED BY <1>1, <1>2

LEMMA RqMoves ==
    ASSUME NEW k, NEW p, Rewrites(k, p), blob'[k].token = NoToken
    PROVE  LQ!Move({k}, p)
<1>1. [j \in Jobs |-> blob[j].token]' =
        [j \in Jobs |-> IF j \in {k} THEN NoToken ELSE [i \in Jobs |-> blob[i].token][j]]
  BY RewritesIs
<1> QED BY <1>1, RewritesIs, Zenon DEF LQ!Move

LEMMA PhaseIs ==
    ASSUME NEW k \in Jobs
    PROVE  /\ Waits(blob[k]) => Phase(k) = "waiting"
           /\ Runs(blob[k]) => Phase(k) = "leased"
           /\ Lies(blob[k], "dead") => Phase(k) = "dead"
           /\ Lies(blob[k], "done") => Phase(k) = "done"
           /\ blob[k] = NoBlob => Phase(k) = IF k \in finished THEN "done" ELSE "absent"
BY DEF Waits, Runs, Lies, Phase, Waiting, NoBlob

LEMMA PhaseNext ==
    ASSUME NEW k \in Jobs
    PROVE  /\ Waits(blob'[k]) => Phase(k)' = "waiting"
           /\ Runs(blob'[k]) => Phase(k)' = "leased"
           /\ Lies(blob'[k], "dead") => Phase(k)' = "dead"
           /\ Lies(blob'[k], "done") => Phase(k)' = "done"
           /\ blob'[k] = NoBlob => Phase(k)' = IF k \in finished' THEN "done" ELSE "absent"
BY DEF Waits, Runs, Lies, Phase, Waiting, NoBlob

\* The abstract queue does not move.
LEMMA RqStutter ==
    ASSUME Leases' = Leases, finished' = finished,
           \A j \in Jobs : blob'[j].state = blob[j].state /\ blob'[j].token = blob[j].token
    PROVE  UNCHANGED LQ!vars
<1>1. \A j \in Jobs : Phase(j)' = Phase(j)
  BY DEF Phase
<1>2. UNCHANGED <<[j \in Jobs |-> Phase(j)], [j \in Jobs |-> blob[j].token]>>
  BY <1>1
<1> QED BY <1>2, Zenon DEF LQ!vars

\* Calls end, clients die: their leases are dropped.
LEMMA EndsAbandons ==
    ASSUME Typed, Typed', Ends PROVE \E L \in SUBSET Leases : LQ!Abandon(L)
<1>1. PICK gone : gone = Leases \ Leases'
  OBVIOUS
<1>2. Leases' = Leases \ gone /\ gone \in SUBSET Leases
  BY <1>1, EndsLeases
<1>3. \A j \in Jobs : Phase(j)' = Phase(j)
  BY DEF Phase, Ends
<1>4. UNCHANGED <<[j \in Jobs |-> Phase(j)], [j \in Jobs |-> blob[j].token]>>
  BY <1>3 DEF Ends
<1>5. LQ!Abandon(gone)
  BY <1>2, <1>4, Zenon DEF LQ!Abandon
<1> QED BY <1>2, <1>5

\* A save gives its row the phase its copy has.
LEMMA SaveRewrites ==
    ASSUME RqIInv, NEW p \in Callers, Save(p), Op(p) # "heartbeat", NEW k, k = Job(p)
    PROVE  /\ blob'[k] = call[p].copy /\ k \in Jobs /\ Acting(p)
           /\ \A j \in Jobs \ {k} : blob'[j] = blob[j] /\ (j \in finished' <=> j \in finished)
           /\ Op(p) \in {"push", "nack", "reclaim", "retry"} => Rewrites(k, "waiting")
           /\ Op(p) = "pull" => Rewrites(k, "leased")
           /\ Op(p) = "ack" => Rewrites(k, "done")
           /\ Op(p) = "nack dead" => Rewrites(k, "dead")
<1>1. /\ Acting(p) /\ Typed /\ k \in Jobs /\ blob' = [blob EXCEPT ![k] = call[p].copy]
      /\ finished' = IF Op(p) = "ack" THEN finished \union {k} ELSE finished
  BY SaveEffect
<1>2. /\ blob'[k] = call[p].copy
      /\ \A j \in Jobs \ {k} : blob'[j] = blob[j] /\ (j \in finished' <=> j \in finished)
  BY <1>1 DEF Typed, TypeOKR
<1>3. At(p, "save")
  BY DEF Save
<1>4. /\ Op(p) \in {"push", "nack", "reclaim", "retry"} => Waits(blob'[k])
      /\ Op(p) = "pull" => Runs(blob'[k])
      /\ Op(p) = "ack" => Lies(blob'[k], "done")
      /\ Op(p) = "nack dead" => Lies(blob'[k], "dead")
  BY <1>2, <1>3, Saves
<1> QED BY <1>1, <1>2, <1>4, PhaseNext DEF Rewrites

LEMMA SaveGrants ==
    ASSUME RqIInv, Typed', Fresh, NEW p \in Callers, Save(p), Op(p) = "pull"
    PROVE  \E S \in SUBSET Jobs : LQ!Grant(S)
<1>k. PICK k : k = Job(p)
  OBVIOUS
<1>1. /\ blob'[k] = call[p].copy /\ k \in Jobs /\ Acting(p) /\ Rewrites(k, "leased")
  BY <1>k, SaveRewrites
<1>2. On(p) = "save" /\ At(p, "save")
  BY SaveEffect DEF Save
<1>3. Waits(blob[k]) /\ Chosen(p)
  BY <1>k, <1>1, <1>2, Saves DEF Chosen
<1>4. PICK t : t = call[p].copy.token
  OBVIOUS
<1>5. t \in Tokens /\ blob'[k].token = t /\ Leases' = Leases \union {<<k, t>>}
  BY <1>k, <1>1, <1>3, <1>4, ChosenRuns, SaveLeases
<1>6. t \notin LQ!InUse
  <2>1. \A j \in Jobs : [i \in Jobs |-> blob[i].token][j] # t
    BY <1>3, <1>4 DEF Fresh
  <2>2. \A l \in Leases : l[2] # t
    BY <1>3, <1>4 DEF Fresh
  <2> QED BY <2>1, <2>2, Zenon DEF LQ!InUse
<1>7. PICK f : f = [j \in {k} |-> t]
  OBVIOUS
<1>8. f \in [{k} -> Tokens \ LQ!InUse]
  BY <1>5, <1>6, <1>7
<1>9. (\A i, j \in {k} : f[i] = f[j] => i = j) /\ f[k] = t
  BY <1>7
<1>10. \A j \in {k} : [i \in Jobs |-> Phase(i)][j] = "waiting"
  BY <1>1, <1>3, PhaseIs
<1>11. [j \in Jobs |-> Phase(j)]' =
          [j \in Jobs |-> IF j \in {k} THEN "leased" ELSE [i \in Jobs |-> Phase(i)][j]]
  BY <1>1, RewritesIs
<1>12. [j \in Jobs |-> blob[j].token]' =
          [j \in Jobs |-> IF j \in {k} THEN f[j] ELSE [i \in Jobs |-> blob[i].token][j]]
  <2>1. [j \in Jobs |-> blob[j].token]' =
          [j \in Jobs |-> IF j \in {k} THEN t ELSE [i \in Jobs |-> blob[i].token][j]]
    BY <1>1, <1>5, RewritesIs
  <2>2. \A j \in {k} : f[j] = t
    BY <1>9
  <2> QED BY <2>1, <2>2
<1>13. Leases' = Leases \union {<<j, f[j]>> : j \in {k}}
  BY <1>5, <1>9
<1>14. LQ!Grant({k})
  BY <1>8, <1>9, <1>10, <1>11, <1>12, <1>13, Zenon DEF LQ!Grant
<1> QED BY <1>1, <1>14

LEMMA SaveSettles ==
    ASSUME RqIInv, Typed', NEW p \in Callers, Save(p), Op(p) \in Settles
    PROVE  \E l \in Leases, to \in {"done", "waiting", "dead"} : LQ!Settle(l, to)
<1>k. PICK k : k = Job(p)
  OBVIOUS
<1>0. Op(p) # "heartbeat" /\ Op(p) \in {"ack", "nack", "nack dead"}
  BY DEF Settles
<1>1. blob'[k] = call[p].copy /\ k \in Jobs /\ At(p, "save")
  BY <1>k, <1>0, SaveRewrites DEF Save
<1>2. \E to \in {"done", "waiting", "dead"} : Rewrites(k, to)
  BY <1>k, <1>0, SaveRewrites
<1>3. PICK to \in {"done", "waiting", "dead"} : Rewrites(k, to)
  BY <1>2
<1>4. blob'[k].token = NoToken
  BY <1>k, <1>0, <1>1, Saves DEF Waits, Lies
<1>5. Runs(blob[k]) /\ blob[k].token = call[p].token
  BY <1>k, <1>0, <1>1, Saves
<1>6. PICK l : l = Lease1(p)
  OBVIOUS
<1>7. l \in Leases /\ Leases' = Leases \ {l} /\ l[1] = k /\ l[2] = call[p].token
  BY <1>k, <1>6, SaveLeases DEF Lease1
<1>8. LQ!Move({k}, to)
  BY <1>3, <1>4, RqMoves
<1>9. [j \in Jobs |-> Phase(j)][l[1]] = "leased" /\ [j \in Jobs |-> blob[j].token][l[1]] = l[2]
  BY <1>1, <1>5, <1>7, PhaseIs
<1>10. LQ!Settle(l, to)
  BY <1>7, <1>8, <1>9, Zenon DEF LQ!Settle
<1> QED BY <1>7, <1>10

LEMMA SaveSimulates ==
    ASSUME RqIInv, Typed', Fresh, NEW p \in Callers, Save(p)
    PROVE  [LQ!Next]_LQ!vars
<1>k. PICK k : k = Job(p)
  OBVIOUS
<1>0. /\ Acting(p) /\ On(p) = "save" /\ Typed /\ Op(p) \in OpNames /\ k \in Jobs /\ At(p, "save")
      /\ blob' = [blob EXCEPT ![k] = call[p].copy]
      /\ finished' = IF Op(p) = "ack" THEN finished \union {k} ELSE finished
      /\ Says(call[p], "save", blob[k], k \in finished)
  BY <1>k, SaveEffect DEF Save
<1>1. CASE Op(p) = "heartbeat"
  <2>1. call[p].copy = blob[k] /\ finished' = finished /\ Leases' = Leases
    BY <1>k, <1>0, <1>1, SaveLeases DEF Says, Op, Settles
  <2>2. \A j \in Jobs : blob'[j] = blob[j]
    BY <1>0, <2>1 DEF Typed, TypeOKR
  <2> QED BY <2>1, <2>2, RqStutter
<1>2. CASE Op(p) = "pull"
  <2>1. \E S \in SUBSET Jobs : LQ!Grant(S)
    BY <1>2, SaveGrants
  <2> QED BY <2>1, Zenon DEF LQ!Next
<1>3. CASE Op(p) \in Settles
  <2>1. \E l \in Leases, to \in {"done", "waiting", "dead"} : LQ!Settle(l, to)
    BY <1>3, SaveSettles
  <2> QED BY <2>1, Zenon DEF LQ!Next
<1>4. CASE Op(p) \in {"push", "reclaim", "retry"}
  <2>1. Op(p) # "heartbeat" /\ Op(p) \notin Settles \union {"pull"}
    BY <1>4 DEF Settles
  <2>2. blob'[k] = call[p].copy /\ Rewrites(k, "waiting") /\ Leases' = Leases
    BY <1>k, <1>4, <2>1, SaveRewrites, SaveLeases
  <2>3. blob'[k].token = NoToken
    BY <1>k, <1>0, <1>4, <2>1, <2>2, Saves DEF Waits
  <2>4. LQ!Move({k}, "waiting")
    BY <2>2, <2>3, RqMoves
  <2>5. CASE Op(p) = "push"
    <3>1. blob[k] = NoBlob /\ k \notin finished
      BY <1>k, <1>0, <2>1, <2>5, Saves
    <3>2. [j \in Jobs |-> Phase(j)][k] = "absent"
      BY <1>0, <3>1, PhaseIs
    <3>3. LQ!Push(k)
      BY <2>2, <2>4, <3>2, Zenon DEF LQ!Push
    <3> QED BY <1>0, <3>3, Zenon DEF LQ!Next
  <2>6. CASE Op(p) = "reclaim"
    <3>1. Runs(blob[k])
      BY <1>k, <1>0, <2>1, <2>6, Saves
    <3>2. \A j \in {k} : [i \in Jobs |-> Phase(i)][j] = "leased"
      BY <1>0, <3>1, PhaseIs
    <3>3. LQ!Lapse({k}) /\ {k} \in SUBSET Jobs
      BY <1>0, <2>2, <2>4, <3>2, Zenon DEF LQ!Lapse
    <3> QED BY <3>3, Zenon DEF LQ!Next
  <2>7. CASE Op(p) = "retry"
    <3>1. Lies(blob[k], "dead")
      BY <1>k, <1>0, <2>1, <2>7, Saves
    <3>2. \A j \in {k} : [i \in Jobs |-> Phase(i)][j] = "dead"
      BY <1>0, <3>1, PhaseIs
    <3>3. LQ!Redrive({k}, "waiting") /\ {k} \in SUBSET Jobs
      BY <1>0, <2>2, <2>4, <3>2, Zenon DEF LQ!Redrive
    <3> QED BY <3>3, Zenon DEF LQ!Next
  <2> QED BY <1>4, <2>5, <2>6, <2>7
<1>5. Op(p) # "discard"
  BY <1>0, <1>k, Saves
<1> QED BY <1>0, <1>1, <1>2, <1>3, <1>4, <1>5 DEF OpNames, Settles

LEMMA EraseSimulates ==
    ASSUME RqIInv, Leases' = Leases, finished' = finished, NEW p \in Callers, Erase(p)
    PROVE  [LQ!Next]_LQ!vars
<1>k. PICK k : k = Job(p)
  OBVIOUS
<1>1. /\ k \in Jobs /\ blob'[k] = NoBlob /\ \A j \in Jobs \ {k} : blob'[j] = blob[j]
      /\ Op(p) \in {"ack", "discard"}
      /\ Op(p) = "ack" => Lies(blob[k], "done") /\ k \in finished
      /\ Op(p) = "discard" => Lies(blob[k], "dead") /\ k \notin finished
  BY <1>k, EraseBlob
<1>2. CASE Op(p) = "ack"
  <2>1. \A j \in Jobs : Phase(j)' = Phase(j)
    <3>1. Phase(k)' = Phase(k)
      BY <1>1, <1>2, PhaseIs, PhaseNext
    <3>2. \A j \in Jobs \ {k} : Phase(j)' = Phase(j)
      BY <1>1 DEF Phase
    <3> QED BY <3>1, <3>2
  <2>2. \A j \in Jobs : blob'[j].token = blob[j].token
    BY <1>1, <1>2 DEF Lies, NoBlob
  <2>3. UNCHANGED <<[j \in Jobs |-> Phase(j)], [j \in Jobs |-> blob[j].token]>>
    BY <2>1, <2>2
  <2>4. UNCHANGED LQ!vars
    BY <2>3, Zenon DEF LQ!vars
  <2> QED BY <2>4
<1>3. CASE Op(p) = "discard"
  <2>1. Phase(k)' = "absent"
    BY <1>1, <1>3, PhaseNext
  <2>2. Rewrites(k, "absent") /\ blob'[k].token = NoToken
    BY <1>1, <2>1 DEF Rewrites, NoBlob
  <2>3. LQ!Move({k}, "absent")
    BY <2>2, RqMoves
  <2>4. \A j \in {k} : [i \in Jobs |-> Phase(i)][j] = "dead"
    BY <1>1, <1>3, PhaseIs
  <2>5. LQ!Redrive({k}, "absent") /\ {k} \in SUBSET Jobs
    BY <1>1, <2>3, <2>4, Zenon DEF LQ!Redrive
  <2> QED BY <2>5, Zenon DEF LQ!Next
<1> QED BY <1>1, <1>2, <1>3

LEMMA RqSimulation ==
    ASSUME RqIInv, RqIInv', Peaceful, Fresh, [Next]_vars PROVE [LQ!Next]_LQ!vars
<1>1. Typed /\ Typed'
  BY DEF RqIInv
<1>2. ASSUME NEW p \in Callers, Begin(p) PROVE UNCHANGED LQ!vars
  <2>1. Leases' = Leases /\ blob' = blob /\ finished' = finished
    BY <1>1, <1>2, BeginLeases
  <2> QED BY <2>1, RqStutter
<1>3. ASSUME NEW p \in Callers, StoreCall(p) PROVE [LQ!Next]_LQ!vars
  <2>1. CASE Load(p)
    <3>1. Leases' = Leases /\ blob' = blob /\ finished' = finished
      BY <1>1, <2>1, LoadFresh DEF Load
    <3>2. UNCHANGED LQ!vars
      BY <3>1, RqStutter
    <3> QED BY <3>2
  <2>2. CASE Save(p)
    BY <1>1, <2>2, SaveSimulates
  <2>3. CASE ~Load(p) /\ ~Save(p)
    <3>1. Leases' = Leases /\ finished' = finished /\ (Erase(p) \/ blob' = blob)
      BY <1>1, <1>3, <2>3, PlainCall
    <3>2. ASSUME blob' = blob PROVE UNCHANGED LQ!vars
      BY <3>1, <3>2, RqStutter
    <3> QED BY <3>1, <3>2, EraseSimulates
  <2> QED BY <2>1, <2>2, <2>3
<1>4. ASSUME Ends PROVE LQ!Next
  <2>1. \E L \in SUBSET Leases : LQ!Abandon(L)
    BY <1>1, <1>4, EndsAbandons
  <2> QED BY <2>1, Zenon DEF LQ!Next
<1>5. ASSUME TickTimely PROVE UNCHANGED LQ!vars
  <2>1. Tick
    BY <1>5 DEF TickTimely
  <2>2. /\ Leases' = Leases /\ finished' = finished
        /\ \A j \in Jobs : blob'[j].state = blob[j].state /\ blob'[j].token = blob[j].token
    BY <1>1, <2>1, TickLeases
  <2> QED BY <2>2, RqStutter
<1>6. ~TickStalled
  BY DEF TickStalled, Mishap, Peaceful
<1> QED BY <1>1, <1>2, <1>3, <1>4, <1>5, <1>6, EndsIs DEF Next

LEMMA FreshInit == ASSUME Init PROVE Fresh
BY DEF Init, Fresh, Chosen, Acting, Idle

LEMMA RqAbstractInit == ASSUME Init PROVE LQ!Init
<1>1. blob = [j \in Jobs |-> NoBlob] /\ finished = {} /\ held = {} /\ call = [p \in Callers |-> Idle]
  BY DEF Init
<1>2. \A j \in Jobs : Phase(j) = "absent" /\ blob[j].token = NoToken
  BY <1>1 DEF Phase, NoBlob, Waiting
<1>3. Leases = {}
  <2>1. Typed
    BY InitRq DEF RqIInv
  <2>2. \A q \in Callers : call[q].got = {} /\ ~Answers(q)
    BY <1>1, IdleIs DEF Answers, Acting, Idle
  <2> QED BY <1>1, <2>1, <2>2, LeasesIs DEF LeasesAre
<1>4. [j \in Jobs |-> Phase(j)] = [j \in Jobs |-> "absent"]
  BY <1>2
<1>5. [j \in Jobs |-> blob[j].token] = [j \in Jobs |-> NoToken]
  BY <1>2
<1> QED BY <1>3, <1>4, <1>5, Zenon DEF LQ!Init

\* The Redis queue keeps the contract of the Queue trait, although none of its
\* operations is atomic: the store call that saves the blob is where push, pull,
\* ack, nack, reclaim and retry take effect, the one that erases it where discard
\* does, and every other store call, in any interleaving and cut short anywhere,
\* is a stutter of the contract.  The token a pull has chosen and not written yet
\* is in no row and in no lease, so the lease it hands out is new.
THEOREM RqImplementation == ASSUME Peaceful PROVE Spec => ImplementsLeaseQueue
<1>1. Init => RqIInv /\ Fresh /\ LQ!Init
  BY InitRq, FreshInit, RqAbstractInit
<1>2. RqIInv /\ [Next]_vars => RqIInv'
  BY NextStep, StutterStep
<1>3. RqIInv /\ RqIInv' /\ Fresh /\ [Next]_vars => Fresh' /\ [LQ!Next]_LQ!vars
  BY FreshStep, RqSimulation
<1> QED BY <1>1, <1>2, <1>3, PTL DEF Spec, ImplementsLeaseQueue, LQ!Spec

-----------------------------------------------------------------------------
(* A row that is to run can be found.  Here operators may cancel, clients may  *)
(* be paused past their leases and everyone may reclaim: a row may be in many  *)
(* hands at once, and what counts is that one of them will put it back.        *)

Withdrawal == {"load", "unready", "unlease", "unslot", "save"}

\* What is left of the route of a call.
Threads(op, j, r) ==
    IF op = "cancel"
    THEN /\ r \in Seq(Words) /\ r # <<>>
         /\ \A i \in 1..Len(r) : /\ r[i] \in Withdrawal
                                 /\ r[i] = "save" <=> i = Len(r)
                                 /\ r[i] = "load" => i = 1
    ELSE Chain(op, j, r)

Closes(op, on) == on \in Last \/ (op = "cancel" /\ on = "save")

\* The store call that may send a call away from its row.
Check(op) ==
    CASE op = "push" -> "mark"
      [] op = "pull" -> "unready"
      [] op = "reclaim" -> "unlease"
      [] op \in {"retry", "discard"} -> "undead"
      [] OTHER -> "load"

Rides(c) ==
    /\ c.todo # <<>> /\ c.op \in OpNames \union {"cancel"}
    /\ Threads(c.op, c.todo[1], c.route)

\* What the calls that write a row off, or hand it out, are about to write.
Writes(c) ==
    /\ c.op = "pull" /\ Head(c.route) \in {"slot", "save"} => c.copy.token \in Tokens
    /\ c.op = "nack dead" /\ Head(c.route) # "load" => c.copy.state = "dead"
    /\ c.op = "cancel" /\ Head(c.route) # "load" => c.copy.state = "cancelled"

Afoot ==
    /\ blob \in [Jobs -> Held] /\ call \in [Callers -> Calls]
    /\ DOMAIN ready \subseteq Jobs /\ DOMAIN leased \subseteq Jobs /\ dead \subseteq Jobs
    /\ held \subseteq Jobs \X Tokens
    /\ \A p \in Callers : call[p] = Idle \/ (Rides(call[p]) /\ Writes(call[p]))

\* p puts the row back, or writes it off, before it lets go of it.
Secures(p, j) ==
    /\ Acting(p) /\ Job(p) = j
    /\ On(p) # Check(Op(p)) /\ ~(Op(p) = "nack dead" /\ On(p) = "bury")

Found ==
    \A j \in Jobs : blob[j].state \in Active =>
        j \in DOMAIN ready \union DOMAIN leased \/ \E p \in Callers : Secures(p, j)

LEMMA Withdraws ==
    ASSUME NEW j \in Jobs
    PROVE  /\ Route("cancel", j) \in Seq(Words) /\ Threads("cancel", j, Route("cancel", j))
           /\ Head(Route("cancel", j)) = "load"
<1>0. <<"load", "unready", "unlease">> \in Seq(Words) /\ <<"save">> \in Seq(Words)
  BY DEF Words, Last
<1>1. PICK r : r = Route("cancel", j)
  OBVIOUS
<1>s. r \in Seq(Words)
  <2>1. r = (<<"load", "unready", "unlease">> \o If(Serial(j), "unslot")) \o <<"save">>
    BY <1>1 DEF Route
  <2>2. If(Serial(j), "unslot") \in Seq(Words)
    BY RouteParts
  <2>3. <<"load", "unready", "unlease">> \o If(Serial(j), "unslot") \in Seq(Words)
    BY <1>0, <2>2, RouteParts
  <2> QED BY <1>0, <2>1, <2>3, RouteParts
<1>2. CASE Serial(j)
  <2>1. Len(r) = 5 /\ r[1] = "load" /\ r[2] = "unready" /\ r[3] = "unlease" /\ r[4] = "unslot" /\ r[5] = "save"
    BY <1>1, <1>2 DEF Route, If
  <2>2. \A i \in 1..Len(r) : i = 1 \/ i = 2 \/ i = 3 \/ i = 4 \/ i = 5
    BY <2>1
  <2>3. r # <<>> /\ Head(r) = r[1]
    <3>1. Len(r) >= 1
      BY <2>1
    <3> QED BY <1>s, <3>1, HeadFirst
  <2> QED BY <1>1, <1>s, <2>1, <2>2, <2>3 DEF Threads, Withdrawal
<1>3. CASE ~Serial(j)
  <2>1. Len(r) = 4 /\ r[1] = "load" /\ r[2] = "unready" /\ r[3] = "unlease" /\ r[4] = "save"
    BY <1>1, <1>3 DEF Route, If
  <2>2. \A i \in 1..Len(r) : i = 1 \/ i = 2 \/ i = 3 \/ i = 4
    BY <2>1
  <2>3. r # <<>> /\ Head(r) = r[1]
    <3>1. Len(r) >= 1
      BY <2>1
    <3> QED BY <1>s, <3>1, HeadFirst
  <2> QED BY <1>1, <1>s, <2>1, <2>2, <2>3 DEF Threads, Withdrawal
<1> QED BY <1>2, <1>3

Opens(op, j) == IF op = "cancel" THEN "load" ELSE First(op, j)

LEMMA RouteThreads ==
    ASSUME NEW op \in OpNames \union {"cancel"}, NEW j \in Jobs
    PROVE  /\ Route(op, j) \in Seq(Words) /\ Threads(op, j, Route(op, j))
           /\ Head(Route(op, j)) = Opens(op, j)
<1>1. CASE op = "cancel"
  BY <1>1, Withdraws DEF Opens
<1>2. CASE op # "cancel"
  BY <1>2, Routes, RouteSeq DEF Threads, Opens
<1> QED BY <1>1, <1>2

\* One store call further.
LEMMA ThreadOn ==
    ASSUME NEW op \in OpNames \union {"cancel"}, NEW j, NEW r \in Seq(Words), Threads(op, j, r)
    PROVE  /\ r # <<>> /\ Head(r) \in IF op = "cancel" THEN Withdrawal ELSE Makes(op)
           /\ Closes(op, Head(r)) => Len(r) = 1
           /\ ~Closes(op, Head(r)) =>
                /\ Len(r) # 1 /\ Tail(r) \in Seq(Words) /\ Threads(op, j, Tail(r))
                /\ IF op = "cancel" THEN Head(Tail(r)) \in Withdrawal \ {"load"}
                   ELSE Head(Tail(r)) = Then(op, j, Head(r))
<1>1. CASE op # "cancel"
  <2>1. Chain(op, j, r) /\ r # <<>>
    BY <1>1 DEF Threads, Chain
  <2>2. ASSUME Head(r) \notin Last PROVE Tail(r) \in Seq(Words)
    BY <2>1, HeadTailProperties
  <2> QED BY <1>1, <2>1, <2>2, Further DEF Threads, Closes
<1>2. CASE op = "cancel"
  <2>1. /\ r # <<>>
        /\ \A i \in 1..Len(r) : /\ r[i] \in Withdrawal
                                /\ r[i] = "save" <=> i = Len(r)
                                /\ r[i] = "load" => i = 1
    BY <1>2 DEF Threads
  <2>2. Len(r) >= 1 /\ Head(r) = r[1] /\ Len(r) \in Nat /\ 1 \in 1..Len(r)
    BY <2>1
  <2>3. Head(r) \in Withdrawal /\ (Head(r) = "save" <=> Len(r) = 1)
    BY <2>1, <2>2
  <2>4. Closes(op, Head(r)) <=> Head(r) = "save"
    BY <1>2, <2>3 DEF Closes, Withdrawal, Last
  <2>5. ASSUME Len(r) # 1
        PROVE  /\ Tail(r) \in Seq(Words) /\ Threads(op, j, Tail(r))
               /\ Head(Tail(r)) \in Withdrawal \ {"load"}
    <3>1. PICK t \in Seq(Words) : t = Tail(r)
      BY <2>1, HeadTailProperties
    <3>2. Len(t) = Len(r) - 1 /\ \A i \in 1..Len(t) : t[i] = r[i + 1]
      BY <2>1, <3>1, HeadTailProperties
    <3>3. Len(t) >= 1 /\ Len(t) \in Nat
      <4>1. \A n \in Nat : n >= 1 /\ n # 1 => n - 1 >= 1
        OBVIOUS
      <4> QED BY <2>2, <2>5, <3>2, <4>1
    <3>4. t # <<>> /\ Head(t) = t[1] /\ 1 \in 1..Len(t)
      BY <3>3, HeadFirst
    <3>5. ASSUME NEW i \in 1..Len(t)
          PROVE  t[i] \in Withdrawal /\ (t[i] = "save" <=> i = Len(t)) /\ t[i] # "load"
      <4>1. i + 1 \in 1..Len(r) /\ (i + 1 = Len(r) <=> i = Len(t)) /\ i + 1 # 1
        BY <2>2, <3>2
      <4>2. /\ r[i + 1] \in Withdrawal /\ (r[i + 1] = "save" <=> i + 1 = Len(r))
            /\ r[i + 1] = "load" => i + 1 = 1
        BY <2>1, <4>1
      <4> QED BY <3>2, <4>1, <4>2
    <3>6. Threads(op, j, t)
      BY <1>2, <3>1, <3>4, <3>5 DEF Threads
    <3> QED BY <3>1, <3>4, <3>5, <3>6
  <2> QED BY <1>2, <2>1, <2>3, <2>4, <2>5
<1> QED BY <1>1, <1>2

\* The next row of a call, if there is one.
LEMMA NextRides ==
    ASSUME NEW c \in Calls, Rides(c)
    PROVE  \/ NextMember(c) = Idle
           \/ \E d \in Calls : /\ NextMember(c) = d /\ Rides(d) /\ d.op = c.op /\ d.got = c.got
                               /\ Head(d.route) = Opens(c.op, d.todo[1])
<1>1. c.op \in OpNames \union {"cancel"} /\ c.todo # <<>>
  BY DEF Rides
<1>2. PICK todo \in Seq(Jobs) : todo = c.todo
  BY DEF Calls
<1>3. CASE Len(todo) = 1
  BY <1>2, <1>3 DEF NextMember
<1>4. CASE Len(todo) # 1
  <2>1. Len(todo) \in Nat \ {0} /\ todo # <<>>
    BY <1>1, <1>2, EmptySeq
  <2>2. PICK rest \in Seq(Jobs) : /\ rest = Tail(todo) /\ Len(rest) = Len(todo) - 1
                                  /\ \A i \in 1..Len(rest) : rest[i] = todo[i + 1]
    BY <2>1, HeadTailProperties
  <2>3. Len(rest) >= 1 /\ 1 \in 1..Len(rest) /\ 2 \in 1..Len(todo)
    <3>1. \A n \in Nat \ {0} : n # 1 => n - 1 >= 1 /\ n - 1 \in Nat /\ n >= 2
      OBVIOUS
    <3> QED BY <1>4, <2>1, <2>2, <3>1
  <2>4. rest[1] = todo[2] /\ todo[2] \in Jobs
    <3>1. rest[1] = todo[1 + 1]
      BY <2>2, <2>3
    <3> QED BY <2>3, <3>1
  <2>5. rest # <<>>
    BY <2>3
  <2>6. PICK r \in Seq(Words) : /\ r = Route(c.op, todo[2]) /\ Threads(c.op, todo[2], r)
                                /\ Head(r) = Opens(c.op, todo[2])
    BY <1>1, <2>4, RouteThreads
  <2>7. PICK d : d = [c EXCEPT !.todo = rest, !.route = r, !.copy = NoBlob]
    OBVIOUS
  <2>8. NextMember(c) = d
    BY <1>2, <1>4, <2>2, <2>6, <2>7 DEF NextMember
  <2>9. NoBlob \in Held
    BY NoBlobIs
  <2>10. d.todo = rest /\ d.route = r /\ d.op = c.op /\ d.got = c.got
    BY <2>7 DEF Calls
  <2>11. d \in Calls
    BY <2>7, <2>9 DEF Calls
  <2>12. Rides(d)
    BY <1>1, <2>4, <2>5, <2>6, <2>10 DEF Rides
  <2> QED BY <2>4, <2>6, <2>8, <2>10, <2>11, <2>12
<1> QED BY <1>3, <1>4

LEMMA OneOnRides ==
    ASSUME NEW c \in Calls, Rides(c)
    PROVE  /\ Head(c.route) \in IF c.op = "cancel" THEN Withdrawal ELSE Makes(c.op)
           /\ c.route # <<>>
           /\ Closes(c.op, Head(c.route)) => OneOn(c) = NextMember(c)
           /\ ~Closes(c.op, Head(c.route)) =>
                \E d \in Calls :
                    /\ OneOn(c) = d /\ Rides(d) /\ d # Idle
                    /\ d.op = c.op /\ d.todo = c.todo /\ d.copy = c.copy /\ d.got = c.got
                    /\ IF c.op = "cancel" THEN Head(d.route) \in Withdrawal \ {"load"}
                       ELSE Head(d.route) = Then(c.op, c.todo[1], Head(c.route))
<1>1. /\ c.op \in OpNames \union {"cancel"} /\ c.todo # <<>>
      /\ c.route \in Seq(Words) /\ Threads(c.op, c.todo[1], c.route)
  BY DEF Rides, Calls
<1>2. /\ c.route # <<>>
      /\ Head(c.route) \in IF c.op = "cancel" THEN Withdrawal ELSE Makes(c.op)
      /\ Closes(c.op, Head(c.route)) => Len(c.route) = 1
      /\ ~Closes(c.op, Head(c.route)) =>
           /\ Len(c.route) # 1 /\ Tail(c.route) \in Seq(Words)
           /\ Threads(c.op, c.todo[1], Tail(c.route))
           /\ IF c.op = "cancel" THEN Head(Tail(c.route)) \in Withdrawal \ {"load"}
              ELSE Head(Tail(c.route)) = Then(c.op, c.todo[1], Head(c.route))
  BY <1>1, ThreadOn
<1>3. ASSUME ~Closes(c.op, Head(c.route))
      PROVE  \E d \in Calls :
                    /\ OneOn(c) = d /\ Rides(d) /\ d # Idle
                    /\ d.op = c.op /\ d.todo = c.todo /\ d.copy = c.copy /\ d.got = c.got
                    /\ IF c.op = "cancel" THEN Head(d.route) \in Withdrawal \ {"load"}
                       ELSE Head(d.route) = Then(c.op, c.todo[1], Head(c.route))
  <2>1. PICK r \in Seq(Words) : r = Tail(c.route)
    BY <1>2, <1>3
  <2>2. PICK d : d = [c EXCEPT !.route = r]
    OBVIOUS
  <2>3. /\ d \in Calls /\ d.route = r /\ d.todo = c.todo /\ d.op = c.op /\ d.copy = c.copy
        /\ d.got = c.got
    BY <2>1, <2>2 DEF Calls
  <2>4. Rides(d)
    BY <1>1, <1>2, <1>3, <2>1, <2>3 DEF Rides
  <2>5. d # Idle
    BY <1>1, <2>3 DEF Idle
  <2>6. OneOn(c) = d
    BY <1>2, <1>3, <2>1, <2>2 DEF OneOn
  <2> QED BY <1>2, <1>3, <2>1, <2>3, <2>4, <2>5, <2>6
<1> QED BY <1>2, <1>3 DEF OneOn

\* p's call is on its way, and with it the row k.
Rows(p, k) ==
    /\ call[p] \in Calls /\ Rides(call[p]) /\ Writes(call[p]) /\ Acting(p)
    /\ k = Job(p) /\ k \in Jobs /\ blob[k] \in Held
    /\ On(p) \in IF Op(p) = "cancel" THEN Withdrawal ELSE Makes(Op(p))
    /\ Op(p) \in OpNames \union {"cancel"}

LEMMA RowsIs ==
    ASSUME Afoot, NEW p \in Callers, NEW storeCall, At(p, storeCall), NEW k, k = Job(p)
    PROVE  Rows(p, k) /\ On(p) = storeCall
<1>1. call[p] # Idle
  BY DEF At, Idle
<1>2. call[p] \in Calls /\ Rides(call[p]) /\ Writes(call[p])
  BY <1>1 DEF Afoot
<1>3. PICK todo \in Seq(Jobs) : todo = call[p].todo
  BY <1>2 DEF Calls
<1>4. todo # <<>> /\ call[p].op \in OpNames \union {"cancel"}
  BY <1>2, <1>3 DEF Rides
<1>5. Len(todo) >= 1 /\ 1 \in 1..Len(todo) /\ todo[1] \in Jobs
  BY <1>3, <1>4
<1>6. Head(call[p].route) \in IF call[p].op = "cancel" THEN Withdrawal ELSE Makes(call[p].op)
  BY <1>2, OneOnRides
<1>7. k \in Jobs /\ blob[k] \in Held
  BY <1>3, <1>5 DEF Job, Afoot
<1> QED BY <1>2, <1>3, <1>4, <1>6, <1>7 DEF Rows, At, On, Op, Acting

\* What becomes of p's call: it is done with the row, or goes on with it.
Only(p) ==
    /\ call' \in [Callers -> Calls] /\ \A q \in Callers \ {p} : call'[q] = call[q]
    /\ held' \subseteq held \union call[p].got
    /\ call'[p] = Idle \/ (Rides(call'[p]) /\ Writes(call'[p]))

Rids(p, copy, got) ==
    /\ Only(p) /\ Acting(p)' /\ Job(p)' = Job(p) /\ Op(p)' = Op(p) /\ held' = held
    /\ call'[p].copy = copy /\ call'[p].got = got

\* Once past its check, a call does not come back to it, and buries what it has saved.
LEMMA PastCheck ==
    ASSUME NEW op \in OpNames, NEW j, NEW on \in Makes(op), on \notin Last
    PROVE  /\ Then(op, j, on) # Check(op)
           /\ Then(op, j, on) = "bury" /\ op = "nack dead" => on = "save"
           /\ op = "pull" /\ Then(op, j, on) \in {"slot", "save"} => on \in {"load", "slot"}
<1>1. CASE op = "push"
  BY <1>1 DEF Makes, Last, Then, Check, Settles
<1>2. CASE op = "pull"
  BY <1>2 DEF Makes, Last, Then, Check, Settles
<1>3. CASE op = "reclaim"
  BY <1>3 DEF Makes, Last, Then, Check, Settles
<1>4. CASE op \in {"retry", "discard"}
  BY <1>4 DEF Makes, Last, Then, Check, Settles
<1>5. CASE op = "heartbeat"
  BY <1>5 DEF Makes, Last, Then, Check, Settles
<1>6. CASE op = "ack"
  BY <1>6 DEF Makes, Last, Then, Check, Settles
<1>7. CASE op = "nack"
  BY <1>7 DEF Makes, Last, Then, Check, Settles
<1>8. CASE op = "nack dead"
  BY <1>8 DEF Makes, Last, Then, Check, Settles
<1> QED BY <1>1, <1>2, <1>3, <1>4, <1>5, <1>6, <1>7, <1>8 DEF OpNames

LEMMA LeavesRides ==
    ASSUME Afoot, NEW p \in Callers, NEW k, Rows(p, k), Becomes(p, NextMember(call[p]))
    PROVE  Only(p)
<1>1. /\ call' = [call EXCEPT ![p] = NextMember(call[p])]
      /\ held' = IF NextMember(call[p]) = Idle THEN held \union call[p].got ELSE held
  BY DEF Becomes
<1>2. call[p] \in Calls /\ Rides(call[p]) /\ call \in [Callers -> Calls]
  BY DEF Rows, Afoot
<1>3. CASE NextMember(call[p]) = Idle
  <2>1. call' \in [Callers -> Calls] /\ call'[p] = Idle /\ \A q \in Callers \ {p} : call'[q] = call[q]
    <3> HIDE DEF Idle
    <3> QED BY <1>1, <1>2, <1>3, IdleCall
  <2> QED BY <1>1, <2>1 DEF Only
<1>4. ASSUME NEW d \in Calls, NextMember(call[p]) = d, Rides(d), d.op = call[p].op,
             Head(d.route) = Opens(call[p].op, d.todo[1])
      PROVE  Only(p)
  <2>1. call' \in [Callers -> Calls] /\ call'[p] = d /\ \A q \in Callers \ {p} : call'[q] = call[q]
    BY <1>1, <1>2, <1>4
  <2>2. Writes(d)
    <3>1. d.op = "pull" => Head(d.route) = "unready"
      BY <1>4 DEF Opens, First
    <3>2. d.op = "nack dead" => Head(d.route) = "load"
      BY <1>4 DEF Opens, First
    <3>3. d.op = "cancel" => Head(d.route) = "load"
      BY <1>4 DEF Opens
    <3> QED BY <3>1, <3>2, <3>3 DEF Writes
  <2> QED BY <1>1, <1>4, <2>1, <2>2 DEF Only
<1> QED BY <1>2, <1>3, <1>4, NextRides

LEMMA BecomesRides ==
    ASSUME Afoot, NEW p \in Callers, NEW k, Rows(p, k), NEW d \in Calls, Becomes(p, d), d # Idle,
           Rides(d), Writes(d), d.op = call[p].op, d.todo = call[p].todo
    PROVE  Rids(p, d.copy, d.got) /\ On(p)' = Head(d.route)
<1>1. call' = [call EXCEPT ![p] = d] /\ held' = held /\ call \in [Callers -> Calls]
  BY DEF Becomes, Afoot
<1>2. call' \in [Callers -> Calls] /\ call'[p] = d /\ \A q \in Callers \ {p} : call'[q] = call[q]
  BY <1>1
<1>3. Only(p)
  BY <1>1, <1>2 DEF Only
<1>4. Acting(p)' /\ Job(p)' = Job(p) /\ Op(p)' = Op(p) /\ On(p)' = Head(d.route)
  BY <1>2 DEF Acting, Job, Op, On, Rides
<1> QED BY <1>1, <1>2, <1>3, <1>4 DEF Rids

\* The store call that follows in p's call.
Follows(p) ==
    IF Op(p) = "cancel" THEN On(p)' \in Withdrawal \ {"load"}
    ELSE On(p)' = Then(Op(p), Job(p), On(p))

LEMMA GoesOnRides ==
    ASSUME Afoot, NEW p \in Callers, NEW k, Rows(p, k), GoesOn(p), On(p) # "load"
    PROVE  /\ Only(p)
           /\ ~Closes(Op(p), On(p)) => Rids(p, call[p].copy, call[p].got) /\ Follows(p)
<1>1. /\ call[p] \in Calls /\ Rides(call[p]) /\ Writes(call[p])
      /\ On(p) \in IF Op(p) = "cancel" THEN Withdrawal ELSE Makes(Op(p))
      /\ Op(p) \in OpNames \union {"cancel"}
  BY DEF Rows
<1>2. CASE Closes(Op(p), On(p))
  <2>1. Becomes(p, NextMember(call[p]))
    BY <1>1, <1>2, OneOnRides DEF GoesOn, Op, On
  <2> QED BY <1>2, <2>1, LeavesRides
<1>3. CASE ~Closes(Op(p), On(p))
  <2>1. PICK d \in Calls :
            /\ OneOn(call[p]) = d /\ Rides(d) /\ d # Idle
            /\ d.op = call[p].op /\ d.todo = call[p].todo /\ d.copy = call[p].copy /\ d.got = call[p].got
            /\ IF Op(p) = "cancel" THEN Head(d.route) \in Withdrawal \ {"load"}
               ELSE Head(d.route) = Then(Op(p), Job(p), On(p))
    BY <1>1, <1>3, OneOnRides DEF Op, On, Job
  <2>2. Writes(d)
    <3>1. ASSUME d.op = "pull", Head(d.route) \in {"slot", "save"} PROVE d.copy.token \in Tokens
      <4>1. On(p) \in Makes("pull") /\ On(p) \notin Last /\ Op(p) = "pull" /\ "pull" \in OpNames
        BY <1>1, <1>3, <2>1, <3>1 DEF Op, Closes, OpNames
      <4>2. Then("pull", Job(p), On(p)) \in {"slot", "save"}
        BY <2>1, <3>1, <4>1
      <4>3. On(p) = "slot"
        BY <4>1, <4>2, PastCheck
      <4> QED BY <1>1, <2>1, <4>1, <4>3 DEF Writes, Op, On
    <3>2. d.op = "nack dead" => d.copy.state = "dead"
      BY <1>1, <2>1 DEF Writes, On
    <3>3. d.op = "cancel" => d.copy.state = "cancelled"
      BY <1>1, <2>1 DEF Writes, On
    <3> QED BY <3>1, <3>2, <3>3 DEF Writes
  <2>3. Rids(p, d.copy, d.got) /\ On(p)' = Head(d.route)
    BY <2>1, <2>2, BecomesRides DEF GoesOn
  <2>4. Only(p)
    BY <2>3 DEF Rids
  <2> QED BY <1>3, <2>1, <2>3, <2>4 DEF Follows
<1> QED BY <1>2, <1>3

\* A call that goes on with a row puts it back or writes it off, unless it is a nack
\* that has just written it off.
LEMMA SecuresOn ==
    ASSUME NEW p \in Callers, NEW k, Rows(p, k), NEW copy, NEW got, Rids(p, copy, got), Follows(p),
           ~Closes(Op(p), On(p)), Op(p) = "nack dead" => On(p) # "save"
    PROVE  Secures(p, k)'
<1>1. /\ On(p) \in IF Op(p) = "cancel" THEN Withdrawal ELSE Makes(Op(p))
      /\ Op(p) \in OpNames \union {"cancel"} /\ k = Job(p)
  BY DEF Rows
<1>2. Acting(p)' /\ Job(p)' = k /\ Op(p)' = Op(p)
  BY <1>1 DEF Rids
<1>3. CASE Op(p) = "cancel"
  <2>1. On(p)' # "load" /\ Check(Op(p)') = "load"
    BY <1>2, <1>3 DEF Follows, Check
  <2> QED BY <1>2, <1>3, <2>1 DEF Secures
<1>4. CASE Op(p) # "cancel"
  <2>1. On(p) \notin Last /\ On(p)' = Then(Op(p), Job(p), On(p))
    BY <1>4 DEF Closes, Follows
  <2>2. On(p)' # Check(Op(p)) /\ (Op(p) = "nack dead" => On(p)' # "bury")
    BY <1>1, <1>4, <2>1, PastCheck
  <2>3. Check(Op(p)') = Check(Op(p))
    BY <1>2
  <2>4. Check(Op(p))' = Check(Op(p)')
    BY DEF Check
  <2> QED BY <1>2, <2>2, <2>3, <2>4 DEF Secures
<1> QED BY <1>3, <1>4

\* What the calls that end with the row alone are.
LEMMA CancelIs ==
    ASSUME NEW b \in Held, NEW c \in Updated("cancel", b)
    PROVE  c \in Held /\ c.state = "cancelled"
<1>1. PICK free : free = [b EXCEPT !.token = NoToken]
  OBVIOUS
<1>2. free \in Held
  BY <1>1 DEF Held
<1>3. c = [free EXCEPT !.state = "cancelled"]
  BY <1>1 DEF Updated, Settles
<1> QED BY <1>2, <1>3 DEF Held

\* A load writes what the operation will save, or sends the call away.
LEMMA LoadRides ==
    ASSUME Afoot, NEW p \in Callers, NEW k, Rows(p, k), Load(p), On(p) = "load"
    PROVE  \/ ~Proceeds(call[p], blob[k]) /\ Only(p)
           \/ (\E b : Rids(p, b, call[p].got)) /\ Follows(p)
<1>1. /\ call[p] \in Calls /\ Rides(call[p]) /\ k = Job(p) /\ blob[k] \in Held
      /\ On(p) \in IF Op(p) = "cancel" THEN Withdrawal ELSE Makes(Op(p))
      /\ Op(p) \in OpNames \union {"cancel"}
  BY DEF Rows
<1>2. CASE ~Proceeds(call[p], blob[k])
  <2>1. Becomes(p, NextMember(call[p]))
    BY <1>1, <1>2 DEF Load
  <2> QED BY <1>2, <2>1, LeavesRides
<1>3. CASE Proceeds(call[p], blob[k])
  <2>1. PICK b \in Updated(Op(p), blob[k]) : Becomes(p, [OneOn(call[p]) EXCEPT !.copy = b])
    BY <1>1, <1>3 DEF Load, Op
  <2>2. Op(p) \notin {"push", "discard"}
    BY <1>1 DEF Makes, OpNames
  <2>3. /\ b \in Held /\ (Op(p) = "pull" => b.token \in Tokens)
        /\ (Op(p) = "nack dead" => b.state = "dead")
        /\ (Op(p) = "cancel" => b.state = "cancelled")
    <3>1. CASE Op(p) = "cancel"
      BY <1>1, <2>1, <3>1, CancelIs
    <3>2. CASE Op(p) # "cancel"
      <4>1. PICK op \in OpNames \ {"push", "discard"} : op = Op(p)
        BY <1>1, <2>2, <3>2
      <4>2. b \in Updated(op, blob[k])
        BY <2>1, <4>1
      <4>3. /\ b \in Held /\ (op = "pull" => b.token \in Tokens \ UsedTokens)
            /\ op \in Settles => Lies(b, Ending(op))
        BY <1>1, <4>1, <4>2, UpdatedIs
      <4>4. op = "nack dead" => b.state = "dead"
        BY <4>3 DEF Settles, Lies, Ending
      <4> QED BY <3>2, <4>1, <4>3, <4>4
    <3> QED BY <3>1, <3>2
  <2>4. ~Closes(Op(p), On(p))
    BY DEF Closes, Last
  <2>5. PICK d \in Calls :
            /\ OneOn(call[p]) = d /\ Rides(d) /\ d # Idle
            /\ d.op = call[p].op /\ d.todo = call[p].todo /\ d.copy = call[p].copy /\ d.got = call[p].got
            /\ IF Op(p) = "cancel" THEN Head(d.route) \in Withdrawal \ {"load"}
               ELSE Head(d.route) = Then(Op(p), Job(p), On(p))
    BY <1>1, <2>4, OneOnRides DEF Op, On, Job
  <2>6. PICK e : e = [d EXCEPT !.copy = b]
    OBVIOUS
  <2>7. /\ e \in Calls /\ e.copy = b /\ e.op = d.op /\ e.todo = d.todo /\ e.got = d.got
        /\ e.route = d.route
    BY <2>3, <2>6 DEF Calls
  <2>8. Rides(e)
    BY <2>5, <2>7 DEF Rides
  <2>9. Writes(e)
    BY <2>3, <2>5, <2>7 DEF Writes, Op
  <2>10. e # Idle
    BY <2>7, <2>8 DEF Rides, Idle
  <2>11. Becomes(p, e)
    BY <2>1, <2>5, <2>6
  <2>12. Rids(p, e.copy, e.got) /\ On(p)' = Head(e.route)
    BY <2>5, <2>7, <2>8, <2>9, <2>10, <2>11, BecomesRides
  <2> QED BY <2>5, <2>7, <2>12 DEF Follows
<1> QED BY <1>2, <1>3

\* A step of p's that sees to its own row leaves every row to be found.
LEMMA KeepsFound ==
    ASSUME Found, NEW p \in Callers, NEW k \in Jobs, Acting(p), k = Job(p),
           \A q \in Callers \ {p} : call'[q] = call[q],
           \A j \in Jobs \ {k} :
              /\ blob'[j] = blob[j]
              /\ j \in DOMAIN ready => j \in DOMAIN ready'
              /\ j \in DOMAIN leased => j \in DOMAIN leased',
           \/ blob'[k].state \notin Active
           \/ k \in DOMAIN ready' \/ k \in DOMAIN leased'
           \/ Secures(p, k)'
           \/ /\ blob'[k] = blob[k] /\ ~Secures(p, k)
              /\ k \in DOMAIN ready => k \in DOMAIN ready'
              /\ k \in DOMAIN leased => k \in DOMAIN leased'
    PROVE  Found'
<1> SUFFICES ASSUME NEW j \in Jobs, blob'[j].state \in Active,
                    j \notin DOMAIN ready', j \notin DOMAIN leased'
             PROVE  \E q \in Callers : Secures(q, j)'
  BY DEF Found, Active, Waiting
<1>1. ASSUME NEW q \in Callers \ {p}, Secures(q, j) PROVE Secures(q, j)'
  <2>1. call'[q] = call[q]
    OBVIOUS
  <2> QED BY <1>1, <2>1 DEF Secures, Acting, Job, On, Op, Check
<1>2. CASE j # k
  <2>1. blob[j].state \in Active /\ j \notin DOMAIN ready /\ j \notin DOMAIN leased
    BY <1>2
  <2>2. PICK q \in Callers : Secures(q, j)
    BY <2>1 DEF Found
  <2>3. q # p
    BY <1>2, <2>2 DEF Secures
  <2> QED BY <1>1, <2>2, <2>3
<1>3. CASE j = k /\ ~Secures(p, k)'
  <2>1. blob[j].state \in Active /\ j \notin DOMAIN ready /\ j \notin DOMAIN leased /\ ~Secures(p, j)
    BY <1>3
  <2>2. PICK q \in Callers : Secures(q, j)
    BY <2>1 DEF Found
  <2> QED BY <1>1, <2>1, <2>2
<1> QED BY <1>2, <1>3

\* Two of the ways in which a step keeps what is afoot.
LEMMA OnlyAfoot ==
    ASSUME Afoot, NEW p \in Callers, Only(p), blob' \in [Jobs -> Held], DOMAIN ready' \subseteq Jobs,
           DOMAIN leased' \subseteq Jobs, dead' \subseteq Jobs
    PROVE  Afoot'
<1>1. call[p] \in Calls
  BY DEF Afoot
<1>2. held' \subseteq Jobs \X Tokens
  BY <1>1 DEF Only, Afoot, Calls
<1>3. \A q \in Callers : call'[q] = Idle \/ (Rides(call'[q]) /\ Writes(call'[q]))
  BY DEF Only, Afoot
<1> QED BY <1>2, <1>3 DEF Afoot, Only

LEMMA Advances ==
    ASSUME Afoot, NEW p \in Callers, NEW k, Rows(p, k), GoesOn(p),
           On(p) \notin Last \union {"load", "save"}
    PROVE  Only(p) /\ Secures(p, k)'
<1>1. ~Closes(Op(p), On(p)) /\ On(p) # "load" /\ On(p) # "save"
  BY DEF Closes
<1>2. Only(p) /\ Rids(p, call[p].copy, call[p].got) /\ Follows(p)
  BY <1>1, GoesOnRides
<1>3. PICK copy : copy = call[p].copy
  OBVIOUS
<1>4. PICK got : got = call[p].got
  OBVIOUS
<1>5. Rids(p, copy, got)
  BY <1>2, <1>3, <1>4
<1> QED BY <1>1, <1>2, <1>5, SecuresOn

LEMMA RemovedRides ==
    ASSUME Afoot, NEW p \in Callers, NEW k, Rows(p, k), NEW members, Removed(p, members),
           On(p) \in {"unready", "unlease", "undead"}
    PROVE  Only(p) /\ (Secures(p, k)' \/ (k \notin members /\ ~Secures(p, k)))
<1>1. /\ k = Job(p) /\ Op(p) \in OpNames \union {"cancel"}
      /\ On(p) \in IF Op(p) = "cancel" THEN Withdrawal ELSE Makes(Op(p))
  BY DEF Rows
<1>2. CASE Op(p) \in Claims /\ k \notin members
  <2>1. Becomes(p, NextMember(call[p]))
    BY <1>1, <1>2 DEF Removed, Op
  <2>2. Only(p)
    BY <2>1, LeavesRides
  <2>3. On(p) = Check(Op(p))
    BY <1>1, <1>2 DEF Claims, Check, Makes
  <2> QED BY <1>2, <2>2, <2>3 DEF Secures
<1>3. CASE ~(Op(p) \in Claims /\ k \notin members)
  <2>1. GoesOn(p)
    BY <1>1, <1>3 DEF Removed, Op
  <2>2. On(p) \notin Last \union {"load", "save"}
    BY DEF Last
  <2> QED BY <2>1, <2>2, Advances
<1> QED BY <1>2, <1>3

\* The loser of a serial slot is about to put the row back.
LEMMA LosesRides ==
    ASSUME Afoot, NEW p \in Callers, NEW k, Rows(p, k), On(p) = "slot",
           Becomes(p, [call[p] EXCEPT !.route = <<"enqueue">>])
    PROVE  Only(p) /\ Secures(p, k)'
<1>1. /\ call[p] \in Calls /\ Rides(call[p]) /\ k = Job(p)
      /\ Op(p) \in OpNames \union {"cancel"}
      /\ On(p) \in IF Op(p) = "cancel" THEN Withdrawal ELSE Makes(Op(p))
  BY DEF Rows
<1>2. Op(p) = "pull"
  BY <1>1 DEF Makes, Withdrawal, OpNames
<1>0. <<"enqueue">> \in Seq(Words)
  BY DEF Words, Last
<1>2a. PICK r : r = <<"enqueue">>
  OBVIOUS
<1>3. r = <<"enqueue">> /\ r \in Seq(Words)
  BY <1>0, <1>2a
<1>4. r # <<>> /\ Len(r) = 1 /\ r[1] = "enqueue" /\ Head(r) = "enqueue"
  BY <1>3
<1>5. PICK d : d = [call[p] EXCEPT !.route = r]
  OBVIOUS
<1>6. /\ d \in Calls /\ d.route = r /\ d.op = call[p].op /\ d.todo = call[p].todo
      /\ d.copy = call[p].copy /\ d.got = call[p].got
  BY <1>1, <1>3, <1>5 DEF Calls
<1>7. Chain("pull", d.todo[1], r)
  <2>1. \A i \in 1..Len(r) : i = 1
    BY <1>4
  <2>2. "enqueue" \in Makes("pull") /\ "enqueue" \in Last
    BY DEF Makes, Last
  <2> QED BY <1>3, <1>4, <2>1, <2>2 DEF Chain
<1>8. Rides(d)
  BY <1>1, <1>2, <1>6, <1>7 DEF Rides, Threads, Op
<1>9. Writes(d) /\ d # Idle
  BY <1>2, <1>4, <1>6 DEF Writes, Op, Idle
<1>10. Becomes(p, d)
  BY <1>3, <1>5
<1>11. Rids(p, d.copy, d.got) /\ On(p)' = Head(d.route)
  BY <1>6, <1>8, <1>9, <1>10, BecomesRides
<1>12. Acting(p)' /\ Job(p)' = k /\ Op(p)' = "pull" /\ On(p)' = "enqueue" /\ Only(p)
  BY <1>1, <1>2, <1>4, <1>6, <1>11 DEF Rids
<1>13. Check(Op(p)') = "unready" /\ Check(Op(p))' = Check(Op(p)')
  BY <1>12 DEF Check
<1>14. On(p)' # Check(Op(p))' /\ Op(p)' # "nack dead"
  BY <1>12, <1>13
<1> QED BY <1>12, <1>14 DEF Secures

\* A save ends the row, or its call will put the row back.
LEMMA SaveRides ==
    ASSUME Afoot, NEW p \in Callers, NEW k, Rows(p, k), Save(p), On(p) = "save"
    PROVE  Only(p) /\ (Secures(p, k)' \/ call[p].copy.state \notin Active)
<1>1. /\ call[p] \in Calls /\ Rides(call[p]) /\ Writes(call[p]) /\ k = Job(p) /\ k \in Jobs
      /\ Op(p) \in OpNames \union {"cancel"}
      /\ On(p) \in IF Op(p) = "cancel" THEN Withdrawal ELSE Makes(Op(p))
  BY DEF Rows
<1>2. CASE Op(p) \in {"cancel", "nack dead"}
  <2>1. GoesOn(p)
    BY <1>2 DEF Save, GoesOn, Op
  <2>2. call[p].copy.state \in {"cancelled", "dead"}
    BY <1>1, <1>2 DEF Writes, Op, On
  <2>3. Only(p)
    BY <2>1, GoesOnRides
  <2> QED BY <2>2, <2>3 DEF Active, Waiting
<1>3. CASE Op(p) \notin {"cancel", "nack dead", "pull"}
  <2>1. GoesOn(p)
    BY <1>3 DEF Save, GoesOn, Op
  <2>2. ~Closes(Op(p), On(p)) /\ On(p) # "load"
    BY <1>3 DEF Closes, Last
  <2>3. Only(p) /\ Rids(p, call[p].copy, call[p].got) /\ Follows(p)
    BY <2>1, <2>2, GoesOnRides
  <2>4. PICK copy : copy = call[p].copy
    OBVIOUS
  <2>5. PICK got : got = call[p].got
    OBVIOUS
  <2>6. Rids(p, copy, got)
    BY <2>3, <2>4, <2>5
  <2> QED BY <1>3, <2>2, <2>3, <2>6, SecuresOn
<1>4. CASE Op(p) = "pull"
  <2>1. call[p].copy.token \in Tokens
    BY <1>1, <1>4 DEF Writes, Op, On
  <2>2. PICK more : more = call[p].got \union {<<k, call[p].copy.token>>}
    OBVIOUS
  <2>3. more \subseteq Jobs \X Tokens
    BY <1>1, <2>1, <2>2 DEF Calls
  <2>4. PICK c : c = [call[p] EXCEPT !.got = more]
    OBVIOUS
  <2>5. /\ c \in Calls /\ c.op = call[p].op /\ c.todo = call[p].todo /\ c.route = call[p].route
        /\ c.copy = call[p].copy
    BY <1>1, <2>3, <2>4 DEF Calls
  <2>6. Becomes(p, OneOn(c))
    BY <1>1, <1>4, <2>2, <2>4 DEF Save, Op
  <2>7. Rides(c)
    BY <1>1, <2>5 DEF Rides
  <2>8. ~Closes(c.op, Head(c.route)) /\ ~Closes(Op(p), On(p))
    BY <1>4, <2>5 DEF Closes, Last, Op, On
  <2>9. PICK d \in Calls :
            /\ OneOn(c) = d /\ Rides(d) /\ d # Idle
            /\ d.op = c.op /\ d.todo = c.todo /\ d.copy = c.copy
            /\ IF c.op = "cancel" THEN Head(d.route) \in Withdrawal \ {"load"}
               ELSE Head(d.route) = Then(c.op, c.todo[1], Head(c.route))
    BY <2>5, <2>7, <2>8, OneOnRides
  <2>10. Head(d.route) = Then(Op(p), Job(p), On(p))
    BY <1>4, <2>5, <2>9 DEF Op, Job, On
  <2>11. Writes(d)
    BY <1>4, <2>1, <2>5, <2>9 DEF Writes, Op
  <2>12. Rids(p, d.copy, d.got) /\ On(p)' = Head(d.route)
    BY <2>5, <2>6, <2>9, <2>11, BecomesRides
  <2>13. Follows(p) /\ Only(p)
    BY <1>4, <2>10, <2>12 DEF Follows, Rids
  <2>14. PICK copy : copy = d.copy
    OBVIOUS
  <2>15. PICK got : got = d.got
    OBVIOUS
  <2>16. Rids(p, copy, got)
    BY <2>12, <2>14, <2>15
  <2>17. Op(p) = "nack dead" => On(p) # "save"
    BY <1>4
  <2> QED BY <2>8, <2>13, <2>16, <2>17, SecuresOn
<1> QED BY <1>2, <1>3, <1>4

\* Every store call leaves every row to be found.
LEMMA StoreFound ==
    ASSUME Afoot, Found, NEW p \in Callers, StoreCall(p)
    PROVE  Afoot' /\ Found'
<1>1. ASSUME NEW k, Rows(p, k), Only(p),
             blob' = blob \/ (blob' = [blob EXCEPT ![k] = NoBlob])
                \/ (blob' = [blob EXCEPT ![k] = call[p].copy] /\ On(p) = "save"),
             DOMAIN ready' \subseteq Jobs, DOMAIN leased' \subseteq Jobs, dead' \subseteq Jobs,
             \A j \in Jobs \ {k} : /\ j \in DOMAIN ready => j \in DOMAIN ready'
                                   /\ j \in DOMAIN leased => j \in DOMAIN leased',
             \/ blob'[k].state \notin Active
             \/ k \in DOMAIN ready' \/ k \in DOMAIN leased'
             \/ Secures(p, k)'
             \/ /\ blob' = blob /\ ~Secures(p, k)
                /\ k \in DOMAIN ready => k \in DOMAIN ready'
                /\ k \in DOMAIN leased => k \in DOMAIN leased'
      PROVE  Afoot' /\ Found'
  <2>1. k \in Jobs /\ k = Job(p) /\ Acting(p) /\ call[p].copy \in Held /\ NoBlob \in Held
    BY <1>1, NoBlobIs DEF Rows, Calls
  <2>2. blob' \in [Jobs -> Held] /\ \A j \in Jobs \ {k} : blob'[j] = blob[j]
    <3>1. PICK b \in Held : b = call[p].copy
      BY <2>1
    <3>2. PICK e \in Held : e = NoBlob
      BY <2>1
    <3> QED BY <1>1, <2>1, <3>1, <3>2 DEF Afoot
  <2>3. Afoot'
    BY <1>1, <2>2, OnlyAfoot
  <2>4. \A q \in Callers \ {p} : call'[q] = call[q]
    BY <1>1 DEF Only
  <2>5. Found'
    BY <1>1, <2>1, <2>2, <2>4, KeepsFound
  <2> QED BY <2>3, <2>5
<1>2. DOMAIN ready \subseteq Jobs /\ DOMAIN leased \subseteq Jobs /\ dead \subseteq Jobs
  BY DEF Afoot
<1>3. ASSUME NEW x, At(p, x)
      PROVE  \E k : /\ Rows(p, k) /\ On(p) = x /\ k = Job(p) /\ k \in Jobs
                    /\ Op(p) \in OpNames \union {"cancel"}
                    /\ On(p) \in IF Op(p) = "cancel" THEN Withdrawal ELSE Makes(Op(p))
  <2>1. PICK k : k = Job(p)
    OBVIOUS
  <2>2. Rows(p, k) /\ On(p) = x
    BY <1>3, <2>1, RowsIs
  <2> QED BY <2>1, <2>2 DEF Rows
<1>4. CASE Mark(p)
  <2>1. At(p, "mark") /\ UNCHANGED <<blob, ready, leased, dead>>
    BY <1>4 DEF Mark, indexes
  <2>2. PICK k : /\ Rows(p, k) /\ On(p) = "mark" /\ Op(p) \in OpNames \union {"cancel"}
                 /\ On(p) \in IF Op(p) = "cancel" THEN Withdrawal ELSE Makes(Op(p))
    BY <1>3, <2>1
  <2>3. Op(p) = "push"
    BY <2>2 DEF Makes, Withdrawal, OpNames
  <2>4. ~Secures(p, k)
    BY <2>2, <2>3 DEF Secures, Check
  <2>5. CASE GoesOn(p)
    <3>1. Only(p)
      BY <2>2, <2>5, GoesOnRides
    <3> QED BY <1>1, <1>2, <2>1, <2>2, <2>4, <3>1
  <2>6. CASE Becomes(p, Idle)
    <3>1. call' = [call EXCEPT ![p] = Idle] /\ held' = held \union call[p].got
      BY <2>6 DEF Becomes
    <3>2. call' \in [Callers -> Calls] /\ call'[p] = Idle /\ \A q \in Callers \ {p} : call'[q] = call[q]
      <4> HIDE DEF Idle
      <4> QED BY <3>1, IdleCall DEF Afoot
    <3>3. Only(p)
      BY <3>1, <3>2 DEF Only
    <3> QED BY <1>1, <1>2, <2>1, <2>2, <2>4, <3>3
  <2> QED BY <1>4, <2>5, <2>6 DEF Mark
<1>5. CASE Unmark(p) \/ ReleaseSerial(p) \/ ExtendSerial(p) \/ (ClaimSerial(p) /\ GoesOn(p))
  <2>1. GoesOn(p) /\ UNCHANGED <<blob, ready, leased, dead>>
    BY <1>5 DEF Unmark, ReleaseSerial, ExtendSerial, ClaimSerial, indexes
  <2>2. PICK x \in {"unmark", "unslot", "extend", "slot"} : At(p, x)
    BY <1>5 DEF Unmark, ReleaseSerial, ExtendSerial, ClaimSerial
  <2>3. PICK k : Rows(p, k) /\ On(p) = x
    BY <1>3, <2>2
  <2>4. On(p) \notin Last \union {"load", "save"}
    BY <2>3 DEF Last
  <2>5. Only(p) /\ Secures(p, k)'
    BY <2>1, <2>3, <2>4, Advances
  <2> QED BY <1>1, <1>2, <2>1, <2>3, <2>5
<1>6. CASE ClaimSerial(p) /\ Becomes(p, [call[p] EXCEPT !.route = <<"enqueue">>])
  <2>1. At(p, "slot") /\ UNCHANGED <<blob, ready, leased, dead>>
    BY <1>6 DEF ClaimSerial, indexes
  <2>2. PICK k : Rows(p, k) /\ On(p) = "slot"
    BY <1>3, <2>1
  <2>3. Only(p) /\ Secures(p, k)'
    BY <1>6, <2>2, LosesRides
  <2> QED BY <1>1, <1>2, <2>1, <2>2, <2>3
<1>7. CASE Load(p)
  <2>1. At(p, "load") /\ UNCHANGED <<blob, ready, leased, dead>>
    BY <1>7 DEF Load, indexes
  <2>2. PICK k : /\ Rows(p, k) /\ On(p) = "load" /\ k = Job(p) /\ Op(p) \in OpNames \union {"cancel"}
                 /\ On(p) \in IF Op(p) = "cancel" THEN Withdrawal ELSE Makes(Op(p))
    BY <1>3, <2>1
  <2>3. CASE ~Proceeds(call[p], blob[k]) /\ Only(p)
    <3>1. CASE Op(p) \in {"pull", "reclaim", "retry"}
      <4>1. blob[k] = NoBlob
        BY <2>3, <3>1 DEF Proceeds, Op, Settles
      <4>2. blob'[k].state \notin Active
        BY <2>1, <4>1 DEF NoBlob, Active, Waiting
      <4> QED BY <1>1, <1>2, <2>1, <2>2, <2>3, <4>2
    <3>2. CASE Op(p) \notin {"pull", "reclaim", "retry"}
      <4>1. Op(p) \in Settles \union {"heartbeat", "cancel"}
        BY <2>2, <3>2 DEF Makes, OpNames, Settles
      <4>2. ~Secures(p, k)
        BY <2>2, <4>1 DEF Secures, Check, Settles
      <4> QED BY <1>1, <1>2, <2>1, <2>2, <2>3, <4>2
    <3> QED BY <3>1, <3>2
  <2>4. CASE (\E b : Rids(p, b, call[p].got)) /\ Follows(p)
    <3>1. PICK got : got = call[p].got
      OBVIOUS
    <3>2. PICK b : Rids(p, b, got)
      BY <2>4, <3>1
    <3>3. ~Closes(Op(p), On(p)) /\ (Op(p) = "nack dead" => On(p) # "save")
      BY <2>2 DEF Closes, Last
    <3>4. Secures(p, k)'
      BY <2>2, <2>4, <3>2, <3>3, SecuresOn
    <3>5. Only(p)
      BY <3>2 DEF Rids
    <3> QED BY <1>1, <1>2, <2>1, <2>2, <3>4, <3>5
  <2> QED BY <1>7, <2>2, <2>3, <2>4, LoadRides
<1>8. CASE Save(p)
  <2>1. /\ At(p, "save") /\ UNCHANGED <<ready, leased, dead>>
        /\ blob' = [blob EXCEPT ![Job(p)] = call[p].copy]
    BY <1>8 DEF Save, indexes
  <2>2. PICK k : Rows(p, k) /\ On(p) = "save" /\ k = Job(p) /\ k \in Jobs
    BY <1>3, <2>1
  <2>3. Only(p) /\ (Secures(p, k)' \/ call[p].copy.state \notin Active)
    BY <1>8, <2>2, SaveRides
  <2>4. blob' = [blob EXCEPT ![k] = call[p].copy] /\ blob'[k] = call[p].copy
    BY <2>1, <2>2 DEF Afoot
  <2>5. Secures(p, k)' \/ blob'[k].state \notin Active
    BY <2>3, <2>4
  <2> QED BY <1>1, <1>2, <2>1, <2>2, <2>3, <2>4, <2>5
<1>9. CASE Erase(p)
  <2>1. /\ At(p, "erase") /\ UNCHANGED <<ready, leased, dead>> /\ GoesOn(p)
        /\ blob' = [blob EXCEPT ![Job(p)] = NoBlob]
    BY <1>9 DEF Erase, indexes
  <2>2. PICK k : Rows(p, k) /\ On(p) = "erase" /\ k = Job(p) /\ k \in Jobs
    BY <1>3, <2>1
  <2>3. Only(p)
    BY <2>1, <2>2, GoesOnRides
  <2>4. blob' = [blob EXCEPT ![k] = NoBlob] /\ blob'[k] = NoBlob
    BY <2>1, <2>2 DEF Afoot
  <2>5. blob'[k].state \notin Active
    BY <2>4 DEF NoBlob, Active, Waiting
  <2> QED BY <1>1, <1>2, <2>1, <2>2, <2>3, <2>4, <2>5
<1>10. CASE Enqueue(p) \/ Lease(p)
  <2>1. PICK x \in {"enqueue", "lease"} : At(p, x)
    BY <1>10 DEF Enqueue, Lease
  <2>2. blob' = blob /\ dead' = dead /\ GoesOn(p)
    BY <1>10 DEF Enqueue, Lease
  <2>3. PICK k : Rows(p, k) /\ On(p) = x /\ k = Job(p) /\ k \in Jobs
    BY <1>3, <2>1
  <2>4. Only(p)
    BY <2>2, <2>3, GoesOnRides
  <2>5. \/ leased' = leased /\ DOMAIN ready' = DOMAIN ready \union {k}
        \/ ready' = ready /\ DOMAIN leased' = DOMAIN leased \union {k}
    BY <1>10, <2>3 DEF Enqueue, Lease, Zadd
  <2>6. DOMAIN ready' \subseteq Jobs /\ DOMAIN leased' \subseteq Jobs
    BY <1>2, <2>3, <2>5
  <2> QED BY <1>1, <1>2, <2>2, <2>3, <2>4, <2>5, <2>6
<1>11. CASE Bury(p)
  <2>1. At(p, "bury") /\ UNCHANGED <<blob, ready, leased>> /\ GoesOn(p) /\ dead' = dead \union {Job(p)}
    BY <1>11 DEF Bury
  <2>2. PICK k : /\ Rows(p, k) /\ On(p) = "bury" /\ k = Job(p) /\ k \in Jobs
                 /\ Op(p) \in OpNames \union {"cancel"}
                 /\ On(p) \in IF Op(p) = "cancel" THEN Withdrawal ELSE Makes(Op(p))
    BY <1>3, <2>1
  <2>3. Only(p)
    BY <2>1, <2>2, GoesOnRides
  <2>4. Op(p) = "nack dead"
    BY <2>2 DEF Makes, Withdrawal, OpNames
  <2>5. ~Secures(p, k)
    BY <2>2, <2>4 DEF Secures
  <2>6. dead' \subseteq Jobs
    BY <1>2, <2>1, <2>2
  <2> QED BY <1>1, <1>2, <2>1, <2>2, <2>3, <2>5, <2>6
<1>12. CASE Unready(p) \/ Unlease(p) \/ Undead(p)
  <2>1. PICK x \in {"unready", "unlease", "undead"} : At(p, x)
    BY <1>12 DEF Unready, Unlease, Undead
  <2>2. PICK k : Rows(p, k) /\ On(p) = x /\ k = Job(p) /\ k \in Jobs
    BY <1>3, <2>1
  <2>3. blob' = blob
    BY <1>12 DEF Unready, Unlease, Undead
  <2>4. PICK members :
           /\ Removed(p, members)
           /\ DOMAIN ready' \subseteq DOMAIN ready /\ DOMAIN leased' \subseteq DOMAIN leased
           /\ dead' \subseteq dead
           /\ \A j \in Jobs : j # k \/ k \notin members =>
                  /\ j \in DOMAIN ready => j \in DOMAIN ready'
                  /\ j \in DOMAIN leased => j \in DOMAIN leased'
    <3>1. CASE Unready(p)
      BY <2>2, <3>1 DEF Unready, Zrem
    <3>2. CASE Unlease(p)
      BY <2>2, <3>2 DEF Unlease, Zrem
    <3>3. CASE Undead(p)
      BY <2>2, <3>3 DEF Undead
    <3> QED BY <1>12, <3>1, <3>2, <3>3
  <2>5. Only(p) /\ (Secures(p, k)' \/ (k \notin members /\ ~Secures(p, k)))
    BY <2>2, <2>4, RemovedRides
  <2>6. DOMAIN ready' \subseteq Jobs /\ DOMAIN leased' \subseteq Jobs /\ dead' \subseteq Jobs
    BY <1>2, <2>4
  <2>7. \/ Secures(p, k)'
        \/ /\ ~Secures(p, k)
           /\ k \in DOMAIN ready => k \in DOMAIN ready'
           /\ k \in DOMAIN leased => k \in DOMAIN leased'
    BY <2>2, <2>4, <2>5
  <2> QED BY <1>1, <2>2, <2>3, <2>4, <2>5, <2>6, <2>7
<1>13. ClaimSerial(p) => GoesOn(p) \/ Becomes(p, [call[p] EXCEPT !.route = <<"enqueue">>])
  BY DEF ClaimSerial
<1> QED BY <1>4, <1>5, <1>6, <1>7, <1>8, <1>9, <1>10, <1>11, <1>12, <1>13 DEF StoreCall

\* A call that starts touches no row.
LEMMA BeginFound ==
    ASSUME Afoot, Found, NEW p \in Callers, Begin(p)
    PROVE  Afoot' /\ Found'
<1>1. /\ DOMAIN ready \subseteq Jobs /\ DOMAIN leased \subseteq Jobs /\ dead \subseteq Jobs
      /\ held \subseteq Jobs \X Tokens /\ call \in [Callers -> Calls] /\ blob \in [Jobs -> Held]
  BY DEF Afoot
<1>2. PICK op \in OpNames \union {"cancel"}, record \in Calls : \E todo \in Seq(Jobs) :
              record.got = {} /\ Starts(p, op, todo, record) /\ Hands(op, todo, record)
  BY <1>1, BeginCalls
<1>3. PICK todo \in Seq(Jobs) : Starts(p, op, todo, record) /\ Hands(op, todo, record)
  BY <1>2
<1>4. /\ call[p] = Idle /\ todo # <<>> /\ held' \subseteq held
      /\ call' = [call EXCEPT ![p] = [record EXCEPT !.op = op, !.todo = todo,
                                                    !.route = Route(op, todo[1])]]
      /\ UNCHANGED <<blob, ready, leased, dead>>
  BY <1>3 DEF Starts, Hands, indexes
<1>5. 1 \in 1..Len(todo) /\ todo[1] \in Jobs
  BY <1>4
<1>6. PICK r \in Seq(Words) : /\ r = Route(op, todo[1]) /\ Threads(op, todo[1], r)
                              /\ Head(r) = Opens(op, todo[1])
  BY <1>5, RouteThreads
<1>7. PICK d : d = [record EXCEPT !.op = op, !.todo = todo, !.route = r]
  OBVIOUS
<1>8. d \in Calls /\ d.op = op /\ d.todo = todo /\ d.route = r
  BY <1>7 DEF Calls
<1>9. Rides(d)
  BY <1>4, <1>6, <1>8 DEF Rides
<1>10. Writes(d)
  <2>1. d.op = "pull" => Head(d.route) = "unready"
    BY <1>6, <1>8 DEF Opens, First
  <2>2. d.op = "nack dead" => Head(d.route) = "load"
    BY <1>6, <1>8 DEF Opens, First
  <2>3. d.op = "cancel" => Head(d.route) = "load"
    BY <1>6, <1>8 DEF Opens
  <2> QED BY <2>1, <2>2, <2>3 DEF Writes
<1>11. /\ call' \in [Callers -> Calls] /\ call'[p] = d
       /\ \A q \in Callers \ {p} : call'[q] = call[q]
  BY <1>1, <1>4, <1>6, <1>7, <1>8
<1>12. Only(p)
  BY <1>4, <1>9, <1>10, <1>11 DEF Only
<1>13. Afoot'
  BY <1>1, <1>4, <1>12, OnlyAfoot
<1>14. ~Acting(p)
  BY <1>4 DEF Acting, Idle
<1>15. ASSUME NEW q \in Callers, NEW j, Secures(q, j) PROVE Secures(q, j)'
  <2>1. call'[q] = call[q]
    BY <1>11, <1>14, <1>15 DEF Secures
  <2> QED BY <1>15, <2>1 DEF Secures, Acting, Job, On, Op, Check
<1>16. Found'
  BY <1>4, <1>15 DEF Found
<1> QED BY <1>13, <1>16

\* Time passes over the rows and the calls alike.
LEMMA TickFound == ASSUME Afoot, Found, Tick PROVE Afoot' /\ Found'
<1>1. /\ blob' = [j \in Jobs |-> Aged(blob[j])] /\ dead' = dead /\ held' = held
      /\ DOMAIN ready' = DOMAIN ready /\ DOMAIN leased' = DOMAIN leased
      /\ call' = [p \in Callers |-> [call[p] EXCEPT !.copy = Aged(@), !.until = Sooner(@)]]
  BY DEF Tick
<1>2. /\ blob \in [Jobs -> Held] /\ call \in [Callers -> Calls]
      /\ DOMAIN ready \subseteq Jobs /\ DOMAIN leased \subseteq Jobs /\ dead \subseteq Jobs
      /\ held \subseteq Jobs \X Tokens
      /\ \A p \in Callers : call[p] = Idle \/ (Rides(call[p]) /\ Writes(call[p]))
  BY DEF Afoot
<1>3. \A j \in Jobs : blob'[j] \in Held /\ blob'[j].state = blob[j].state
  BY <1>1, <1>2, AgedIs
<1>4. blob' \in [Jobs -> Held]
  BY <1>1, <1>3
<1>5. ASSUME NEW q \in Callers
      PROVE  /\ call'[q] \in Calls
             /\ call'[q] = Idle \/ (Rides(call'[q]) /\ Writes(call'[q]))
             /\ \A j \in Jobs : Secures(q, j) => Secures(q, j)'
  <2>1. /\ call'[q] \in Calls /\ call'[q].op = call[q].op /\ call'[q].todo = call[q].todo
        /\ call'[q].route = call[q].route /\ call'[q].copy = Aged(call[q].copy)
        /\ call[q] = Idle => call'[q] = Idle
    BY <1>2, TickCallIs
  <2>2. /\ call'[q].copy.state = call[q].copy.state /\ call'[q].copy.token = call[q].copy.token
    BY <1>2, <2>1, AgedIs DEF Calls
  <2>3. Rides(call[q]) => Rides(call'[q])
    BY <2>1 DEF Rides
  <2>4. Writes(call[q]) => Writes(call'[q])
    BY <2>1, <2>2 DEF Writes
  <2>5. ASSUME NEW j \in Jobs, Secures(q, j) PROVE Secures(q, j)'
    BY <2>1, <2>5 DEF Secures, Acting, Job, On, Op, Check
  <2> QED BY <1>2, <2>1, <2>3, <2>4, <2>5
<1>6. call' \in [Callers -> Calls]
  BY <1>1, <1>5
<1>7. Afoot'
  BY <1>1, <1>2, <1>4, <1>5, <1>6 DEF Afoot
<1>8. Found'
  BY <1>1, <1>3, <1>5 DEF Found
<1> QED BY <1>7, <1>8

LEMMA InitFound == ASSUME Init PROVE Afoot /\ Found
<1>1. /\ blob = [j \in Jobs |-> NoBlob] /\ ready = <<>> /\ leased = <<>> /\ dead = {}
      /\ held = {} /\ call = [p \in Callers |-> Idle]
  BY DEF Init
<1>2. NoBlob \in Held /\ Idle \in Calls /\ NoBlob.state \notin Active
  BY NoBlobIs, IdleIs DEF NoBlob, Active, Waiting
<1>3. DOMAIN ready = {} /\ DOMAIN leased = {}
  BY <1>1
<1> HIDE DEF Idle, NoBlob
<1>4. blob \in [Jobs -> Held] /\ call \in [Callers -> Calls] /\ \A p \in Callers : call[p] = Idle
  BY <1>1, <1>2
<1>5. Afoot
  BY <1>1, <1>3, <1>4 DEF Afoot
<1>6. Found
  BY <1>1, <1>2 DEF Found
<1> QED BY <1>5, <1>6

LEMMA FoundAccounted == Found => Accounted
BY DEF Found, Accounted, Findable, Secures, Acting, InHand

\* A row that is to run is in a sorted set or in the hands of a call, whoever else has
\* it, as long as no call ends half way ("At-least-once.", worker.rs).
THEOREM RqAccounted ==
    ASSUME "error" \notin Mishaps, "crash" \notin Mishaps
    PROVE  Spec => []Accounted
<1>1. ASSUME Afoot, Found, [Next]_vars PROVE Afoot' /\ Found'
  <2>1. CASE UNCHANGED vars
    <3>1. UNCHANGED <<blob, ready, leased, dead, held, call>>
      BY <2>1 DEF vars, indexes
    <3>2. Afoot'
      BY <1>1, <3>1 DEF Afoot
    <3>3. \A q \in Callers, j \in Jobs : Secures(q, j)' = Secures(q, j)
      BY <3>1 DEF Secures, Acting, Job, On, Op, Check
    <3>4. Found'
      BY <1>1, <3>1, <3>3 DEF Found
    <3> QED BY <3>2, <3>4
  <2>2. CASE Next
    <3>1. \A p \in Callers : ~Interrupt(p)
      BY DEF Interrupt, Mishap
    <3>2. \A l \in held : ~Drop(l)
      BY DEF Drop, Mishap
    <3>3. (TickTimely \/ TickStalled) => Tick
      BY DEF TickTimely, TickStalled
    <3>4. (\E p \in Callers : Begin(p) \/ StoreCall(p)) \/ Tick
      BY <2>2, <3>1, <3>2, <3>3 DEF Next
    <3>5. ASSUME NEW p \in Callers, Begin(p) \/ StoreCall(p) PROVE Afoot' /\ Found'
      BY <1>1, <3>5, BeginFound, StoreFound
    <3> QED BY <1>1, <3>4, <3>5, TickFound
  <2> QED BY <1>1, <2>1, <2>2
<1> QED BY <1>1, InitFound, FoundAccounted, PTL DEF Spec
=============================================================================
