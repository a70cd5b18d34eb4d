---------------------- MODULE RestoreConnectionsProofs ----------------------
(***************************************************************************)
(* Proofs about RestoreConnections for any number of workers, connections, *)
(* jobs and faults.  What a worker still has to get back from a pair of    *)
(* queues is counted wherever it is: on the way to a connection, in the    *)
(* hands of one, or answered.  So the queues are empty when the worker has *)
(* seen as many answers as it has sent statements, whoever answers them.   *)
(***************************************************************************)
EXTENDS RestoreConnections, Counting

(* The places of a worker that has a pair of queues, or a statement at hand. *)
Holding == {"read", "load", "result", "drain", "close"}
Reading == {"read", "load", "result"}

WorkerFits(r) ==
    /\ r.at # "free" => r.job \in Jobs
    /\ r.at = "queue" => r.conn \in Conns /\ r.i = 1 /\ ~r.results_added
    /\ r.at \in Holding => r.queue \in Queues
    /\ r.at \in Reading => <<r.job, r.i>> \in Places
    /\ r.at = "load" => KindAt(<<r.job, r.i>>) = "LOAD"
    /\ r.at = "close" => r.left = 0 /\ r.granted > 0

WorkersOK == \A t \in Threads : WorkerFits(td[t])

(* Nothing is handed out twice: neither a pair of queues nor a connection. *)
Injective(q) == \A m, n \in DOMAIN q : q[m] = q[n] => m = n
Held(t) == td[t].at \in Holding
Waits(t) == td[t].at = "queue"

QueuesOnce ==
    /\ Injective(restore_queues)
    /\ \A t \in Threads : Held(t) =>
            \A n \in DOMAIN restore_queues : restore_queues[n] # td[t].queue
    /\ \A t, u \in Threads : Held(t) /\ Held(u) /\ td[t].queue = td[u].queue => t = u

ConnectionsOnce ==
    /\ Injective(connection_pool)
    /\ \A n \in DOMAIN connection_pool : cd[connection_pool[n]].at = "pool"
    /\ \A t \in Threads : Waits(t) =>
            /\ cd[td[t].conn].at = "pool"
            /\ \A n \in DOMAIN connection_pool : connection_pool[n] # td[t].conn
    /\ \A t, u \in Threads : Waits(t) /\ Waits(u) /\ td[t].conn = td[u].conn => t = u

(* What is sent to a connection: a CLOSE, or a statement of some job; a    *)
(* LOAD DATA only when its file is there.                                  *)
Fit(st, files) ==
    /\ st.kind \in {"INSERT", "OTHER"}
    /\ st.place \in Places
    /\ KindAt(st.place) = "LOAD" => st.place \in files

ConnectionFits(r, files) ==
    /\ r.at = "serving" => r.queue \in Queues
    /\ r.piece # 0 => /\ r.at = "serving" /\ Fit(r.ir, files)
                      /\ r.piece < QueriesOf(r.ir.place)

QueuesFit(queues, files) ==
    \A q \in Queues : \A n \in DOMAIN queues[q] :
        queues[q][n] = Close \/ Fit(queues[q][n], files)

StatementsOK ==
    /\ QueuesFit(restore, arrived)
    /\ \A c \in Conns : ConnectionFits(cd[c], arrived)

ArrivalsOK == \A l \in Loads : sync[l] = "ready" => l \in arrived

(* What has not come back through a pair of queues yet, and what its       *)
(* holder still expects.                                                   *)
Working(q) == {r \in Connection : r.queue = q /\ r.piece # 0}
Busy(q) == Many(Conns, cd, Working(q))
Flight(q) == Len(restore[q]) + Busy(q) + Len(result[q])
Due(r) == LET blanks == IF r.results_added THEN Prefill ELSE 0
          IN IF r.at \in {"read", "load"} THEN blanks
             ELSE IF r.at = "result" THEN blanks + 1
             ELSE IF r.at = "drain" THEN r.left ELSE 1

FlightOK ==
    /\ \A n \in DOMAIN restore_queues : Flight(restore_queues[n]) = 0
    /\ \A t \in Threads : Held(t) => Flight(td[t].queue) = Due(td[t])

(* A CLOSE is sent alone. *)
Only(x, q) == \A n \in DOMAIN q : q[n] = x
Without(x, q) == \A n \in DOMAIN q : q[n] # x

Shape(q, at) ==
    IF at = "close" THEN Only(Close, restore[q]) /\ Only(Close, result[q]) /\ Busy(q) = 0
    ELSE Without(Close, restore[q]) /\ Without(Close, result[q])

ClosesOK == \A t \in Threads : Held(t) => Shape(td[t].queue, td[t].at)

IInv ==
    /\ TypeOK /\ WorkersOK /\ QueuesOnce /\ ConnectionsOnce /\ StatementsOK
    /\ ArrivalsOK /\ LoadAfterArrival /\ FlightOK /\ ClosesOK

-----------------------------------------------------------------------------
(* The constants. *)
LEMMA QueuesNumbered ==
    /\ Cardinality(Conns) \in Nat /\ Queues = 1 .. Cardinality(Conns)
    /\ 0 \notin Queues
  BY SizesAssumption, FS_CardinalityType DEF Queues

LEMMA PlacesType ==
    /\ \A p \in Places : /\ p = <<p[1], p[2]>> /\ p[1] \in Jobs
                         /\ p[2] \in DOMAIN ScriptOf[p[1]]
                         /\ QueriesOf(p) \in Nat \ {0}
    /\ \A j \in Jobs : \A i \in DOMAIN ScriptOf[j] : <<j, i>> \in Places
<1>1. \A p \in Places : p = <<p[1], p[2]>> /\ p[1] \in Jobs /\ p[2] \in DOMAIN ScriptOf[p[1]]
  BY DEF Places
<1>2. \A p \in Places : QueriesOf(p) \in Nat \ {0}
  BY SizesAssumption DEF QueriesOf
<1>3. \A j \in Jobs : \A i \in DOMAIN ScriptOf[j] : <<j, i>> \in Places
  BY DEF Places
<1> QED
  BY <1>1, <1>2, <1>3

LEMMA EffectsType ==
    ASSUME NEW p \in Places, NEW n \in 1 .. QueriesOf(p),
           KindAt(p) \notin {"SET", "COMMIT"}
    PROVE  <<p[1], p[2], n>> \in Effects
  BY DEF Effects

LEMMA KindOfEffect ==
    ASSUME NEW p \in Places, NEW n
    PROVE  KindAt(<<p[1], p[2], n>>) = KindAt(p)
  BY DEF KindAt

-----------------------------------------------------------------------------
(* Sessions: what an operation may do to one.  Done is what has had an     *)
(* effect, for good or not.                                                *)
SessionRecord ==
    [pending : SUBSET Effects, in_transaction : BOOLEAN, query_counter : Nat,
     committed : [Effects -> Nat], silent : SUBSET Effects, result : 0 .. 2]

Done(s) == {x \in Effects : x \in s.pending \/ s.committed[x] > 0}

(* s becomes r, and nothing but e may have happened. *)
Follows(s, r, e) == r \in SessionRecord /\ Done(r) \subseteq Done(s) \cup {e}

(* A query can be run: it has an effect, or it is a SET or a COMMIT. *)
Runnable(e) ==
    \/ KindAt(e) \in {"SET", "COMMIT"}
    \/ KindAt(e) \in {"DDL", "DELETE", "INSERT", "LOAD"} /\ e \in Effects

LEMMA FollowsTrans ==
    ASSUME NEW s, NEW r, NEW u, NEW e, Follows(s, r, e), Follows(r, u, e)
    PROVE  Follows(s, u, e)
  BY DEF Follows

LEMMA FollowsSelf ==
    ASSUME NEW s \in SessionRecord, NEW e
    PROVE  Follows(s, s, e)
  BY DEF Follows

LEMMA CommittedFollows ==
    ASSUME NEW s \in SessionRecord, NEW ok, NEW e
    PROVE  Follows(s, Committed(s, ok), e) /\ Committed(s, ok).pending = {}
<1>1. CASE ok
  <2> DEFINE r == Committed(s, ok)
             com == [x \in Effects |-> s.committed[x] + IF x \in s.pending THEN 1 ELSE 0]
  <2>1. com \in [Effects -> Nat]
    BY DEF SessionRecord
  <2>2. r = [s EXCEPT !.committed = com, !.pending = {}, !.in_transaction = FALSE]
    BY <1>1 DEF Committed
  <2>3. r \in SessionRecord /\ r.pending = {} /\ r.committed = com
    BY <2>1, <2>2 DEF SessionRecord
  <2>4. \A x \in Effects : com[x] > 0 => x \in s.pending \/ s.committed[x] > 0
    BY DEF SessionRecord
  <2>5. Done(r) \subseteq Done(s)
    BY <2>3, <2>4 DEF Done
  <2> QED
    BY <2>3, <2>5 DEF Follows
<1>2. CASE ~ok
  <2> DEFINE r == Committed(s, ok)
  <2>1. r = [s EXCEPT !.silent = s.silent \cup s.pending, !.pending = {},
                      !.in_transaction = FALSE]
    BY <1>2 DEF Committed
  <2>2. r \in SessionRecord /\ r.pending = {} /\ r.committed = s.committed
    BY <2>1 DEF SessionRecord
  <2>3. Done(r) \subseteq Done(s)
    BY <2>2 DEF Done
  <2> QED
    BY <2>2, <2>3 DEF Follows
<1> QED
  BY <1>1, <1>2

LEMMA RanFollows ==
    ASSUME NEW s \in SessionRecord, NEW e, Runnable(e)
    PROVE  Follows(s, Ran(s, e), e)
<1>1. CASE KindAt(e) = "SET"
  BY <1>1, FollowsSelf DEF Ran
<1>2. CASE KindAt(e) = "COMMIT"
  BY <1>2, CommittedFollows DEF Ran
<1> DEFINE r == Committed(s, TRUE)
<1>3. r \in SessionRecord /\ Done(r) \subseteq Done(s) \cup {e}
  BY CommittedFollows DEF Follows
<1>4. ASSUME NEW u \in SessionRecord, e \in Effects
      PROVE  Follows(u, [u EXCEPT !.committed[e] = @ + 1], e)
  <2> DEFINE com == [u.committed EXCEPT ![e] = @ + 1]
             v == [u EXCEPT !.committed[e] = @ + 1]
  <2>1. com \in [Effects -> Nat] /\ \A x \in Effects \ {e} : com[x] = u.committed[x]
    BY <1>4 DEF SessionRecord
  <2>2. v \in SessionRecord /\ v.committed = com /\ v.pending = u.pending
    BY <2>1 DEF SessionRecord
  <2>3. Done(v) \subseteq Done(u) \cup {e}
    BY <2>1, <2>2 DEF Done
  <2> QED
    BY <2>2, <2>3 DEF Follows
<1>5. CASE KindAt(e) = "DDL"
  <2>1. e \in Effects /\ Ran(s, e) = [r EXCEPT !.committed[e] = @ + 1]
    BY <1>5 DEF Ran, Runnable
  <2>2. Follows(r, Ran(s, e), e)
    BY <1>3, <1>4, <2>1
  <2> QED
    BY <1>3, <2>2 DEF Follows
<1>6. CASE KindAt(e) \in {"DELETE", "INSERT", "LOAD"} /\ s.in_transaction
  <2> DEFINE v == [s EXCEPT !.pending = @ \cup {e}]
  <2>1. e \in Effects /\ Ran(s, e) = v
    BY <1>6 DEF Ran, Runnable
  <2>2. v \in SessionRecord /\ v.pending = s.pending \cup {e} /\ v.committed = s.committed
    BY <2>1 DEF SessionRecord
  <2>3. Done(v) \subseteq Done(s) \cup {e}
    BY <2>2 DEF Done
  <2> QED
    BY <2>1, <2>2, <2>3 DEF Follows
<1>7. CASE KindAt(e) \in {"DELETE", "INSERT", "LOAD"} /\ ~s.in_transaction
  <2>1. e \in Effects /\ Ran(s, e) = [s EXCEPT !.committed[e] = @ + 1]
    BY <1>7 DEF Ran, Runnable
  <2> QED
    BY <1>4, <2>1
<1> QED
  BY <1>1, <1>2, <1>5, <1>6, <1>7 DEF Runnable

(* The small changes of a session. *)
LEMMA ChangesFollow ==
    ASSUME NEW s \in SessionRecord, NEW e
    PROVE  /\ Follows(s, RolledBack(s), e)
           /\ Follows(s, Failed(s), e)
           /\ Follows(s, Counted(s), e)
           /\ \A n \in 0 .. 2 : Follows(s, [s EXCEPT !.result = n], e)
           /\ \A x \in SUBSET Effects : Follows(s, [s EXCEPT !.silent = @ \cup x], e)
<1>1. ASSUME NEW r \in SessionRecord, r.pending \subseteq s.pending, r.committed = s.committed
      PROVE  Follows(s, r, e)
  BY <1>1 DEF Follows, Done
<1>2. RolledBack(s) \in SessionRecord /\ RolledBack(s).pending = {}
      /\ RolledBack(s).committed = s.committed
  BY DEF RolledBack, SessionRecord
<1>3. Failed(s) \in SessionRecord /\ Failed(s).pending = s.pending
      /\ Failed(s).committed = s.committed
  BY DEF Failed, SessionRecord
<1>4. Counted(s) \in SessionRecord /\ Counted(s).pending = s.pending
      /\ Counted(s).committed = s.committed
  BY DEF Counted, SessionRecord
<1>5. ASSUME NEW n \in 0 .. 2 PROVE Follows(s, [s EXCEPT !.result = n], e)
  <2> DEFINE r == [s EXCEPT !.result = n]
  <2>1. r \in SessionRecord /\ r.pending = s.pending /\ r.committed = s.committed
    BY DEF SessionRecord
  <2> QED
    BY <1>1, <2>1
<1>6. ASSUME NEW x \in SUBSET Effects PROVE Follows(s, [s EXCEPT !.silent = @ \cup x], e)
  <2> DEFINE r == [s EXCEPT !.silent = @ \cup x]
  <2>1. r \in SessionRecord /\ r.pending = s.pending /\ r.committed = s.committed
    BY DEF SessionRecord
  <2> QED
    BY <1>1, <2>1
<1> QED
  BY <1>1, <1>2, <1>3, <1>4, <1>5, <1>6

(* A query that is tried again after something was rolled back. *)
LEMMA RetriedFollows ==
    ASSUME NEW s \in SessionRecord, NEW e, Runnable(e), NEW r, Follows(s, r, e),
           NEW x \in SUBSET Effects
    PROVE  Follows(s, Counted(Ran([RolledBack(r) EXCEPT !.silent = @ \cup x], e)), e)
<1>1. r \in SessionRecord
  BY DEF Follows
<1>2. Follows(r, RolledBack(r), e)
  BY <1>1, ChangesFollow
<1>3. RolledBack(r) \in SessionRecord
  BY <1>2 DEF Follows
<1> DEFINE u == [RolledBack(r) EXCEPT !.silent = @ \cup x]
<1>4. Follows(RolledBack(r), u, e) /\ u \in SessionRecord
  BY <1>3, ChangesFollow DEF Follows
<1>5. Follows(u, Ran(u, e), e) /\ Ran(u, e) \in SessionRecord
  BY <1>4, RanFollows DEF Follows
<1>6. Follows(Ran(u, e), Counted(Ran(u, e)), e)
  BY <1>5, ChangesFollow
<1> HIDE DEF u
<1>7. Follows(s, RolledBack(r), e)
  BY <1>2, FollowsTrans
<1>8. Follows(s, u, e)
  BY <1>4, <1>7, FollowsTrans
<1>9. Follows(s, Ran(u, e), e)
  BY <1>5, <1>8, FollowsTrans
<1>10. Follows(s, Counted(Ran(u, e)), e)
  BY <1>6, <1>9, FollowsTrans
<1> QED
  BY <1>10 DEF u

LEMMA QueriedFollows ==
    ASSUME NEW s \in SessionRecord, NEW e, Runnable(e), NEW is_schema,
           NEW fault \in Faults \cup {"none"}
    PROVE  Follows(s, Queried(s, e, is_schema, fault), e)
<1>1. Follows(s, s, e)
  BY FollowsSelf
<1>2. Follows(s, Ran(s, e), e) /\ Ran(s, e) \in SessionRecord
  BY RanFollows DEF Follows
<1>3. CASE fault \in {"none", "timeout", "commit"}
  <2>1. Follows(Ran(s, e), Counted(Ran(s, e)), e)
    BY <1>2, ChangesFollow
  <2>2. Follows(s, Counted(Ran(s, e)), e)
    BY <1>2, <2>1, FollowsTrans
  <2> QED
    BY <1>3, <2>2 DEF Queried
<1>4. CASE fault = "refused"
  BY <1>4, ChangesFollow DEF Queried
<1>5. s.pending \in SUBSET Effects
  BY DEF SessionRecord
<1>6. CASE fault = "deadlock"
  <2>1. Follows(s, Counted(Ran([RolledBack(s) EXCEPT !.silent = @ \cup s.pending], e)), e)
    BY <1>1, <1>5, RetriedFollows
  <2> QED
    BY <1>6, <2>1 DEF Queried
<1>7. CASE fault \in {"lost", "answer lost"}
  <2> DEFINE executed == IF fault = "lost" THEN s ELSE Ran(s, e)
             repeated == {x \in {e} \cap Effects : executed.committed[x] > s.committed[x]}
             session == RolledBack(executed)
             again == Counted(Ran([session EXCEPT !.silent = @ \cup s.pending \cup repeated], e))
  <2>1. Follows(s, executed, e) /\ executed \in SessionRecord
    BY <1>1, <1>2 DEF Follows
  <2>2. Queried(s, e, is_schema, fault) =
           IF LosesTransaction(is_schema) THEN [session EXCEPT !.result = 2] ELSE again
    BY <1>7 DEF Queried
  <2> HIDE DEF executed
  <2>3. Follows(s, session, e) /\ session \in SessionRecord
    <3>1. Follows(executed, session, e)
      BY <2>1, ChangesFollow
    <3> QED
      BY <2>1, <3>1, FollowsTrans DEF Follows
  <2>4. Follows(s, [session EXCEPT !.result = 2], e)
    <3> HIDE DEF session
    <3>1. \A n \in 0 .. 2 : Follows(session, [session EXCEPT !.result = n], e)
      BY <2>3, ChangesFollow
    <3> QED
      BY <2>3, <3>1, FollowsTrans
  <2>5. Follows(s, again, e)
    <3> DEFINE x == s.pending \cup repeated
    <3>1. x \in SUBSET Effects
      BY <1>5
    <3>2. [session EXCEPT !.silent = @ \cup s.pending \cup repeated]
             = [RolledBack(executed) EXCEPT !.silent = @ \cup x]
      <4>1. session.silent \cup s.pending \cup repeated = session.silent \cup x
        OBVIOUS
      <4> HIDE DEF repeated
      <4> QED
        BY <4>1
    <3> HIDE DEF x, repeated
    <3>3. Follows(s, Counted(Ran([RolledBack(executed) EXCEPT !.silent = @ \cup x], e)), e)
      BY <2>1, <3>1, RetriedFollows
    <3> QED
      BY <3>2, <3>3
  <2> HIDE DEF again, session
  <2> QED
    BY <2>2, <2>4, <2>5
<1> QED
  BY <1>3, <1>4, <1>6, <1>7, JobsAssumption

LEMMA StartedFollows ==
    ASSUME NEW s \in SessionRecord, NEW ok, NEW e
    PROVE  Follows(s, CommittedAndStarted(s, ok), e)
<1> DEFINE r == Committed(s, TRUE)
           u == [r EXCEPT !.query_counter = 0, !.in_transaction = TRUE]
<1>1. Follows(s, r, e) /\ Follows(s, Committed(s, FALSE), e) /\ r \in SessionRecord
  BY CommittedFollows DEF Follows
<1> HIDE DEF r
<1>2. u \in SessionRecord /\ u.pending = r.pending /\ u.committed = r.committed
  BY <1>1 DEF SessionRecord
<1>3. Follows(s, u, e)
  BY <1>1, <1>2 DEF Follows, Done
<1>4. CommittedAndStarted(s, ok) = IF ok THEN u ELSE Committed(s, FALSE)
  BY DEF CommittedAndStarted, r
<1> QED
  BY <1>1, <1>3, <1>4

LEMMA SessionType ==
    ASSUME TypeOK, NEW c \in Conns
    PROVE  /\ Session(c) \in SessionRecord
           /\ Session(c).pending = cd[c].pending /\ Session(c).committed = committed
           /\ Session(c).in_transaction = cd[c].in_transaction /\ Session(c).silent = silent
<1>1. cd[c] \in Connection
  BY DEF TypeOK
<1>2. /\ cd[c].pending \in SUBSET Effects /\ cd[c].in_transaction \in BOOLEAN
      /\ cd[c].query_counter \in Nat
  BY <1>1 DEF Connection
<1>3. committed \in [Effects -> Nat] /\ silent \in SUBSET Effects
  BY DEF TypeOK
<1> QED
  BY <1>2, <1>3 DEF Session, SessionRecord

LEMMA InsertedFollows ==
    ASSUME TypeOK, NEW c \in Conns, NEW e, Runnable(e),
           NEW fault \in Faults \cup {"none"}, NEW oversize \in BOOLEAN
    PROVE  Follows(Session(c), Inserted(c, e, fault, oversize), e)
<1> DEFINE failing == fault = "commit"
           before == IF oversize THEN CommittedAndStarted(Session(c), ~failing) ELSE Session(c)
           s == Queried(before, e, FALSE, fault)
           after == CommittedAndStarted(s, oversize \/ ~failing)
           n == IF failing /\ ~oversize THEN 2 ELSE after.result
<1>1. Session(c) \in SessionRecord
  BY SessionType
<1>2. Follows(Session(c), before, e) /\ before \in SessionRecord
  BY <1>1, FollowsSelf, StartedFollows DEF Follows
<1>3. Inserted(c, e, fault, oversize) =
         IF ~cd[c].transaction \/ s.query_counter # CommitCount THEN s
         ELSE [after EXCEPT !.result = n]
  BY DEF Inserted
<1> HIDE DEF before
<1>4. Follows(before, s, e) /\ s \in SessionRecord
  BY <1>2, QueriedFollows DEF Follows
<1>5. Follows(Session(c), s, e)
  BY <1>2, <1>4, FollowsTrans
<1> HIDE DEF s
<1>6. Follows(s, after, e) /\ after \in SessionRecord
  BY <1>4, StartedFollows DEF Follows
<1>7. Follows(Session(c), after, e)
  BY <1>5, <1>6, FollowsTrans
<1> HIDE DEF after
<1>8. n \in 0 .. 2
  BY <1>6 DEF SessionRecord
<1> HIDE DEF n
<1>9. Follows(after, [after EXCEPT !.result = n], e)
  <2>1. \A m \in 0 .. 2 : Follows(after, [after EXCEPT !.result = m], e)
    BY <1>6, ChangesFollow
  <2> QED
    BY <1>8, <2>1
<1>10. Follows(Session(c), [after EXCEPT !.result = n], e)
  BY <1>7, <1>9, FollowsTrans
<1> QED
  BY <1>3, <1>5, <1>10

-----------------------------------------------------------------------------
(* setup_connection: what it changes. *)
LEMMA SetupStep ==
    ASSUME TypeOK, NEW c \in Conns, NEW q \in Queues, NEW j \in Jobs, Setup(c, q, j)
    PROVE  /\ cd' \in [Conns -> Connection]
           /\ committed' \in [Effects -> Nat]
           /\ \A d \in Conns \ {c} : cd'[d] = cd[d]
           /\ cd'[c].at = "serving" /\ cd'[c].queue = q /\ cd'[c].piece = cd[c].piece
           /\ cd'[c].ir = cd[c].ir
           /\ cd'[c].pending \subseteq cd[c].pending
           /\ \A e \in Effects : committed'[e] > 0 => committed[e] > 0 \/ e \in cd[c].pending
<1> DEFINE transaction == j \notin SchemaJobs /\ CommitCount > 1
           s == IF transaction THEN Committed(Session(c), TRUE) ELSE Session(c)
<1>1. /\ Session(c) \in SessionRecord
      /\ Session(c).pending = cd[c].pending /\ Session(c).committed = committed
  BY SessionType
<1>2. \A e : Follows(Session(c), s, e)
  BY <1>1, CommittedFollows, FollowsSelf
<1>3. s \in SessionRecord /\ (s.pending = {} \/ s.pending = cd[c].pending)
  BY <1>1, CommittedFollows DEF Follows
<1>4. /\ cd' = [cd EXCEPT ![c].at = "serving", ![c].queue = q, ![c].transaction = transaction,
                          ![c].in_transaction = @ \/ transaction, ![c].pending = s.pending]
      /\ committed' = s.committed
  BY DEF Setup
<1>5. Done(s) \subseteq Done(Session(c))
  <2>1. \A e : Done(s) \subseteq Done(Session(c)) \cup {e}
    BY <1>2 DEF Follows
  <2>2. ASSUME NEW x \in Done(s) PROVE x \in Done(Session(c))
    <3>1. x \in Done(Session(c)) \/ x = {x}
      BY <2>1, <2>2
    <3>2. x \in Done(Session(c)) \/ x = {}
      BY <2>1, <2>2
    <3> QED
      BY <3>1, <3>2
  <2> QED
    BY <2>2
<1>6. cd[c] \in Connection /\ s.pending \in SUBSET Effects /\ s.committed \in [Effects -> Nat]
  BY <1>3 DEF TypeOK, SessionRecord
<1>7. transaction \in BOOLEAN
  OBVIOUS
<1> HIDE DEF s, transaction
<1>8. cd \in [Conns -> Connection]
  BY DEF TypeOK
<1>9. [cd[c] EXCEPT !.at = "serving", !.queue = q, !.transaction = transaction,
                    !.in_transaction = @ \/ transaction, !.pending = s.pending] \in Connection
  BY <1>6, <1>7 DEF Connection
<1>10. cd' \in [Conns -> Connection]
  BY <1>4, <1>8, <1>9
<1>11. /\ \A d \in Conns \ {c} : cd'[d] = cd[d]
       /\ cd'[c].at = "serving" /\ cd'[c].queue = q /\ cd'[c].piece = cd[c].piece
       /\ cd'[c].ir = cd[c].ir /\ cd'[c].pending = s.pending
  BY <1>4, <1>6, <1>8 DEF Connection
<1>12. \A e \in Effects : s.committed[e] > 0 => committed[e] > 0 \/ e \in cd[c].pending
  BY <1>1, <1>5 DEF Done
<1> QED
  BY <1>3, <1>4, <1>6, <1>10, <1>11, <1>12

-----------------------------------------------------------------------------
(* The query of a connection: which statement it is of, and what it does.  *)
IrOf(c) == IF cd[c].piece = 0 THEN Head(restore[cd[c].queue]) ELSE cd[c].ir
EffectOf(c) == <<IrOf(c).place[1], IrOf(c).place[2], cd[c].piece + 1>>
SessionAfter(c, fault, oversize) ==
    IF IrOf(c).kind = "INSERT" THEN Inserted(c, EffectOf(c), fault, oversize)
    ELSE Queried(Session(c), EffectOf(c),
                 IrOf(c).place[1] \in SchemaJobs /\ KindAt(EffectOf(c)) # "LOAD", fault)
LastPiece(c) == cd[c].piece + 1 = QueriesOf(IrOf(c).place)

LEMMA StatementAtHand ==
    ASSUME TypeOK, StatementsOK, NEW c \in Conns, cd[c].at = "serving",
           cd[c].piece = 0 => restore[cd[c].queue] # <<>> /\ Head(restore[cd[c].queue]) # Close
    PROVE  /\ cd[c].queue \in Queues /\ cd[c].piece \in Nat
           /\ IrOf(c) \in Statement /\ Fit(IrOf(c), arrived)
           /\ cd[c].piece < QueriesOf(IrOf(c).place)
           /\ Runnable(EffectOf(c))
           /\ KindAt(EffectOf(c)) = KindAt(IrOf(c).place)
<1>1. cd[c] \in Connection
  BY DEF TypeOK
<1>2. cd[c].queue \in Queues
  BY DEF StatementsOK, QueuesFit, ConnectionFits
<1>3. cd[c].piece \in Nat /\ cd[c].ir \in Statement
  BY <1>1 DEF Connection
<1>4. restore[cd[c].queue] \in Seq(Statement)
  BY <1>2 DEF TypeOK
<1>5. IrOf(c) \in Statement /\ Fit(IrOf(c), arrived) /\ cd[c].piece < QueriesOf(IrOf(c).place)
  <2>1. CASE cd[c].piece = 0
    <3> DEFINE h == restore[cd[c].queue][1]
    <3>1. Head(restore[cd[c].queue]) = h /\ 1 \in DOMAIN restore[cd[c].queue] /\ h \in Statement
      BY <1>4, <2>1
    <3>2. h = Close \/ Fit(h, arrived)
      BY <1>2, <3>1 DEF StatementsOK, QueuesFit, ConnectionFits
    <3>3. Fit(h, arrived)
      BY <2>1, <3>1, <3>2
    <3>4. QueriesOf(h.place) \in Nat \ {0}
      BY <3>3, PlacesType DEF Fit
    <3>5. IrOf(c) = h
      BY <2>1, <3>1 DEF IrOf
    <3> HIDE DEF h
    <3> QED
      BY <2>1, <3>1, <3>3, <3>4, <3>5
  <2>2. CASE cd[c].piece # 0
    <3>1. IrOf(c) = cd[c].ir
      BY <2>2 DEF IrOf
    <3> QED
      BY <1>3, <2>2, <3>1 DEF StatementsOK, QueuesFit, ConnectionFits
  <2> QED
    BY <2>1, <2>2
<1> DEFINE p == IrOf(c).place
           n == cd[c].piece + 1
<1>6. p \in Places /\ QueriesOf(p) \in Nat
  BY <1>5, PlacesType DEF Fit
<1>7. EffectOf(c) = <<p[1], p[2], n>> /\ n \in 1 .. QueriesOf(p)
  BY <1>3, <1>5, <1>6 DEF EffectOf
<1> HIDE DEF p, n
<1>8. KindAt(EffectOf(c)) = KindAt(p)
  BY <1>6, <1>7, KindOfEffect
<1>9. KindAt(p) \in {"SET", "DDL", "DELETE", "COMMIT", "INSERT", "LOAD"}
  <2>1. p[1] \in Jobs /\ p[2] \in DOMAIN ScriptOf[p[1]]
    BY <1>6, PlacesType
  <2>2. ScriptOf[p[1]] \in Seq({"SET", "DDL", "DELETE", "COMMIT", "INSERT", "LOAD"})
    BY <2>1, JobsAssumption
  <2> QED
    BY <2>1, <2>2 DEF KindAt
<1>10. KindAt(p) \notin {"SET", "COMMIT"} => EffectOf(c) \in Effects
  BY <1>6, <1>7, EffectsType
<1>11. Runnable(EffectOf(c))
  BY <1>8, <1>9, <1>10 DEF Runnable
<1> QED
  BY <1>2, <1>3, <1>5, <1>8, <1>11 DEF p

(* All that a query changes. *)
QueryChanges(c, fault, s) ==
    LET q == cd[c].queue
    IN /\ cd[c].at = "serving"
       /\ cd[c].piece = 0 => restore[q] # <<>> /\ Head(restore[q]) # Close
       /\ restore' = IF cd[c].piece = 0 THEN [restore EXCEPT ![q] = Tail(@)] ELSE restore
       /\ fault # "none" => faults_left > 0
       /\ faults_left' = faults_left - (IF fault = "none" THEN 0 ELSE 1)
       /\ cd' = [cd EXCEPT ![c] = [@ EXCEPT
                     !.piece = IF LastPiece(c) THEN 0 ELSE cd[c].piece + 1,
                     !.ir = IF LastPiece(c) THEN Blank ELSE IrOf(c),
                     !.query_counter = s.query_counter,
                     !.pending = s.pending, !.in_transaction = s.in_transaction]]
       /\ committed' = s.committed
       /\ silent' = s.silent
       /\ exited' \in BOOLEAN
       /\ result' = IF LastPiece(c)
                    THEN [result EXCEPT ![q] = Append(@, [IrOf(c) EXCEPT !.result = s.result])]
                    ELSE result
       /\ UNCHANGED <<connection_pool, always_fatal, todo, td, restore_queues, free_results,
                      sync, arrived, reported>>

LEMMA QueryStep ==
    ASSUME NEW c, NEW fault, NEW oversize, Query(c, fault, oversize)
    PROVE  QueryChanges(c, fault, SessionAfter(c, fault, oversize))
<1> DEFINE q == cd[c].queue
           first == cd[c].piece = 0
           ir == IF first THEN Head(restore[q]) ELSE cd[c].ir
           e == <<ir.place[1], ir.place[2], cd[c].piece + 1>>
           insert == ir.kind = "INSERT"
           is_schema == ir.place[1] \in SchemaJobs /\ KindAt(e) # "LOAD"
           s == IF insert THEN Inserted(c, e, fault, oversize)
                          ELSE Queried(Session(c), e, is_schema, fault)
           last == e[3] = QueriesOf(ir.place)
<1>1. ir = IrOf(c) /\ e = EffectOf(c) /\ e[3] = cd[c].piece + 1
  BY DEF IrOf, EffectOf
<1>2. s = SessionAfter(c, fault, oversize)
  BY <1>1 DEF SessionAfter
<1>3. last = LastPiece(c)
  BY <1>1 DEF LastPiece
<1>4. /\ cd[c].at = "serving"
      /\ first => restore[q] # <<>> /\ Head(restore[q]) # Close
      /\ restore' = IF first THEN [restore EXCEPT ![q] = Tail(@)] ELSE restore
      /\ fault # "none" => faults_left > 0
      /\ faults_left' = faults_left - (IF fault = "none" THEN 0 ELSE 1)
      /\ cd' = [cd EXCEPT ![c] = [@ EXCEPT
                    !.piece = IF last THEN 0 ELSE e[3], !.ir = IF last THEN Blank ELSE ir,
                    !.query_counter = s.query_counter,
                    !.pending = s.pending, !.in_transaction = s.in_transaction]]
      /\ committed' = s.committed
      /\ silent' = s.silent
      /\ exited' = (s.result > 0 /\ (insert \/ always_fatal))
      /\ result' = IF last THEN [result EXCEPT ![q] = Append(@, [ir EXCEPT !.result = s.result])]
                           ELSE result
      /\ UNCHANGED <<connection_pool, always_fatal>>
      /\ ServerUnchanged
  BY Zenon DEF Query
<1> HIDE DEF ir, e, insert, is_schema, s, last
<1>5. exited' \in BOOLEAN
  BY <1>4
<1> QED
  BY <1>1, <1>2, <1>3, <1>4, <1>5, Zenon DEF QueryChanges, ServerUnchanged

LEMMA QueryFollows ==
    ASSUME TypeOK, StatementsOK, NEW c \in Conns, NEW fault \in Faults \cup {"none"},
           NEW oversize \in BOOLEAN, Query(c, fault, oversize)
    PROVE  Follows(Session(c), SessionAfter(c, fault, oversize), EffectOf(c))
<1>1. QueryChanges(c, fault, SessionAfter(c, fault, oversize))
  BY QueryStep
<1>2. Runnable(EffectOf(c))
  BY <1>1, StatementAtHand DEF QueryChanges
<1>3. Session(c) \in SessionRecord
  BY SessionType
<1>4. Follows(Session(c), Inserted(c, EffectOf(c), fault, oversize), EffectOf(c))
  BY <1>2, InsertedFollows
<1>5. \A b : Follows(Session(c), Queried(Session(c), EffectOf(c), b, fault), EffectOf(c))
  BY <1>2, <1>3, QueriedFollows
<1> QED
  BY <1>4, <1>5, Zenon DEF SessionAfter

-----------------------------------------------------------------------------
(* Types. *)
LEMMA StatementRecords ==
    /\ Close \in Statement /\ Blank \in Statement
    /\ \A t, k : Place(t) \in Places /\ k \in {"INSERT", "OTHER"} => Current(t, k) \in Statement
    /\ \A st \in Statement : \A n \in 0 .. 2 : [st EXCEPT !.result = n] \in Statement
    /\ Idle \in Worker
  BY QueuesNumbered DEF Close, Blank, Current, Statement, Idle, Worker

LEMMA QueryType ==
    ASSUME TypeOK, StatementsOK, NEW c \in Conns, NEW fault \in Faults \cup {"none"},
           NEW oversize \in BOOLEAN, Query(c, fault, oversize)
    PROVE  TypeOK'
<1> DEFINE s == SessionAfter(c, fault, oversize)
           q == cd[c].queue
<1>1. QueryChanges(c, fault, s)
  BY QueryStep
<1>2. s \in SessionRecord
  BY QueryFollows DEF Follows
<1>3. q \in Queues /\ IrOf(c) \in Statement /\ cd[c].piece \in Nat
  BY <1>1, StatementAtHand DEF QueryChanges
<1> HIDE DEF s
<1>4. /\ s.pending \in SUBSET Effects /\ s.in_transaction \in BOOLEAN
      /\ s.query_counter \in Nat /\ s.committed \in [Effects -> Nat]
      /\ s.silent \in SUBSET Effects /\ s.result \in 0 .. 2
  BY <1>2 DEF SessionRecord
<1>5. restore' \in [Queues -> Seq(Statement)]
  <2>1. cd[c].piece = 0 => Tail(restore[q]) \in Seq(Statement)
    BY <1>1, <1>3 DEF QueryChanges, TypeOK
  <2>2. restore \in [Queues -> Seq(Statement)]
    BY DEF TypeOK
  <2>3. restore' = IF cd[c].piece = 0 THEN [restore EXCEPT ![q] = Tail(@)] ELSE restore
    BY <1>1 DEF QueryChanges
  <2> QED
    BY <1>3, <2>1, <2>2, <2>3
<1>6. result' \in [Queues -> Seq(Statement)]
  <2>1. [IrOf(c) EXCEPT !.result = s.result] \in Statement
    BY <1>3, <1>4, StatementRecords
  <2>2. result \in [Queues -> Seq(Statement)]
    BY DEF TypeOK
  <2>3. \A x \in Statement : Append(result[q], x) \in Seq(Statement)
    BY <1>3, <2>2
  <2>4. result' = IF LastPiece(c)
                  THEN [result EXCEPT ![q] = Append(@, [IrOf(c) EXCEPT !.result = s.result])]
                  ELSE result
    BY <1>1 DEF QueryChanges
  <2> QED
    BY <1>3, <2>1, <2>2, <2>3, <2>4
<1>7. cd' \in [Conns -> Connection]
  <2> DEFINE k == IF LastPiece(c) THEN 0 ELSE cd[c].piece + 1
             ir == IF LastPiece(c) THEN Blank ELSE IrOf(c)
             r == [cd[c] EXCEPT !.piece = k, !.ir = ir, !.query_counter = s.query_counter,
                                !.pending = s.pending, !.in_transaction = s.in_transaction]
  <2>1. cd \in [Conns -> Connection] /\ cd[c] \in Connection
    BY DEF TypeOK
  <2>2. k \in Nat /\ ir \in Statement
    BY <1>3, StatementRecords
  <2>3. cd' = [cd EXCEPT ![c] = r]
    BY <1>1 DEF QueryChanges
  <2> HIDE DEF k, ir
  <2>4. r \in Connection
    BY <1>4, <2>1, <2>2 DEF Connection
  <2> QED
    BY <2>1, <2>3, <2>4
<1>8. faults_left' \in 0 .. MaxFaults
  BY <1>1, SizesAssumption, SMTT(30) DEF QueryChanges, TypeOK
<1>9. committed' \in [Effects -> Nat] /\ silent' \subseteq Effects /\ exited' \in BOOLEAN
  BY <1>1, <1>4 DEF QueryChanges
<1> QED
  BY <1>1, <1>5, <1>6, <1>7, <1>8, <1>9, Zenon DEF QueryChanges, TypeOK

LEMMA ServeCloseType ==
    ASSUME TypeOK, StatementsOK, NEW c \in Conns, NEW fault, ServeClose(c, fault)
    PROVE  /\ TypeOK'
           /\ \A e \in Effects : committed'[e] > 0 => committed[e] > 0 \/ e \in cd[c].pending
           /\ cd'[c].pending \subseteq cd[c].pending
           /\ cd'[c].at = "pool" /\ cd'[c].queue = 0 /\ cd'[c].piece = cd[c].piece
           /\ \A d \in Conns \ {c} : cd'[d] = cd[d]
<1> DEFINE q == cd[c].queue
           s == IF CommitsAtClose(c) THEN Committed(Session(c), fault = "none") ELSE Session(c)
<1>1. /\ Session(c) \in SessionRecord
      /\ Session(c).pending = cd[c].pending /\ Session(c).committed = committed
  BY SessionType
<1>2. \A e : Follows(Session(c), s, e)
  BY <1>1, CommittedFollows, FollowsSelf
<1>3. s \in SessionRecord /\ (s.pending = {} \/ s.pending = cd[c].pending)
  BY <1>1, CommittedFollows DEF Follows
<1>4. /\ cd[c].at = "serving" /\ cd[c].piece = 0
      /\ restore[q] # <<>>
      /\ fault # "none" => faults_left > 0
      /\ faults_left' = faults_left - (IF fault = "none" THEN 0 ELSE 1)
      /\ restore' = [restore EXCEPT ![q] = Tail(@)]
      /\ result' = [result EXCEPT ![q] = Append(@, Close)]
      /\ connection_pool' = Append(connection_pool, c)
      /\ cd' = [cd EXCEPT ![c].at = "pool", ![c].queue = 0, ![c].pending = s.pending,
                          ![c].in_transaction = s.in_transaction]
      /\ committed' = s.committed
      /\ silent' = s.silent
      /\ UNCHANGED <<always_fatal, exited>>
      /\ ServerUnchanged
  BY Zenon DEF ServeClose
<1> HIDE DEF s
<1>5. q \in Queues
  BY <1>4 DEF StatementsOK, QueuesFit, ConnectionFits
<1>6. /\ s.pending \in SUBSET Effects /\ s.in_transaction \in BOOLEAN
      /\ s.committed \in [Effects -> Nat] /\ s.silent \in SUBSET Effects
  BY <1>3 DEF SessionRecord
<1>7. cd \in [Conns -> Connection] /\ cd[c] \in Connection
  BY DEF TypeOK
<1>8. [cd[c] EXCEPT !.at = "pool", !.queue = 0, !.pending = s.pending,
                    !.in_transaction = s.in_transaction] \in Connection
  BY <1>6, <1>7 DEF Connection
<1>9. cd' \in [Conns -> Connection]
  BY <1>4, <1>7, <1>8
<1>10. restore' \in [Queues -> Seq(Statement)] /\ result' \in [Queues -> Seq(Statement)]
  <2>1. restore \in [Queues -> Seq(Statement)] /\ result \in [Queues -> Seq(Statement)]
    BY DEF TypeOK
  <2>2. Tail(restore[q]) \in Seq(Statement) /\ Append(result[q], Close) \in Seq(Statement)
    BY <1>4, <1>5, <2>1, StatementRecords
  <2> QED
    BY <1>4, <2>1, <2>2
<1>11. connection_pool' \in Seq(Conns)
  BY <1>4 DEF TypeOK
<1>12. faults_left' \in 0 .. MaxFaults
  BY <1>4, SizesAssumption DEF TypeOK
<1>13. TypeOK'
  BY <1>4, <1>6, <1>9, <1>10, <1>11, <1>12, Zenon DEF TypeOK, ServerUnchanged
<1>14. /\ cd'[c].at = "pool" /\ cd'[c].queue = 0 /\ cd'[c].piece = cd[c].piece
       /\ cd'[c].pending = s.pending
       /\ \A d \in Conns \ {c} : cd'[d] = cd[d]
  BY <1>4, <1>7 DEF Connection
<1>15. \A e : Done(s) \subseteq Done(Session(c)) \cup {e}
  BY <1>2 DEF Follows
<1>16. Done(s) \subseteq Done(Session(c))
  <2>1. ASSUME NEW x \in Done(s) PROVE x \in Done(Session(c))
    <3>1. x \in Done(Session(c)) \/ x = {x}
      BY <1>15, <2>1
    <3>2. x \in Done(Session(c)) \/ x = {}
      BY <1>15, <2>1
    <3> QED
      BY <3>1, <3>2
  <2> QED
    BY <2>1
<1>17. \A e \in Effects : s.committed[e] > 0 => committed[e] > 0 \/ e \in cd[c].pending
  BY <1>1, <1>16 DEF Done
<1> QED
  BY <1>3, <1>4, <1>13, <1>14, <1>17

(* What a step of worker t does to td. *)
Turns(t, r) == r \in Worker /\ td'[t] = r /\ \A u \in Threads \ {t} : td'[u] = td[u]

LEMMA TurnsType ==
    ASSUME TypeOK, NEW t \in Threads, NEW r \in Worker, td' = [td EXCEPT ![t] = r]
    PROVE  td' \in [Threads -> Worker] /\ Turns(t, r)
<1>1. td \in [Threads -> Worker]
  BY DEF TypeOK
<1> QED
  BY <1>1 DEF Turns

(* One statement st behind, one in front of a pair of queues. *)
LEMMA PushType ==
    ASSUME TypeOK, NEW t \in Threads, td[t].queue \in Queues, NEW st \in Statement, Push(t, st)
    PROVE  /\ restore' \in [Queues -> Seq(Statement)]
           /\ restore'[td[t].queue] = Append(restore[td[t].queue], st)
           /\ \A q \in Queues \ {td[t].queue} : restore'[q] = restore[q]
<1>1. restore \in [Queues -> Seq(Statement)]
  BY DEF TypeOK
<1>2. Append(restore[td[t].queue], st) \in Seq(Statement)
  BY <1>1
<1> QED
  BY <1>1, <1>2 DEF Push

LEMMA PopType ==
    ASSUME TypeOK, NEW q \in Queues, result[q] # <<>>, result' = [result EXCEPT ![q] = Tail(@)]
    PROVE  /\ result' \in [Queues -> Seq(Statement)]
           /\ result'[q] = Tail(result[q]) /\ Head(result[q]) \in Statement
           /\ \A p \in Queues \ {q} : result'[p] = result[p]
<1>1. result \in [Queues -> Seq(Statement)]
  BY DEF TypeOK
<1>2. Tail(result[q]) \in Seq(Statement) /\ Head(result[q]) \in Statement
  BY <1>1
<1> QED
  BY <1>1, <1>2

LEMMA TakeJobStep ==
    ASSUME TypeOK, NEW t \in Threads, NEW j \in Jobs, TakeJob(t, j)
    PROVE  /\ TypeOK'
           /\ Turns(t, [Idle EXCEPT !.at = "queue", !.job = j, !.conn = Head(connection_pool)])
           /\ connection_pool # <<>> /\ Head(connection_pool) \in Conns
<1> DEFINE r == [Idle EXCEPT !.at = "queue", !.job = j, !.conn = Head(connection_pool)]
<1>1. /\ connection_pool # <<>> /\ todo' = todo \ {j} /\ td' = [td EXCEPT ![t] = r]
      /\ connection_pool' = Tail(connection_pool)
      /\ always_fatal' = (always_fatal \/ j \in FromFile)
      /\ UNCHANGED <<restore_queues, free_results, restore, result, cd, sync, arrived,
                     reported, committed, silent, faults_left, exited>>
  BY Zenon DEF TakeJob
<1>2. Head(connection_pool) \in Conns /\ connection_pool' \in Seq(Conns)
  BY <1>1 DEF TypeOK
<1>3. r \in Worker
  BY <1>2, StatementRecords DEF Idle, Worker
<1> HIDE DEF r
<1>4. td' \in [Threads -> Worker] /\ Turns(t, r)
  BY <1>1, <1>3, TurnsType
<1>5. todo' \subseteq Jobs /\ always_fatal' \in BOOLEAN
  BY <1>1 DEF TypeOK
<1>6. TypeOK'
  BY <1>1, <1>2, <1>4, <1>5, Zenon DEF TypeOK
<1> QED
  BY <1>1, <1>2, <1>4, <1>6 DEF r

LEMMA PopQueueStep ==
    ASSUME TypeOK, WorkersOK, NEW t \in Threads, PopQueue(t)
    PROVE  /\ TypeOK'
           /\ Turns(t, [td[t] EXCEPT !.at = "read", !.queue = Head(restore_queues), !.granted = 1])
           /\ restore_queues # <<>> /\ Head(restore_queues) \in Queues
           /\ td[t].conn \in Conns /\ td[t].job \in Jobs
           /\ Setup(td[t].conn, Head(restore_queues), td[t].job)
<1> DEFINE r == [td[t] EXCEPT !.at = "read", !.queue = Head(restore_queues), !.granted = 1]
<1>1. /\ td[t].at = "queue"
      /\ restore_queues # <<>> /\ free_results > 0
      /\ Setup(td[t].conn, Head(restore_queues), td[t].job)
      /\ td' = [td EXCEPT ![t].at = "read", ![t].queue = Head(restore_queues), ![t].granted = 1]
      /\ restore_queues' = Tail(restore_queues)
      /\ free_results' = free_results - 1
      /\ UNCHANGED <<todo, connection_pool, restore, result, sync, arrived, reported, silent,
                     faults_left, always_fatal, exited>>
  BY Zenon DEF PopQueue
<1>2. Head(restore_queues) \in Queues /\ restore_queues' \in Seq(Queues)
  BY <1>1 DEF TypeOK
<1>3. td[t] \in Worker /\ td \in [Threads -> Worker]
  BY DEF TypeOK
<1>4. td[t].conn \in Conns /\ td[t].job \in Jobs
  BY <1>1 DEF WorkersOK, WorkerFits, Place
<1>5. r \in Worker
  BY <1>2, <1>3 DEF Worker
<1>6. td' = [td EXCEPT ![t] = r]
  BY <1>1, <1>3
<1> HIDE DEF r
<1>7. td' \in [Threads -> Worker] /\ Turns(t, r)
  BY <1>5, <1>6, TurnsType
<1>8. cd' \in [Conns -> Connection] /\ committed' \in [Effects -> Nat]
  BY <1>1, <1>2, <1>4, SetupStep
<1>9. free_results' \in Nat
  BY <1>1 DEF TypeOK
<1>10. TypeOK'
  BY <1>1, <1>2, <1>7, <1>8, <1>9, Zenon DEF TypeOK
<1> QED
  BY <1>1, <1>2, <1>4, <1>7, <1>10 DEF r

LEMMA ReadOtherStep ==
    ASSUME TypeOK, WorkersOK, NEW t \in Threads, ReadOther(t)
    PROVE  /\ TypeOK' /\ Turns(t, [td[t] EXCEPT !.at = "result"])
           /\ td[t].at = "read" /\ td[t].queue \in Queues /\ Current(t, "OTHER") \in Statement
           /\ Push(t, Current(t, "OTHER")) /\ KindAt(Place(t)) # "LOAD"
<1> DEFINE r == [td[t] EXCEPT !.at = "result"]
<1>1. /\ Reads(t, {"SET", "DDL", "DELETE", "COMMIT"})
      /\ Push(t, Current(t, "OTHER"))
      /\ td' = [td EXCEPT ![t].at = "result"]
      /\ UNCHANGED <<todo, connection_pool, restore_queues, free_results, result, cd, sync,
                     arrived, reported, serverVars>>
  BY Zenon DEF ReadOther
<1>2. td[t].at = "read" /\ Place(t) \in Places /\ KindAt(Place(t)) # "LOAD"
  BY <1>1 DEF Reads
<1>3. td[t] \in Worker /\ td \in [Threads -> Worker] /\ td[t].queue \in Queues
  BY <1>2 DEF TypeOK, WorkersOK, WorkerFits, Place, Holding
<1>4. r \in Worker /\ Current(t, "OTHER") \in Statement
  BY <1>2, <1>3, StatementRecords DEF Worker
<1>5. td' = [td EXCEPT ![t] = r]
  BY <1>1, <1>3
<1> HIDE DEF r
<1>6. td' \in [Threads -> Worker] /\ Turns(t, r)
  BY <1>4, <1>5, TurnsType
<1>7. restore' \in [Queues -> Seq(Statement)]
  BY <1>1, <1>3, <1>4, PushType
<1>8. TypeOK'
  BY <1>1, <1>6, <1>7, Zenon DEF TypeOK, serverVars
<1> QED
  BY <1>1, <1>2, <1>3, <1>4, <1>6, <1>8 DEF r

LEMMA LocateStep ==
    ASSUME TypeOK, WorkersOK, NEW t \in Threads, Locate(t)
    PROVE  /\ TypeOK' /\ Turns(t, [td[t] EXCEPT !.at = "load"])
           /\ td[t].at = "read" /\ KindAt(Place(t)) = "LOAD"
           /\ \A l \in Loads : sync'[l] = "ready" => sync[l] = "ready"
<1> DEFINE r == [td[t] EXCEPT !.at = "load"]
<1>1. /\ Reads(t, {"LOAD"})
      /\ sync' = [sync EXCEPT ![Place(t)] = Located(Place(t))]
      /\ td' = [td EXCEPT ![t].at = "load"]
      /\ UNCHANGED <<todo, connection_pool, restore_queues, free_results, restore, result,
                     cd, arrived, reported, serverVars>>
  BY Zenon DEF Locate
<1>2. td[t].at = "read" /\ Place(t) \in Loads /\ KindAt(Place(t)) = "LOAD"
  BY <1>1 DEF Reads, Loads
<1>3. td[t] \in Worker /\ td \in [Threads -> Worker]
  BY DEF TypeOK
<1>4. r \in Worker /\ td' = [td EXCEPT ![t] = r]
  BY <1>1, <1>3 DEF Worker
<1> HIDE DEF r
<1>5. td' \in [Threads -> Worker] /\ Turns(t, r)
  BY <1>4, TurnsType
<1>6. /\ sync' \in [Loads -> {"absent", "waiting", "ready"}]
      /\ \A l \in Loads : sync'[l] = "ready" => sync[l] = "ready"
  BY <1>1, <1>2 DEF TypeOK, Located
<1>7. TypeOK'
  BY <1>1, <1>5, <1>6, Zenon DEF TypeOK, serverVars
<1> QED
  BY <1>2, <1>5, <1>6, <1>7 DEF r

LEMMA PushLoadDataStep ==
    ASSUME TypeOK, WorkersOK, NEW t \in Threads, PushLoadData(t)
    PROVE  /\ TypeOK' /\ Turns(t, [td[t] EXCEPT !.at = "result"])
           /\ td[t].at = "load" /\ td[t].queue \in Queues /\ Place(t) \in Loads
           /\ sync[Place(t)] = "ready" /\ Current(t, "OTHER") \in Statement
           /\ Push(t, Current(t, "OTHER"))
<1> DEFINE r == [td[t] EXCEPT !.at = "result"]
<1>1. /\ td[t].at = "load" /\ sync[Place(t)] = "ready"
      /\ Push(t, Current(t, "OTHER"))
      /\ td' = [td EXCEPT ![t].at = "result"]
      /\ UNCHANGED <<todo, connection_pool, restore_queues, free_results, result, cd, sync,
                     arrived, reported, serverVars>>
  BY Zenon DEF PushLoadData
<1>2. Place(t) \in Loads /\ Place(t) \in Places
  BY <1>1 DEF WorkersOK, WorkerFits, Place, Reading, Loads
<1>3. td[t] \in Worker /\ td \in [Threads -> Worker] /\ td[t].queue \in Queues
  BY <1>1 DEF TypeOK, WorkersOK, WorkerFits, Place, Holding
<1>4. r \in Worker /\ Current(t, "OTHER") \in Statement
  BY <1>2, <1>3, StatementRecords DEF Worker
<1>5. td' = [td EXCEPT ![t] = r]
  BY <1>1, <1>3
<1> HIDE DEF r
<1>6. td' \in [Threads -> Worker] /\ Turns(t, r)
  BY <1>4, <1>5, TurnsType
<1>7. restore' \in [Queues -> Seq(Statement)]
  BY <1>1, <1>3, <1>4, PushType
<1>8. TypeOK'
  BY <1>1, <1>6, <1>7, Zenon DEF TypeOK, serverVars
<1> QED
  BY <1>1, <1>2, <1>3, <1>4, <1>6, <1>8 DEF r

LEMMA PushCloseStep ==
    ASSUME TypeOK, WorkersOK, NEW t \in Threads, PushClose(t)
    PROVE  /\ TypeOK' /\ Turns(t, [td[t] EXCEPT !.at = "close"])
           /\ td[t].at = "drain" /\ td[t].left = 0 /\ td[t].granted > 0
           /\ td[t].queue \in Queues /\ Push(t, Close)
<1> DEFINE r == [td[t] EXCEPT !.at = "close"]
<1>1. /\ td[t].at = "drain" /\ td[t].left = 0 /\ td[t].granted > 0
      /\ Push(t, Close)
      /\ td' = [td EXCEPT ![t].at = "close"]
      /\ UNCHANGED <<todo, connection_pool, restore_queues, free_results, result, cd, sync,
                     arrived, reported, serverVars>>
  BY Zenon DEF PushClose
<1>2. td[t] \in Worker /\ td \in [Threads -> Worker] /\ td[t].queue \in Queues
  BY <1>1 DEF TypeOK, WorkersOK, WorkerFits, Place, Holding
<1>3. r \in Worker /\ td' = [td EXCEPT ![t] = r]
  BY <1>1, <1>2, SMTT(30) DEF Worker
<1> HIDE DEF r
<1>4. td' \in [Threads -> Worker] /\ Turns(t, r)
  BY <1>3, TurnsType
<1>5. restore' \in [Queues -> Seq(Statement)]
  BY <1>1, <1>2, PushType, StatementRecords
<1>6. TypeOK'
  BY <1>1, <1>4, <1>5, Zenon DEF TypeOK, serverVars
<1> QED
  BY <1>1, <1>2, <1>4, <1>6 DEF r

LastRead(t) == td[t].i = Len(ScriptOf[td[t].job])
AfterResult(t) ==
    [td[t] EXCEPT !.at = IF LastRead(t) THEN "drain" ELSE "read", !.i = @ + 1,
                  !.left = IF LastRead(t) THEN InFlight(t) ELSE 0,
                  !.r = @ + Head(result[td[t].queue]).result]

LEMMA PopResultStep ==
    ASSUME TypeOK, WorkersOK, NEW t \in Threads, PopResult(t)
    PROVE  /\ TypeOK' /\ Turns(t, AfterResult(t))
           /\ td[t].at = "result" /\ td[t].queue \in Queues
           /\ result[td[t].queue] # <<>>
           /\ result' = [result EXCEPT ![td[t].queue] = Tail(@)]
           /\ ~LastRead(t) => <<td[t].job, td[t].i + 1>> \in Places
           /\ InFlight(t) \in Nat
<1> DEFINE q == td[t].queue
           n == Head(result[q]).result
           a == IF LastRead(t) THEN "drain" ELSE "read"
           left == IF LastRead(t) THEN InFlight(t) ELSE 0
<1>1. /\ td[t].at = "result" /\ result[q] # <<>>
      /\ result' = [result EXCEPT ![q] = Tail(@)]
      /\ td' = [td EXCEPT ![t].at = a, ![t].i = @ + 1, ![t].left = left, ![t].r = @ + n]
      /\ free_results' = free_results + (IF LastRead(t) THEN 1 ELSE 0)
      /\ exited' = (n > 0 /\ td[t].job \in FromFile)
      /\ UNCHANGED <<todo, connection_pool, restore_queues, restore, cd, sync, arrived,
                     reported, committed, silent, faults_left, always_fatal>>
  BY Zenon DEF PopResult, LastRead
<1>2. td[t] \in Worker /\ td \in [Threads -> Worker] /\ q \in Queues /\ Place(t) \in Places
  BY <1>1 DEF TypeOK, WorkersOK, WorkerFits, Place, Holding, Reading
<1>3. Head(result[q]) \in Statement /\ result' \in [Queues -> Seq(Statement)]
  BY <1>1, <1>2, PopType
<1>4. n \in 0 .. 2
  BY <1>3 DEF Statement
<1>5. InFlight(t) \in Nat
  BY SizesAssumption DEF InFlight
<1>6. /\ AfterResult(t) = [td[t] EXCEPT !.at = a, !.i = @ + 1, !.left = left, !.r = @ + n]
      /\ a \in {"drain", "read"} /\ left \in Nat
  BY <1>5 DEF AfterResult
<1> HIDE DEF a, left, n
<1>7. AfterResult(t) \in Worker /\ td' = [td EXCEPT ![t] = AfterResult(t)]
  BY <1>1, <1>2, <1>4, <1>6 DEF Worker
<1>8. td' \in [Threads -> Worker] /\ Turns(t, AfterResult(t))
  BY <1>7, TurnsType
<1>9. free_results' \in Nat /\ exited' \in BOOLEAN
  BY <1>1, <1>4 DEF TypeOK
<1>10. ~LastRead(t) => <<td[t].job, td[t].i + 1>> \in Places
  <2> DEFINE j == td[t].job
             i == td[t].i
  <2>1. j \in Jobs /\ i \in DOMAIN ScriptOf[j]
    BY <1>2, PlacesType DEF Place
  <2>2. ScriptOf[j] \in Seq({"SET", "DDL", "DELETE", "COMMIT", "INSERT", "LOAD"})
    BY <2>1, JobsAssumption
  <2>3. ~LastRead(t) => i + 1 \in DOMAIN ScriptOf[j]
    BY <2>1, <2>2 DEF LastRead
  <2> QED
    BY <2>1, <2>3, PlacesType
<1>11. TypeOK'
  BY <1>1, <1>3, <1>8, <1>9, Zenon DEF TypeOK
<1> QED
  BY <1>1, <1>2, <1>5, <1>8, <1>10, <1>11

LEMMA DrainStep ==
    ASSUME TypeOK, WorkersOK, NEW t \in Threads, Drain(t)
    PROVE  /\ TypeOK' /\ Turns(t, [td[t] EXCEPT !.left = @ - 1])
           /\ td[t].at = "drain" /\ td[t].left > 0 /\ td[t].queue \in Queues
           /\ result[td[t].queue] # <<>>
           /\ result' = [result EXCEPT ![td[t].queue] = Tail(@)]
<1> DEFINE q == td[t].queue
           r == [td[t] EXCEPT !.left = @ - 1]
<1>1. /\ td[t].at = "drain" /\ td[t].left > 0 /\ result[q] # <<>>
      /\ result' = [result EXCEPT ![q] = Tail(@)]
      /\ free_results' = free_results + 1
      /\ td' = [td EXCEPT ![t].left = @ - 1]
      /\ exited' = (Head(result[q]).result > 0)
      /\ UNCHANGED <<todo, connection_pool, restore_queues, restore, cd, sync, arrived,
                     reported, committed, silent, faults_left, always_fatal>>
  BY Zenon DEF Drain
<1>2. td[t] \in Worker /\ td \in [Threads -> Worker] /\ q \in Queues
  BY <1>1 DEF TypeOK, WorkersOK, WorkerFits, Place, Holding
<1>3. result' \in [Queues -> Seq(Statement)] /\ Head(result[q]) \in Statement
  BY <1>1, <1>2, PopType
<1>4. r \in Worker /\ td' = [td EXCEPT ![t] = r]
  BY <1>1, <1>2, SMTT(30) DEF Worker
<1> HIDE DEF r
<1>5. td' \in [Threads -> Worker] /\ Turns(t, r)
  BY <1>4, TurnsType
<1>6. Head(result[q]).result \in Nat
  BY <1>3 DEF Statement
<1>7. free_results' \in Nat /\ exited' \in BOOLEAN
  BY <1>1, <1>6 DEF TypeOK
<1>8. TypeOK'
  BY <1>1, <1>3, <1>5, <1>7, Zenon DEF TypeOK
<1> QED
  BY <1>1, <1>2, <1>5, <1>8 DEF r

LEMMA PopCloseStep ==
    ASSUME TypeOK, WorkersOK, NEW t \in Threads, PopClose(t)
    PROVE  /\ TypeOK' /\ Turns(t, [td[t] EXCEPT !.at = "drain", !.granted = @ - 1])
           /\ td[t].at = "close" /\ td[t].queue \in Queues
           /\ result[td[t].queue] # <<>>
           /\ result' = [result EXCEPT ![td[t].queue] = Tail(@)]
<1> DEFINE q == td[t].queue
           r == [td[t] EXCEPT !.at = "drain", !.granted = @ - 1]
<1>1. /\ td[t].at = "close" /\ result[q] # <<>>
      /\ result' = [result EXCEPT ![q] = Tail(@)]
      /\ td' = [td EXCEPT ![t].at = "drain", ![t].granted = @ - 1]
      /\ UNCHANGED <<todo, connection_pool, restore_queues, free_results, restore, cd,
                     sync, arrived, reported, serverVars>>
  BY Zenon DEF PopClose
<1>2. td[t] \in Worker /\ td \in [Threads -> Worker] /\ q \in Queues
  BY <1>1 DEF TypeOK, WorkersOK, WorkerFits, Place, Holding
<1>3. result' \in [Queues -> Seq(Statement)]
  BY <1>1, <1>2, PopType
<1>7. td[t].granted > 0
  BY <1>1 DEF WorkersOK, WorkerFits, Place
<1>4. r \in Worker /\ td' = [td EXCEPT ![t] = r]
  BY <1>1, <1>2, <1>7 DEF Worker
<1> HIDE DEF r
<1>5. td' \in [Threads -> Worker] /\ Turns(t, r)
  BY <1>4, TurnsType
<1>6. TypeOK'
  BY <1>1, <1>3, <1>5, Zenon DEF TypeOK, serverVars
<1> QED
  BY <1>1, <1>2, <1>5, <1>6 DEF r

LEMMA FinishJobStep ==
    ASSUME TypeOK, WorkersOK, NEW t \in Threads, FinishJob(t)
    PROVE  /\ TypeOK' /\ Turns(t, Idle)
           /\ td[t].at = "drain" /\ td[t].left = 0 /\ td[t].queue \in Queues
           /\ restore_queues' = Append(restore_queues, td[t].queue)
<1>1. /\ td[t].at = "drain" /\ td[t].left = 0
      /\ restore_queues' = Append(restore_queues, td[t].queue)
      /\ reported' = [reported EXCEPT ![td[t].job] = td[t].r]
      /\ td' = [td EXCEPT ![t] = Idle]
      /\ UNCHANGED <<todo, connection_pool, free_results, restore, result, cd, sync,
                     arrived, serverVars>>
  BY Zenon DEF FinishJob
<1>2. td[t] \in Worker /\ td[t].queue \in Queues
  BY <1>1 DEF TypeOK, WorkersOK, WorkerFits, Place, Holding
<1>3. td[t].r \in Nat
  BY <1>2 DEF Worker
<1>4. td' \in [Threads -> Worker] /\ Turns(t, Idle)
  BY <1>1, TurnsType, StatementRecords
<1>5. reported' \in [Jobs -> Int] /\ restore_queues' \in Seq(Queues)
  <2>1. reported \in [Jobs -> Int] /\ restore_queues \in Seq(Queues)
    BY DEF TypeOK
  <2>2. restore_queues' \in Seq(Queues)
    BY <1>1, <1>2, <2>1
  <2> DEFINE n == td[t].r
             j == td[t].job
  <2>4. reported' = [reported EXCEPT ![j] = n] /\ n \in Int
    BY <1>1, <1>3
  <2> HIDE DEF n, j
  <2>3. reported' \in [Jobs -> Int]
    BY <2>1, <2>4
  <2> QED
    BY <2>2, <2>3
<1>6. TypeOK'
  BY <1>1, <1>4, <1>5, Zenon DEF TypeOK, serverVars
<1> QED
  BY <1>1, <1>2, <1>4, <1>6

(* A worker reads an INSERT, and perhaps gets one more connection. *)
Blanks(t) == IF td[t].results_added THEN 0 ELSE Prefill
AfterInsert(t, n) == [td[t] EXCEPT !.at = "result", !.results_added = TRUE, !.granted = n]

LEMMA ReadInsertStep ==
    ASSUME TypeOK, WorkersOK, NEW t \in Threads, ReadInsert(t)
    PROVE  /\ TypeOK' /\ \E n \in Nat : Turns(t, AfterInsert(t, n))
           /\ td[t].at = "read" /\ td[t].queue \in Queues /\ td[t].job \in Jobs
           /\ Place(t) \in Places
           /\ Current(t, "INSERT") \in Statement /\ Push(t, Current(t, "INSERT"))
           /\ KindAt(Place(t)) # "LOAD"
           /\ LET q == td[t].queue
              IN /\ result'[q] \in Seq(Statement)
                 /\ Len(result'[q]) = Len(result[q]) + Blanks(t)
                 /\ \A i \in DOMAIN result'[q] :
                        \/ i \in DOMAIN result[q] /\ result'[q][i] = result[q][i]
                        \/ result'[q][i] = Blank
                 /\ \A p \in Queues \ {q} : result'[p] = result[p]
           /\ \/ connection_pool' = connection_pool /\ cd' = cd /\ committed' = committed
              \/ /\ connection_pool # <<>> /\ connection_pool' = Tail(connection_pool)
                 /\ Head(connection_pool) \in Conns
                 /\ Setup(Head(connection_pool), td[t].queue, td[t].job)
<1> DEFINE q == td[t].queue
           more == [n \in 1 .. Blanks(t) |-> Blank]
           Stay == /\ td' = [td EXCEPT ![t].at = "result", ![t].results_added = TRUE]
                   /\ UNCHANGED <<connection_pool, cd, committed>>
           Grant == /\ connection_pool # <<>>
                    /\ Setup(Head(connection_pool), q, td[t].job)
                    /\ connection_pool' = Tail(connection_pool)
                    /\ td' = [td EXCEPT ![t].at = "result", ![t].results_added = TRUE,
                                        ![t].granted = @ + 1]
<1>1. /\ Reads(t, {"INSERT"}) /\ free_results >= Blanks(t)
      /\ free_results' = free_results - Blanks(t)
      /\ result' = [result EXCEPT ![q] = @ \o more]
      /\ Push(t, Current(t, "INSERT"))
      /\ Stay \/ Grant
      /\ UNCHANGED <<todo, restore_queues, sync, arrived, reported, silent, faults_left,
                     always_fatal, exited>>
  BY Zenon DEF ReadInsert, Blanks
<1> HIDE DEF Stay, Grant, more
<1>2. td[t].at = "read" /\ Place(t) \in Places /\ KindAt(Place(t)) # "LOAD"
  BY <1>1 DEF Reads
<1>3. /\ td[t] \in Worker /\ td \in [Threads -> Worker] /\ q \in Queues /\ td[t].job \in Jobs
      /\ td[t].granted \in Nat
  <2>1. td[t] \in Worker /\ td \in [Threads -> Worker] /\ q \in Queues /\ td[t].job \in Jobs
    BY <1>2 DEF TypeOK, WorkersOK, WorkerFits, Place, Holding
  <2> QED
    BY <2>1 DEF Worker
<1>4. Current(t, "INSERT") \in Statement
  BY <1>2, StatementRecords
<1>5. restore' \in [Queues -> Seq(Statement)]
  BY <1>1, <1>3, <1>4, PushType
<1>6. Blanks(t) \in Nat
  BY SizesAssumption DEF Blanks
<1>7. more \in Seq(Statement) /\ Len(more) = Blanks(t) /\ \A i \in DOMAIN more : more[i] = Blank
  BY <1>6, StatementRecords DEF more
<1>8. result \in [Queues -> Seq(Statement)] /\ result[q] \in Seq(Statement)
  BY <1>3 DEF TypeOK
<1>9. /\ result[q] \o more \in Seq(Statement)
      /\ Len(result[q] \o more) = Len(result[q]) + Blanks(t)
  <2> DEFINE a == result[q]
  <2>1. a \in Seq(Statement)
    BY <1>8
  <2> HIDE DEF a
  <2>2. a \o more \in Seq(Statement) /\ Len(a \o more) = Len(a) + Len(more)
    BY <1>7, <2>1
  <2> QED
    BY <1>7, <2>2 DEF a
<1>10. \A i \in DOMAIN (result[q] \o more) :
          \/ i \in DOMAIN result[q] /\ (result[q] \o more)[i] = result[q][i]
          \/ (result[q] \o more)[i] = Blank
  <2> DEFINE a == result[q]
  <2>1. a \in Seq(Statement)
    BY <1>8
  <2> HIDE DEF a
  <2>2. ASSUME NEW i \in DOMAIN (a \o more)
        PROVE  (i \in DOMAIN a /\ (a \o more)[i] = a[i]) \/ (a \o more)[i] = Blank
    <3>1. CASE i <= Len(a)
      BY <1>7, <2>1, <3>1
    <3>2. CASE ~(i <= Len(a))
      <4>1. (a \o more)[i] = more[i - Len(a)] /\ i - Len(a) \in DOMAIN more
        BY <1>7, <2>1, <3>2
      <4> QED
        BY <1>7, <4>1
    <3> QED
      BY <3>1, <3>2
  <2> QED
    BY <2>2 DEF a
<1>11. /\ result' \in [Queues -> Seq(Statement)] /\ result'[q] = result[q] \o more
       /\ \A p \in Queues \ {q} : result'[p] = result[p]
  BY <1>1, <1>3, <1>8, <1>9
<1>12. free_results' \in Nat
  BY <1>1, <1>6 DEF TypeOK
<1>13. CASE Stay
  <2>1. /\ td' = [td EXCEPT ![t].at = "result", ![t].results_added = TRUE]
        /\ connection_pool' = connection_pool /\ cd' = cd /\ committed' = committed
    BY <1>13 DEF Stay
  <2> DEFINE r == AfterInsert(t, td[t].granted)
  <2>2. r \in Worker /\ td' = [td EXCEPT ![t] = r]
    BY <1>3, <2>1 DEF Worker, AfterInsert
  <2>3. td' \in [Threads -> Worker] /\ Turns(t, r)
    BY <2>2, TurnsType
  <2>4. TypeOK'
    BY <1>1, <1>5, <1>11, <1>12, <2>1, <2>3, Zenon DEF TypeOK
  <2> QED
    BY <1>1, <1>2, <1>3, <1>4, <1>9, <1>10, <1>11, <2>1, <2>3, <2>4
<1>14. CASE Grant
  <2>1. /\ connection_pool # <<>> /\ Setup(Head(connection_pool), q, td[t].job)
        /\ connection_pool' = Tail(connection_pool)
        /\ td' = [td EXCEPT ![t].at = "result", ![t].results_added = TRUE, ![t].granted = @ + 1]
    BY <1>14 DEF Grant
  <2> DEFINE r == AfterInsert(t, td[t].granted + 1)
  <2>2. r \in Worker /\ td' = [td EXCEPT ![t] = r] /\ td[t].granted + 1 \in Nat
    BY <1>3, <2>1 DEF Worker, AfterInsert
  <2>3. td' \in [Threads -> Worker] /\ Turns(t, r)
    BY <2>2, TurnsType
  <2>4. Head(connection_pool) \in Conns /\ connection_pool' \in Seq(Conns)
    BY <2>1 DEF TypeOK
  <2>5. cd' \in [Conns -> Connection] /\ committed' \in [Effects -> Nat]
    BY <1>3, <2>1, <2>4, SetupStep
  <2>6. TypeOK'
    BY <1>1, <1>5, <1>11, <1>12, <2>3, <2>4, <2>5, Zenon DEF TypeOK
  <2> QED
    BY <1>1, <1>2, <1>3, <1>4, <1>9, <1>10, <1>11, <2>1, <2>2, <2>3, <2>4, <2>6
<1> QED
  BY <1>1, <1>13, <1>14

LEMMA ArriveStep ==
    ASSUME TypeOK, NEW l \in Loads, Arrive(l)
    PROVE  /\ TypeOK' /\ arrived' = arrived \cup {l}
           /\ \A k \in Loads : sync'[k] = "ready" => k = l \/ sync[k] = "ready"
<1>1. /\ arrived' = arrived \cup {l}
      /\ sync' = [sync EXCEPT ![l] = "ready"]
      /\ UNCHANGED <<todo, td, connection_pool, restore_queues, free_results, restore,
                     result, cd, reported, serverVars>>
  BY Zenon DEF Arrive, Released
<1>2. /\ sync' \in [Loads -> {"absent", "waiting", "ready"}] /\ arrived' \subseteq Loads
      /\ \A k \in Loads : sync'[k] = "ready" => k = l \/ sync[k] = "ready"
  BY <1>1 DEF TypeOK
<1>3. TypeOK'
  BY <1>1, <1>2, Zenon DEF TypeOK, serverVars
<1> QED
  BY <1>1, <1>2, <1>3

(* An idle connection loses its session or its thread. *)
LEMMA ReleaseStep ==
    ASSUME TypeOK, release_idle_connection_if_possible
    PROVE  /\ TypeOK' /\ connection_pool # <<>> /\ Head(connection_pool) \in Conns
           /\ connection_pool' = Append(Tail(connection_pool), Head(connection_pool))
           /\ \A c \in Conns : /\ cd'[c].at = cd[c].at /\ cd'[c].queue = cd[c].queue
                               /\ cd'[c].piece = cd[c].piece /\ cd'[c].ir = cd[c].ir
                               /\ cd'[c].pending \subseteq cd[c].pending
<1> DEFINE h == Head(connection_pool)
<1>1. /\ connection_pool # <<>>
      /\ cd' = [cd EXCEPT ![h].pending = {}, ![h].in_transaction = FALSE]
      /\ connection_pool' = Append(Tail(connection_pool), h)
      /\ UNCHANGED <<restore, result, serverVars>> /\ ServerUnchanged
  BY Zenon DEF release_idle_connection_if_possible
<1>2. h \in Conns /\ connection_pool' \in Seq(Conns)
  BY <1>1 DEF TypeOK
<1>3. cd \in [Conns -> Connection] /\ cd[h] \in Connection
  BY <1>2 DEF TypeOK
<1>4. [cd[h] EXCEPT !.pending = {}, !.in_transaction = FALSE] \in Connection
  BY <1>3 DEF Connection
<1> HIDE DEF h
<1>5. cd' \in [Conns -> Connection]
  BY <1>1, <1>2, <1>3, <1>4
<1>6. \A c \in Conns : /\ cd'[c].at = cd[c].at /\ cd'[c].queue = cd[c].queue
                       /\ cd'[c].piece = cd[c].piece /\ cd'[c].ir = cd[c].ir
                       /\ cd'[c].pending \subseteq cd[c].pending
  BY <1>1, <1>2, <1>3 DEF Connection
<1>7. TypeOK'
  BY <1>1, <1>2, <1>5, Zenon DEF TypeOK, serverVars, ServerUnchanged
<1> QED
  BY <1>1, <1>2, <1>6, <1>7 DEF h

LEMMA EndStep ==
    ASSUME TypeOK, wait_restore_threads_to_close
    PROVE  /\ TypeOK' /\ connection_pool # <<>> /\ Head(connection_pool) \in Conns
           /\ connection_pool' = Tail(connection_pool)
           /\ \A t \in Threads : td[t].at = "free"
           /\ \A c \in Conns : /\ c # Head(connection_pool) => cd'[c] = cd[c]
                               /\ cd'[c].queue = cd[c].queue
                               /\ cd'[c].piece = cd[c].piece /\ cd'[c].ir = cd[c].ir
                               /\ cd'[c].pending = cd[c].pending
           /\ cd'[Head(connection_pool)].at = "ended"
<1> DEFINE h == Head(connection_pool)
<1>1. /\ connection_pool # <<>> /\ \A t \in Threads : td[t].at = "free"
      /\ cd' = [cd EXCEPT ![h].at = "ended"]
      /\ connection_pool' = Tail(connection_pool)
      /\ UNCHANGED <<restore, result, serverVars>> /\ ServerUnchanged
  BY Zenon DEF wait_restore_threads_to_close
<1>2. h \in Conns /\ connection_pool' \in Seq(Conns)
  BY <1>1 DEF TypeOK
<1>3. cd \in [Conns -> Connection] /\ cd[h] \in Connection
  BY <1>2 DEF TypeOK
<1>4. [cd[h] EXCEPT !.at = "ended"] \in Connection
  BY <1>3 DEF Connection
<1> HIDE DEF h
<1>5. cd' \in [Conns -> Connection]
  BY <1>1, <1>2, <1>3, <1>4
<1>6. /\ \A c \in Conns : /\ c # h => cd'[c] = cd[c]
                          /\ cd'[c].queue = cd[c].queue
                          /\ cd'[c].piece = cd[c].piece /\ cd'[c].ir = cd[c].ir
                          /\ cd'[c].pending = cd[c].pending
      /\ cd'[h].at = "ended"
  BY <1>1, <1>2, <1>3 DEF Connection
<1>7. TypeOK'
  BY <1>1, <1>2, <1>5, Zenon DEF TypeOK, serverVars, ServerUnchanged
<1> QED
  BY <1>1, <1>2, <1>6, <1>7 DEF h

-----------------------------------------------------------------------------
(* Sequences without repetition. *)
LEMMA TailOnce ==
    ASSUME NEW T, NEW q \in Seq(T), q # <<>>, Injective(q)
    PROVE  /\ Injective(Tail(q))
           /\ \A n \in DOMAIN Tail(q) :
                /\ Tail(q)[n] # Head(q)
                /\ \E m \in DOMAIN q : q[m] = Tail(q)[n]
           /\ \E m \in DOMAIN q : q[m] = Head(q)
<1>1. /\ \A n \in DOMAIN Tail(q) : n + 1 \in DOMAIN q /\ n + 1 # 1 /\ Tail(q)[n] = q[n + 1]
      /\ 1 \in DOMAIN q /\ Head(q) = q[1]
  OBVIOUS
<1>2. \A m, n \in DOMAIN Tail(q) : m + 1 = n + 1 => m = n
  OBVIOUS
<1> QED
  BY <1>1, <1>2, Zenon DEF Injective

LEMMA AppendOnce ==
    ASSUME NEW T, NEW q \in Seq(T), NEW x \in T
    PROVE  /\ \A n \in DOMAIN Append(q, x) :
                Append(q, x)[n] = x \/ (n \in DOMAIN q /\ Append(q, x)[n] = q[n])
           /\ \A n \in DOMAIN q : n \in DOMAIN Append(q, x) /\ Append(q, x)[n] = q[n]
           /\ Injective(q) /\ (\A n \in DOMAIN q : q[n] # x) => Injective(Append(q, x))
<1>1. /\ \A n \in DOMAIN Append(q, x) :
            \/ n = Len(q) + 1 /\ Append(q, x)[n] = x
            \/ n \in DOMAIN q /\ Append(q, x)[n] = q[n]
      /\ \A n \in DOMAIN q : n \in DOMAIN Append(q, x) /\ Append(q, x)[n] = q[n]
  OBVIOUS
<1> QED
  BY <1>1 DEF Injective

(* A pair of queues stays with its worker. *)
LEMMA QueuesKept ==
    ASSUME QueuesOnce, NEW t \in Threads, NEW r, Turns(t, r), r.queue = td[t].queue,
           r.at \in Holding => td[t].at \in Holding, restore_queues' = restore_queues
    PROVE  QueuesOnce'
<1>1. \A u \in Threads : td'[u].queue = td[u].queue /\ (Held(u)' => Held(u))
  BY DEF Turns, Held
<1> QED
  BY <1>1 DEF QueuesOnce, Held

LEMMA QueuesTaken ==
    ASSUME TypeOK, QueuesOnce, NEW t \in Threads, NEW r, Turns(t, r),
           restore_queues # <<>>, r.queue = Head(restore_queues),
           restore_queues' = Tail(restore_queues)
    PROVE  QueuesOnce'
<1>1. /\ Injective(restore_queues')
      /\ \A n \in DOMAIN restore_queues' :
            /\ restore_queues'[n] # Head(restore_queues)
            /\ \E m \in DOMAIN restore_queues : restore_queues[m] = restore_queues'[n]
      /\ \E m \in DOMAIN restore_queues : restore_queues[m] = Head(restore_queues)
  BY TailOnce DEF TypeOK, QueuesOnce
<1>2. td'[t].queue = Head(restore_queues) /\ \A u \in Threads \ {t} : td'[u] = td[u]
  BY DEF Turns
<1>3. \A u \in Threads \ {t} : (Held(u)' <=> Held(u)) /\ td'[u].queue = td[u].queue
  BY <1>2 DEF Held
<1>4. \A u \in Threads \ {t} : Held(u) => td[u].queue # Head(restore_queues)
  BY <1>1 DEF QueuesOnce
<1>5. ASSUME NEW u \in Threads, Held(u)', NEW n \in DOMAIN restore_queues'
      PROVE  restore_queues'[n] # td'[u].queue
  BY <1>1, <1>2, <1>3, <1>5 DEF QueuesOnce
<1>6. ASSUME NEW u \in Threads, NEW v \in Threads, Held(u)', Held(v)',
             td'[u].queue = td'[v].queue
      PROVE  u = v
  BY <1>2, <1>3, <1>4, <1>6 DEF QueuesOnce
<1> QED
  BY <1>1, <1>5, <1>6 DEF QueuesOnce

LEMMA QueuesReturned ==
    ASSUME TypeOK, QueuesOnce, NEW t \in Threads, Turns(t, Idle), Held(t),
           td[t].queue \in Queues, restore_queues' = Append(restore_queues, td[t].queue)
    PROVE  QueuesOnce'
<1> DEFINE q == td[t].queue
<1>1. restore_queues \in Seq(Queues) /\ q \in Queues
  BY DEF TypeOK
<1>2. Injective(restore_queues) /\ \A n \in DOMAIN restore_queues : restore_queues[n] # q
  BY DEF QueuesOnce
<1>3. /\ Injective(restore_queues')
      /\ \A n \in DOMAIN restore_queues' :
            \/ restore_queues'[n] = q
            \/ n \in DOMAIN restore_queues /\ restore_queues'[n] = restore_queues[n]
  BY <1>1, <1>2, AppendOnce
<1>4. ~Held(t)' /\ \A u \in Threads \ {t} : (Held(u)' <=> Held(u)) /\ td'[u].queue = td[u].queue
  BY DEF Turns, Held, Idle, Holding
<1>5. \A u \in Threads \ {t} : Held(u) => td[u].queue # q
  BY DEF QueuesOnce
<1>6. ASSUME NEW u \in Threads, Held(u)', NEW n \in DOMAIN restore_queues'
      PROVE  restore_queues'[n] # td'[u].queue
  BY <1>3, <1>4, <1>5, <1>6 DEF QueuesOnce
<1>7. ASSUME NEW u \in Threads, NEW v \in Threads, Held(u)', Held(v)',
             td'[u].queue = td'[v].queue
      PROVE  u = v
  BY <1>4, <1>7 DEF QueuesOnce
<1> QED
  BY <1>3, <1>6, <1>7 DEF QueuesOnce

(* Connections: kept, taken by a worker, put to service, given back. *)
LEMMA ConnectionsKept ==
    ASSUME TypeOK, WorkersOK, ConnectionsOnce, connection_pool' = connection_pool,
           \A c \in Conns : cd'[c].at = cd[c].at,
           \A u \in Threads : Waits(u)' => Waits(u) /\ td'[u].conn = td[u].conn
    PROVE  ConnectionsOnce'
<1>1. \A n \in DOMAIN connection_pool : connection_pool[n] \in Conns
  BY DEF TypeOK
<1>2. \A u \in Threads : Waits(u) => td[u].conn \in Conns
  BY DEF WorkersOK, WorkerFits, Waits
<1> QED
  BY <1>1, <1>2 DEF ConnectionsOnce

LEMMA PoolTail ==
    ASSUME TypeOK, ConnectionsOnce, connection_pool # <<>>,
           connection_pool' = Tail(connection_pool)
    PROVE  /\ Injective(connection_pool')
           /\ \A n \in DOMAIN connection_pool' :
                /\ connection_pool'[n] # Head(connection_pool)
                /\ connection_pool'[n] \in Conns
                /\ \E m \in DOMAIN connection_pool : connection_pool[m] = connection_pool'[n]
           /\ \E m \in DOMAIN connection_pool : connection_pool[m] = Head(connection_pool)
<1>1. connection_pool \in Seq(Conns) /\ Injective(connection_pool)
  BY DEF TypeOK, ConnectionsOnce
<1>2. /\ Injective(connection_pool')
      /\ \A n \in DOMAIN connection_pool' :
           /\ connection_pool'[n] # Head(connection_pool)
           /\ \E m \in DOMAIN connection_pool : connection_pool[m] = connection_pool'[n]
      /\ \E m \in DOMAIN connection_pool : connection_pool[m] = Head(connection_pool)
  BY <1>1, TailOnce
<1>3. \A m \in DOMAIN connection_pool : connection_pool[m] \in Conns
  BY <1>1
<1> QED
  BY <1>2, <1>3

LEMMA ConnectionTaken ==
    ASSUME TypeOK, WorkersOK, ConnectionsOnce, connection_pool # <<>>,
           connection_pool' = Tail(connection_pool), cd' = cd,
           NEW t \in Threads, NEW r, Turns(t, r), r.conn = Head(connection_pool)
    PROVE  ConnectionsOnce'
<1>1. td'[t].conn = Head(connection_pool)
      /\ \A u \in Threads \ {t} : (Waits(u)' <=> Waits(u)) /\ td'[u].conn = td[u].conn
  BY DEF Turns, Waits
<1>2. \A u \in Threads : Waits(u) => td[u].conn # Head(connection_pool)
  BY PoolTail DEF ConnectionsOnce
<1>3. ASSUME NEW n \in DOMAIN connection_pool' PROVE cd'[connection_pool'[n]].at = "pool"
  BY <1>3, PoolTail DEF ConnectionsOnce
<1>4. cd[Head(connection_pool)].at = "pool"
  BY PoolTail DEF ConnectionsOnce
<1>5. ASSUME NEW u \in Threads, Waits(u)'
      PROVE  /\ cd'[td'[u].conn].at = "pool"
             /\ \A n \in DOMAIN connection_pool' : connection_pool'[n] # td'[u].conn
  BY <1>1, <1>4, <1>5, PoolTail DEF ConnectionsOnce
<1>6. ASSUME NEW u \in Threads, NEW v \in Threads, Waits(u)', Waits(v)',
             td'[u].conn = td'[v].conn
      PROVE  u = v
  BY <1>1, <1>2, <1>6 DEF ConnectionsOnce
<1> QED
  BY <1>3, <1>5, <1>6, PoolTail DEF ConnectionsOnce

(* The connection of a worker that waited for a pair of queues. *)
LEMMA ConnectionUsed ==
    ASSUME TypeOK, WorkersOK, ConnectionsOnce, connection_pool' = connection_pool,
           NEW t \in Threads, Waits(t), NEW r, Turns(t, r), r.at # "queue",
           \A d \in Conns \ {td[t].conn} : cd'[d] = cd[d]
    PROVE  ConnectionsOnce'
<1>1. ~Waits(t)' /\ \A u \in Threads \ {t} : (Waits(u)' <=> Waits(u)) /\ td'[u].conn = td[u].conn
  BY DEF Turns, Waits
<1>2. \A u \in Threads : Waits(u) => td[u].conn \in Conns
  BY DEF WorkersOK, WorkerFits, Waits
<1>3. \A n \in DOMAIN connection_pool :
         connection_pool[n] \in Conns /\ connection_pool[n] # td[t].conn
  BY DEF ConnectionsOnce, TypeOK
<1>4. \A u \in Threads \ {t} : Waits(u) => td[u].conn # td[t].conn
  BY DEF ConnectionsOnce
<1>5. ASSUME NEW n \in DOMAIN connection_pool' PROVE cd'[connection_pool'[n]].at = "pool"
  BY <1>3, <1>5 DEF ConnectionsOnce
<1>6. ASSUME NEW u \in Threads, Waits(u)'
      PROVE  /\ cd'[td'[u].conn].at = "pool"
             /\ \A n \in DOMAIN connection_pool' : connection_pool'[n] # td'[u].conn
  BY <1>1, <1>2, <1>4, <1>6 DEF ConnectionsOnce
<1>7. ASSUME NEW u \in Threads, NEW v \in Threads, Waits(u)', Waits(v)',
             td'[u].conn = td'[v].conn
      PROVE  u = v
  BY <1>1, <1>7 DEF ConnectionsOnce
<1> QED
  BY <1>5, <1>6, <1>7 DEF ConnectionsOnce

(* The first connection of the pool is put to service, or ended. *)
LEMMA ConnectionLeaves ==
    ASSUME TypeOK, WorkersOK, ConnectionsOnce, connection_pool # <<>>,
           connection_pool' = Tail(connection_pool),
           \A d \in Conns \ {Head(connection_pool)} : cd'[d] = cd[d],
           \A u \in Threads : Waits(u)' => Waits(u) /\ td'[u].conn = td[u].conn
    PROVE  ConnectionsOnce'
<1>1. \A u \in Threads : Waits(u) => td[u].conn \in Conns /\ td[u].conn # Head(connection_pool)
  <2>1. PICK m \in DOMAIN connection_pool : connection_pool[m] = Head(connection_pool)
    BY PoolTail
  <2>2. \A u \in Threads : Waits(u) => td[u].conn \in Conns
    BY DEF WorkersOK, WorkerFits, Waits
  <2> QED
    BY <2>1, <2>2 DEF ConnectionsOnce
<1>2. ASSUME NEW n \in DOMAIN connection_pool' PROVE cd'[connection_pool'[n]].at = "pool"
  <2>1. /\ connection_pool'[n] \in Conns \ {Head(connection_pool)}
        /\ \E m \in DOMAIN connection_pool : connection_pool[m] = connection_pool'[n]
    BY PoolTail
  <2>2. cd'[connection_pool'[n]] = cd[connection_pool'[n]]
    BY <2>1
  <2> QED
    BY <2>1, <2>2 DEF ConnectionsOnce
<1>3. ASSUME NEW u \in Threads, Waits(u)'
      PROVE  /\ cd'[td'[u].conn].at = "pool"
             /\ \A n \in DOMAIN connection_pool' : connection_pool'[n] # td'[u].conn
  <2>1. Waits(u) /\ td'[u].conn = td[u].conn /\ cd'[td[u].conn] = cd[td[u].conn]
    BY <1>1, <1>3
  <2> QED
    BY <2>1, PoolTail DEF ConnectionsOnce
<1>4. ASSUME NEW u \in Threads, NEW v \in Threads, Waits(u)', Waits(v)',
             td'[u].conn = td'[v].conn
      PROVE  u = v
  BY <1>4 DEF ConnectionsOnce
<1> QED
  BY <1>2, <1>3, <1>4, PoolTail DEF ConnectionsOnce

LEMMA ConnectionReturned ==
    ASSUME TypeOK, WorkersOK, ConnectionsOnce, td' = td, NEW c \in Conns,
           cd[c].at = "serving", cd'[c].at = "pool",
           \A d \in Conns \ {c} : cd'[d] = cd[d],
           connection_pool' = Append(connection_pool, c)
    PROVE  ConnectionsOnce'
<1>1. connection_pool \in Seq(Conns)
  BY DEF TypeOK
<1>2. \A n \in DOMAIN connection_pool : connection_pool[n] \in Conns \ {c}
  BY <1>1 DEF ConnectionsOnce
<1>3. Injective(connection_pool)
  BY DEF ConnectionsOnce
<1>4. /\ Injective(connection_pool')
      /\ \A n \in DOMAIN connection_pool' :
           \/ connection_pool'[n] = c
           \/ n \in DOMAIN connection_pool /\ connection_pool'[n] = connection_pool[n]
  BY <1>1, <1>2, <1>3, AppendOnce
<1>5. \A u \in Threads : (Waits(u)' <=> Waits(u)) /\ (Waits(u) => td[u].conn \in Conns \ {c})
  BY DEF Waits, ConnectionsOnce, WorkersOK, WorkerFits
<1>6. ASSUME NEW n \in DOMAIN connection_pool' PROVE cd'[connection_pool'[n]].at = "pool"
  <2>1. CASE connection_pool'[n] = c
    BY <2>1
  <2>2. CASE n \in DOMAIN connection_pool /\ connection_pool'[n] = connection_pool[n]
    <3>1. cd'[connection_pool[n]] = cd[connection_pool[n]]
      BY <1>2, <2>2
    <3> QED
      BY <2>2, <3>1 DEF ConnectionsOnce
  <2> QED
    BY <1>4, <2>1, <2>2
<1>7. ASSUME NEW u \in Threads, Waits(u)'
      PROVE  /\ cd'[td'[u].conn].at = "pool"
             /\ \A n \in DOMAIN connection_pool' : connection_pool'[n] # td'[u].conn
  <2>1. Waits(u) /\ td'[u].conn = td[u].conn /\ cd'[td[u].conn] = cd[td[u].conn]
        /\ td[u].conn # c
    BY <1>5, <1>7
  <2> QED
    BY <1>4, <2>1 DEF ConnectionsOnce
<1>8. ASSUME NEW u \in Threads, NEW v \in Threads, Waits(u)', Waits(v)',
             td'[u].conn = td'[v].conn
      PROVE  u = v
  BY <1>5, <1>8 DEF ConnectionsOnce
<1> QED
  BY <1>4, <1>6, <1>7, <1>8 DEF ConnectionsOnce

LEMMA ConnectionRotated ==
    ASSUME TypeOK, WorkersOK, ConnectionsOnce, td' = td, connection_pool # <<>>,
           connection_pool' = Append(Tail(connection_pool), Head(connection_pool)),
           \A c \in Conns : cd'[c].at = cd[c].at
    PROVE  ConnectionsOnce'
<1> DEFINE h == Head(connection_pool)
           p == Tail(connection_pool)
<1>1. connection_pool \in Seq(Conns) /\ Injective(connection_pool)
  BY DEF TypeOK, ConnectionsOnce
<1>2. h \in Conns /\ p \in Seq(Conns)
  BY <1>1
<1>3. /\ Injective(p)
      /\ \A n \in DOMAIN p : p[n] # h /\ \E m \in DOMAIN connection_pool : connection_pool[m] = p[n]
      /\ \E m \in DOMAIN connection_pool : connection_pool[m] = h
  BY <1>1, TailOnce
<1> HIDE DEF p, h
<1>4. connection_pool' = Append(p, h)
  BY DEF p, h
<1>5. /\ Injective(connection_pool')
      /\ \A n \in DOMAIN connection_pool' :
           connection_pool'[n] = h \/ (n \in DOMAIN p /\ connection_pool'[n] = p[n])
  <2>1. \A n \in DOMAIN p : p[n] # h
    BY <1>3
  <2>2. /\ Injective(Append(p, h))
        /\ \A n \in DOMAIN Append(p, h) :
             Append(p, h)[n] = h \/ (n \in DOMAIN p /\ Append(p, h)[n] = p[n])
    BY <1>2, <1>3, <2>1, AppendOnce
  <2> QED
    BY <1>4, <2>2
<1>6. \A n \in DOMAIN connection_pool' :
        \E m \in DOMAIN connection_pool : connection_pool[m] = connection_pool'[n]
  BY <1>3, <1>5
<1>7. \A m \in DOMAIN connection_pool : connection_pool[m] \in Conns
  BY <1>1
<1>8. \A u \in Threads : (Waits(u)' <=> Waits(u)) /\ (Waits(u) => td[u].conn \in Conns)
  BY DEF Waits, WorkersOK, WorkerFits
<1> QED
  BY <1>5, <1>6, <1>7, <1>8 DEF ConnectionsOnce

-----------------------------------------------------------------------------
(* Statements and their files. *)
LEMMA QueuesFitMore ==
    ASSUME NEW queues, NEW A, NEW B, A \subseteq B, QueuesFit(queues, A)
    PROVE  QueuesFit(queues, B)
  BY DEF QueuesFit, Fit

LEMMA ConnectionFitsMore ==
    ASSUME NEW r, NEW A, NEW B, A \subseteq B, ConnectionFits(r, A)
    PROVE  ConnectionFits(r, B)
  BY DEF ConnectionFits, Fit

LEMMA QueuesFitPushed ==
    ASSUME NEW f \in [Queues -> Seq(Statement)], NEW g, NEW A, QueuesFit(f, A),
           NEW q \in Queues, NEW st \in Statement, st = Close \/ Fit(st, A),
           g[q] = Append(f[q], st), \A p \in Queues \ {q} : g[p] = f[p]
    PROVE  QueuesFit(g, A)
<1>1. \A n \in DOMAIN g[q] : g[q][n] = st \/ (n \in DOMAIN f[q] /\ g[q][n] = f[q][n])
  BY AppendOnce
<1>2. ASSUME NEW p \in Queues, NEW n \in DOMAIN g[p]
      PROVE  g[p][n] = Close \/ Fit(g[p][n], A)
  BY <1>1, <1>2 DEF QueuesFit
<1> QED
  BY <1>2 DEF QueuesFit

LEMMA QueuesFitTaken ==
    ASSUME NEW f \in [Queues -> Seq(Statement)], NEW g, NEW A, QueuesFit(f, A),
           NEW q \in Queues, f[q] # <<>>, g = [f EXCEPT ![q] = Tail(@)]
    PROVE  QueuesFit(g, A)
<1>1. \A n \in DOMAIN Tail(f[q]) : n + 1 \in DOMAIN f[q] /\ Tail(f[q])[n] = f[q][n + 1]
  OBVIOUS
<1>2. ASSUME NEW p \in Queues, NEW n \in DOMAIN g[p]
      PROVE  g[p][n] = Close \/ Fit(g[p][n], A)
  <2>1. CASE p = q
    <3>1. g[p] = Tail(f[q])
      BY <2>1
    <3> QED
      BY <1>1, <1>2, <3>1 DEF QueuesFit
  <2>2. CASE p # q
    BY <1>2, <2>2 DEF QueuesFit
  <2> QED
    BY <2>1, <2>2
<1> QED
  BY <1>2 DEF QueuesFit

(* A connection that is not at work is put to service or taken off it. *)
LEMMA FitsIdle ==
    ASSUME NEW r, NEW A, r.piece = 0, r.at = "serving" => r.queue \in Queues
    PROVE  ConnectionFits(r, A)
  BY DEF ConnectionFits

(* Nothing new has been done but what may be. *)
LEMMA LoadsKept ==
    ASSUME LoadAfterArrival, arrived \subseteq arrived',
           \A e \in Effects : committed'[e] > 0 \/ (\E c \in Conns : e \in cd'[c].pending) =>
               \/ committed[e] > 0
               \/ \E c \in Conns : e \in cd[c].pending
               \/ KindAt(e) = "LOAD" => <<e[1], e[2]>> \in arrived'
    PROVE  LoadAfterArrival'
  BY DEF LoadAfterArrival, KindAt

-----------------------------------------------------------------------------
(* What is in flight. *)
LEMMA BusyType ==
    ASSUME TypeOK, NEW q
    PROVE  /\ Busy(q) \in Nat
           /\ Busy(q) = 0 <=> \A c \in Conns : ~(cd[c].queue = q /\ cd[c].piece # 0)
<1>1. IsFiniteSet(Conns) /\ cd \in [Conns -> Connection]
  BY SizesAssumption DEF TypeOK
<1>2. /\ Many(Conns, cd, Working(q)) \in Nat
      /\ Many(Conns, cd, Working(q)) = 0 <=> \A c \in Conns : cd[c] \notin Working(q)
  BY <1>1, ManyBound
<1>3. \A c \in Conns : cd[c] \in Working(q) <=> cd[c].queue = q /\ cd[c].piece # 0
  BY <1>1 DEF Working
<1> QED
  BY <1>2, <1>3 DEF Busy

LEMMA BusyKept ==
    ASSUME TypeOK, TypeOK',
           \A c \in Conns : /\ cd'[c].piece = cd[c].piece
                            /\ cd[c].piece # 0 => cd'[c].queue = cd[c].queue
    PROVE  \A q : Busy(q)' = Busy(q)
<1>1. \A c \in Conns : cd[c] \in Connection /\ cd'[c] \in Connection
  BY DEF TypeOK
<1>2. ASSUME NEW q PROVE Many(Conns, cd', Working(q)) = Many(Conns, cd, Working(q))
  <2>1. \A c \in Conns : cd[c] \in Working(q) <=> cd'[c] \in Working(q)
    BY <1>1 DEF Working
  <2> QED
    BY <2>1, ManySame
<1> QED
  BY <1>2 DEF Busy

LEMMA QueuesLen ==
    ASSUME TypeOK, NEW q \in Queues
    PROVE  /\ restore[q] \in Seq(Statement) /\ result[q] \in Seq(Statement)
           /\ Len(restore[q]) \in Nat /\ Len(result[q]) \in Nat /\ Flight(q) \in Nat
<1>1. restore[q] \in Seq(Statement) /\ result[q] \in Seq(Statement)
  BY DEF TypeOK
<1> QED
  BY <1>1, BusyType DEF Flight

(* The worker t that holds the pair q goes on; nobody else's flight changes. *)
LEMMA FlightTurned ==
    ASSUME TypeOK, WorkersOK, QueuesOnce, FlightOK, NEW t \in Threads, NEW r, Turns(t, r),
           Held(t), r.queue = td[t].queue, restore_queues' = restore_queues,
           \A p \in Queues \ {td[t].queue} : Flight(p)' = Flight(p),
           r.at \in Holding => Flight(td[t].queue)' = Due(r)
    PROVE  FlightOK'
<1>1. /\ td'[t] = r /\ \A u \in Threads \ {t} : td'[u] = td[u] /\ (Held(u)' <=> Held(u))
      /\ Held(t)' => r.at \in Holding
  BY DEF Turns, Held
<1>2. \A u \in Threads : Held(u) => td[u].queue \in Queues
  BY DEF WorkersOK, WorkerFits, Held
<1>3. \A n \in DOMAIN restore_queues :
         restore_queues[n] \in Queues \ {td[t].queue}
  BY DEF QueuesOnce, TypeOK
<1>4. ASSUME NEW n \in DOMAIN restore_queues' PROVE Flight(restore_queues[n])' = 0
  <2>1. restore_queues'[n] = restore_queues[n] /\ Flight(restore_queues[n]) = 0
    BY <1>4 DEF FlightOK
  <2> DEFINE p == restore_queues[n]
  <2>2. PICK k \in Queues \ {td[t].queue} : k = restore_queues[n]
    BY <1>3, <1>4
  <2>3. Flight(k)' = 0
    BY <2>1, <2>2
  <2>4. restore_queues'[n] = k
    BY <2>1, <2>2
  <2> QED
    BY <2>3, <2>4
<1>5. ASSUME NEW u \in Threads, Held(u)' PROVE Flight(td[u].queue)' = Due(td[u])'
  <2>1. CASE u = t
    <3>1. PICK k \in Queues : k = td[t].queue
      BY <1>2
    <3>2. td'[u].queue = k /\ td'[u] = r
      BY <1>1, <2>1, <3>1
    <3>3. Flight(k)' = Due(r)
      BY <1>1, <1>5, <2>1, <3>1
    <3>4. Due(td[u])' = Due(r)
      BY <3>2 DEF Due
    <3> QED
      BY <3>2, <3>3, <3>4
  <2>2. CASE u # t
    <3>1. Held(u) /\ td'[u] = td[u]
      BY <1>1, <1>5, <2>2
    <3>2. td[u].queue \in Queues \ {td[t].queue}
      BY <1>2, <2>2, <3>1 DEF QueuesOnce
    <3>3. PICK k \in Queues \ {td[t].queue} : k = td[u].queue
      BY <3>2
    <3>4. Flight(k) = Due(td[u]) /\ Flight(k)' = Flight(k) /\ td'[u].queue = k
      BY <3>1, <3>3 DEF FlightOK
    <3>5. Due(td[u])' = Due(td[u])
      BY <3>1 DEF Due
    <3> QED
      BY <3>4, <3>5
  <2> QED
    BY <2>1, <2>2
<1> QED
  BY <1>4, <1>5 DEF FlightOK

(* Only the pair q changes. *)
Elsewhere(q) ==
    \A p \in Queues \ {q} :
        restore'[p] = restore[p] /\ result'[p] = result[p] /\ Busy(p)' = Busy(p)

LEMMA ElsewhereSame ==
    ASSUME NEW q, Elsewhere(q), NEW p \in Queues \ {q}
    PROVE  Flight(p)' = Flight(p) /\ \A at : Shape(p, at)' <=> Shape(p, at)
  BY DEF Elsewhere, Flight, Shape, Only, Without

LEMMA ClosesTurned ==
    ASSUME WorkersOK, QueuesOnce, ClosesOK, NEW t \in Threads, NEW r, Turns(t, r),
           Held(t), r.queue = td[t].queue, Elsewhere(td[t].queue),
           r.at \in Holding => Shape(td[t].queue, r.at)'
    PROVE  ClosesOK'
<1>1. /\ td'[t] = r /\ \A u \in Threads \ {t} : td'[u] = td[u] /\ (Held(u)' <=> Held(u))
      /\ Held(t)' => r.at \in Holding
  BY DEF Turns, Held
<1>2. \A u \in Threads : Held(u) => td[u].queue \in Queues
  BY DEF WorkersOK, WorkerFits, Held
<1>3. ASSUME NEW u \in Threads, Held(u)' PROVE Shape(td[u].queue, td[u].at)'
  <2>1. CASE u = t
    <3>1. PICK k \in Queues : k = td[t].queue
      BY <1>2
    <3>2. PICK a \in Holding : a = r.at
      BY <1>1, <1>3, <2>1
    <3>3. td'[u].queue = k /\ td'[u].at = a /\ Shape(k, a)'
      BY <1>1, <2>1, <3>1, <3>2 DEF Shape
    <3> QED
      BY <3>3 DEF Shape
  <2>2. CASE u # t
    <3>1. Held(u) /\ td'[u] = td[u]
      BY <1>1, <1>3, <2>2
    <3>2. td[u].queue \in Queues \ {td[t].queue}
      BY <1>2, <2>2, <3>1 DEF QueuesOnce
    <3>3. PICK k \in Queues \ {td[t].queue} : k = td[u].queue
      BY <3>2
    <3>4. PICK a \in Holding : a = td[u].at
      BY <3>1 DEF Held
    <3>5. Shape(k, a)
      BY <3>1, <3>3, <3>4 DEF ClosesOK
    <3>6. Shape(k, a)' /\ td'[u].queue = k /\ td'[u].at = a
      BY <3>1, <3>3, <3>4, <3>5, ElsewhereSame
    <3> QED
      BY <3>6 DEF Shape
  <2> QED
    BY <2>1, <2>2
<1> QED
  BY <1>3 DEF ClosesOK

LEMMA PairsTurned ==
    ASSUME TypeOK, WorkersOK, QueuesOnce, FlightOK, ClosesOK,
           NEW t \in Threads, NEW r, Turns(t, r), Held(t), r.queue = td[t].queue,
           restore_queues' = restore_queues, Elsewhere(td[t].queue),
           r.at \in Holding => Flight(td[t].queue)' = Due(r) /\ Shape(td[t].queue, r.at)'
    PROVE  FlightOK' /\ ClosesOK'
<1>1. \A p \in Queues \ {td[t].queue} : Flight(p)' = Flight(p)
  BY ElsewhereSame
<1>2. FlightOK'
  BY <1>1, FlightTurned
<1>3. ClosesOK'
  BY ClosesTurned
<1> QED
  BY <1>2, <1>3

(* A connection works for the pair q; the workers stay where they are. *)
LEMMA PairsServed ==
    ASSUME TypeOK, WorkersOK, FlightOK, ClosesOK,
           \A u \in Threads : Held(u)' => Held(u) /\ td'[u] = td[u],
           restore_queues' = restore_queues, NEW q \in Queues, Elsewhere(q),
           Flight(q)' = Flight(q),
           \A u \in Threads, a \in Holding :
               Held(u) /\ td[u].queue = q /\ td[u].at = a => Shape(q, a)'
    PROVE  FlightOK' /\ ClosesOK'
<1>1. \A p \in Queues : Flight(p)' = Flight(p)
  BY ElsewhereSame
<1>2. \A u \in Threads : Held(u) => td[u].queue \in Queues
  BY DEF WorkersOK, WorkerFits, Held
<1>3. ASSUME NEW n \in DOMAIN restore_queues' PROVE Flight(restore_queues[n])' = 0
  <2>1. PICK k \in Queues : k = restore_queues[n]
    BY <1>3 DEF TypeOK
  <2>2. Flight(k) = 0 /\ restore_queues'[n] = k
    BY <1>3, <2>1 DEF FlightOK
  <2> QED
    BY <1>1, <2>1, <2>2
<1>4. ASSUME NEW u \in Threads, Held(u)'
      PROVE  Flight(td[u].queue)' = Due(td[u])' /\ Shape(td[u].queue, td[u].at)'
  <2>1. Held(u) /\ td'[u] = td[u]
    BY <1>4
  <2>2. PICK k \in Queues : k = td[u].queue
    BY <1>2, <2>1
  <2>3. PICK a \in Holding : a = td[u].at
    BY <2>1 DEF Held
  <2>4. td'[u].queue = k /\ td'[u].at = a /\ Due(td[u])' = Due(td[u])
    BY <2>1, <2>2, <2>3 DEF Due
  <2>5. Flight(k)' = Flight(k) /\ Flight(k) = Due(td[u]) /\ Shape(k, a)
    BY <1>1, <2>1, <2>2, <2>3 DEF FlightOK, ClosesOK
  <2>6. Shape(k, a)'
    <3>1. CASE k = q
      <4>1. Shape(q, a)'
        BY <2>1, <2>2, <2>3, <3>1
      <4> QED
        BY <3>1, <4>1
    <3>2. CASE k # q
      BY <2>5, <3>2, ElsewhereSame
    <3> QED
      BY <3>1, <3>2
  <2>7. Shape(td[u].queue, td[u].at)'
    BY <2>4, <2>6 DEF Shape
  <2> QED
    BY <2>4, <2>5, <2>7
<1> QED
  BY <1>3, <1>4 DEF FlightOK, ClosesOK

(* Nothing of the pairs changes. *)
LEMMA PairsStill ==
    ASSUME TypeOK, WorkersOK, FlightOK, ClosesOK,
           \A u \in Threads : Held(u)' => Held(u) /\ td'[u] = td[u],
           restore_queues' = restore_queues, restore' = restore, result' = result,
           \A p : Busy(p)' = Busy(p)
    PROVE  FlightOK' /\ ClosesOK'
<1>1. 1 \in Queues
  BY QueuesNumbered, SizesAssumption, FS_EmptySet
<1>2. Elsewhere(1) /\ Flight(1)' = Flight(1)
  BY DEF Elsewhere, Flight
<1>3. ASSUME NEW u \in Threads, NEW a \in Holding, Held(u), td[u].queue = 1, td[u].at = a
      PROVE  Shape(1, a)'
  <2>1. Shape(1, a)
    BY <1>3 DEF ClosesOK
  <2> QED
    BY <2>1 DEF Shape, Only, Without
<1> QED
  BY <1>1, <1>2, <1>3, PairsServed

(* A worker gets the first free pair, and gives its pair back. *)
LEMMA PairsTaken ==
    ASSUME TypeOK, WorkersOK, QueuesOnce, FlightOK, ClosesOK,
           NEW t \in Threads, ~Held(t), NEW r, Turns(t, r), restore_queues # <<>>,
           r.queue = Head(restore_queues), r.at = "read", ~r.results_added,
           restore_queues' = Tail(restore_queues),
           restore' = restore, result' = result, \A p : Busy(p)' = Busy(p)
    PROVE  FlightOK' /\ ClosesOK'
<1> DEFINE h == Head(restore_queues)
<1>1. restore_queues \in Seq(Queues) /\ Injective(restore_queues)
  BY DEF TypeOK, QueuesOnce
<1>2. /\ \A n \in DOMAIN restore_queues' :
            \E m \in DOMAIN restore_queues : restore_queues[m] = restore_queues'[n]
      /\ \E m \in DOMAIN restore_queues : restore_queues[m] = h
  BY <1>1, TailOnce
<1>3. h \in Queues /\ Flight(h) = 0
  BY <1>1, <1>2 DEF FlightOK
<1>4. \A p : Flight(p)' = Flight(p) /\ \A at : Shape(p, at)' <=> Shape(p, at)
  BY DEF Flight, Shape, Only, Without
<1> HIDE DEF h
<1>5. restore[h] = <<>> /\ result[h] = <<>>
  BY <1>3, QueuesLen, BusyType DEF Flight
<1>6. ASSUME NEW n \in DOMAIN restore_queues' PROVE Flight(restore_queues[n])' = 0
  <2>1. PICK m \in DOMAIN restore_queues : restore_queues[m] = restore_queues'[n]
    BY <1>2
  <2>2. PICK k \in Queues : k = restore_queues[m]
    BY <1>1
  <2>3. Flight(k)' = 0 /\ restore_queues'[n] = k
    BY <1>4, <2>1, <2>2 DEF FlightOK
  <2> QED
    BY <2>3
<1>7. ASSUME NEW u \in Threads, Held(u)'
      PROVE  Flight(td[u].queue)' = Due(td[u])' /\ Shape(td[u].queue, td[u].at)'
  <2>1. CASE u = t
    <3>1. td'[u] = r /\ td'[u].queue = h /\ td'[u].at = "read" /\ ~td'[u].results_added
      BY <2>1 DEF Turns, h
    <3>2. Due(td[u])' = 0
      BY <3>1 DEF Due
    <3>5. PICK k \in Queues : k = h
      BY <1>3
    <3>3. Shape(k, "read")
      BY <1>5, <3>5 DEF Shape, Without
    <3>7. Shape(k, "read")'
      BY <1>4, <3>3
    <3>4. Shape(td[u].queue, td[u].at)'
      BY <3>1, <3>5, <3>7 DEF Shape
    <3>6. Flight(k)' = 0 /\ td'[u].queue = k
      BY <1>3, <1>4, <3>1, <3>5
    <3> QED
      BY <3>2, <3>4, <3>6
  <2>2. CASE u # t
    <3>1. td'[u] = td[u] /\ Held(u)
      BY <1>7, <2>2 DEF Turns, Held
    <3>2. PICK k : k = td[u].queue
      OBVIOUS
    <3>3. PICK a : a = td[u].at
      OBVIOUS
    <3>4. Flight(k) = Due(td[u]) /\ Shape(k, a)
      BY <3>1, <3>2, <3>3 DEF FlightOK, ClosesOK
    <3>5. td'[u].queue = k /\ td'[u].at = a /\ Due(td[u])' = Due(td[u])
      BY <3>1, <3>2, <3>3 DEF Due
    <3>6. Flight(k)' = Due(td[u])' /\ Shape(k, a)'
      BY <1>4, <3>4, <3>5
    <3>7. Shape(td[u].queue, td[u].at)'
      BY <3>5, <3>6 DEF Shape
    <3> QED
      BY <3>5, <3>6, <3>7
  <2> QED
    BY <2>1, <2>2
<1> QED
  BY <1>6, <1>7 DEF FlightOK, ClosesOK

LEMMA PairsReturned ==
    ASSUME TypeOK, WorkersOK, QueuesOnce, FlightOK, ClosesOK,
           NEW t \in Threads, Held(t), td[t].at = "drain", td[t].left = 0, Turns(t, Idle),
           restore_queues' = Append(restore_queues, td[t].queue),
           restore' = restore, result' = result, \A p : Busy(p)' = Busy(p)
    PROVE  FlightOK' /\ ClosesOK'
<1>1. restore_queues \in Seq(Queues) /\ td[t].queue \in Queues
  BY DEF TypeOK, WorkersOK, WorkerFits, Held
<1>2. PICK q \in Queues : q = td[t].queue
  BY <1>1
<1>3. Flight(q) = 0
  BY <1>2 DEF FlightOK, Due
<1>4. \A p : Flight(p)' = Flight(p) /\ \A at : Shape(p, at)' <=> Shape(p, at)
  BY DEF Flight, Shape, Only, Without
<1>5. \A n \in DOMAIN restore_queues' :
         \/ restore_queues'[n] = q
         \/ n \in DOMAIN restore_queues /\ restore_queues'[n] = restore_queues[n]
  BY <1>1, <1>2, AppendOnce
<1>6. ASSUME NEW n \in DOMAIN restore_queues' PROVE Flight(restore_queues[n])' = 0
  <2>1. PICK k : k = restore_queues'[n]
    OBVIOUS
  <2>2. Flight(k) = 0
    BY <1>3, <1>5, <2>1 DEF FlightOK
  <2>3. Flight(k)' = 0
    BY <1>4, <2>2
  <2> QED
    BY <2>1, <2>3
<1>7. ASSUME NEW u \in Threads, Held(u)'
      PROVE  Flight(td[u].queue)' = Due(td[u])' /\ Shape(td[u].queue, td[u].at)'
  <2>1. u # t
    BY <1>7 DEF Turns, Held, Idle, Holding
  <2>2. td'[u] = td[u] /\ Held(u)
    BY <1>7, <2>1 DEF Turns, Held
  <2>3. PICK k : k = td[u].queue
    OBVIOUS
  <2>4. PICK a : a = td[u].at
    OBVIOUS
  <2>5. Flight(k) = Due(td[u]) /\ Shape(k, a)
    BY <2>2, <2>3, <2>4 DEF FlightOK, ClosesOK
  <2>6. td'[u].queue = k /\ td'[u].at = a /\ Due(td[u])' = Due(td[u])
    BY <2>2, <2>3, <2>4 DEF Due
  <2>7. Flight(k)' = Due(td[u])' /\ Shape(k, a)'
    BY <1>4, <2>5, <2>6
  <2>8. Shape(td[u].queue, td[u].at)'
    BY <2>6, <2>7 DEF Shape
  <2> QED
    BY <2>6, <2>7, <2>8
<1> QED
  BY <1>6, <1>7 DEF FlightOK, ClosesOK

LEMMA OnlyWithout ==
    ASSUME NEW T, NEW q \in Seq(T), NEW c
    PROVE  /\ \A x \in T : /\ Without(c, q) /\ x # c => Without(c, Append(q, x))
                           /\ Only(c, q) => Only(x, Append(q, x)) \/ x # c
           /\ q # <<>> => /\ Without(c, q) => Without(c, Tail(q)) /\ Head(q) # c
                          /\ Only(c, q) => Only(c, Tail(q)) /\ Head(q) = c
<1>1. ASSUME NEW x \in T
      PROVE  \A n \in DOMAIN Append(q, x) :
                Append(q, x)[n] = x \/ (n \in DOMAIN q /\ Append(q, x)[n] = q[n])
  BY AppendOnce
<1>2. ASSUME q # <<>>
      PROVE  /\ \A n \in DOMAIN Tail(q) : n + 1 \in DOMAIN q /\ Tail(q)[n] = q[n + 1]
             /\ 1 \in DOMAIN q /\ Head(q) = q[1]
  BY <1>2
<1>3. ASSUME NEW x \in T
      PROVE  /\ Without(c, q) /\ x # c => Without(c, Append(q, x))
             /\ Only(c, q) => Only(x, Append(q, x)) \/ x # c
  BY <1>1 DEF Only, Without
<1>4. q # <<>> => /\ Without(c, q) => Without(c, Tail(q)) /\ Head(q) # c
                  /\ Only(c, q) => Only(c, Tail(q)) /\ Head(q) = c
  BY <1>2 DEF Only, Without
<1> QED
  BY <1>3, <1>4

LEMMA DueType ==
    ASSUME NEW r \in Worker
    PROVE  Due(r) \in Nat
  BY SizesAssumption DEF Due, Worker

(* A worker pushes a statement; blank results are added by ReadInsert. *)
Sends(t, r, st) ==
    /\ Turns(t, r) /\ Held(t) /\ r.queue = td[t].queue /\ td[t].at # "close"
    /\ r.at = IF st = Close THEN "close" ELSE "result"
    /\ st \in Statement /\ Push(t, st)
    /\ st = Close => Due(td[t]) = 0
    /\ \/ result'[td[t].queue] = result[td[t].queue]
       \/ st # Close /\ Without(Close, result'[td[t].queue])
    /\ \A p \in Queues \ {td[t].queue} : result'[p] = result[p]
    /\ Len(result'[td[t].queue]) \in Nat
    /\ Due(r) + Len(result[td[t].queue]) = Due(td[t]) + Len(result'[td[t].queue]) + 1

LEMMA PairsPushed ==
    ASSUME TypeOK, TypeOK', WorkersOK, QueuesOnce, FlightOK, ClosesOK,
           NEW t \in Threads, NEW r, NEW st, Sends(t, r, st),
           restore_queues' = restore_queues, \A p : Busy(p)' = Busy(p)
    PROVE  FlightOK' /\ ClosesOK'
<1> USE DEF Sends
<1>1. PICK q \in Queues : q = td[t].queue
  BY DEF WorkersOK, WorkerFits, Held
<1>2. /\ restore'[q] = Append(restore[q], st)
      /\ \A p \in Queues \ {q} : restore'[p] = restore[p]
  BY <1>1, PushType
<1>3. /\ restore[q] \in Seq(Statement) /\ result[q] \in Seq(Statement)
      /\ Len(restore[q]) \in Nat /\ Len(result[q]) \in Nat /\ Busy(q) \in Nat
  BY QueuesLen, BusyType
<1>4. Elsewhere(q)
  BY <1>1, <1>2 DEF Elsewhere
<1>5. Len(restore'[q]) = Len(restore[q]) + 1
  BY <1>2, <1>3
<1>6. Flight(q) = Due(td[t])
  BY <1>1 DEF FlightOK
<1>7. Flight(q)' = Due(r)
  <2>1. Flight(q)' = Len(restore'[q]) + Busy(q) + Len(result'[q])
    BY DEF Flight
  <2>2. Flight(q)' + Len(result[q]) = Flight(q) + Len(result'[q]) + 1
    <3>1. Len(result'[q]) \in Nat
      BY <1>1
    <3> QED
      BY <1>3, <1>5, <2>1, <3>1 DEF Flight
  <2>3. Due(r) + Len(result[q]) = Flight(q) + Len(result'[q]) + 1
    BY <1>1, <1>6
  <2>4. Due(r) \in Nat /\ Len(result[q]) \in Nat
    BY <1>3, DueType DEF Turns
  <2>5. Flight(q)' \in Nat
    <3>1. Len(result'[q]) \in Nat
      BY <1>1
    <3> QED
      BY <1>3, <1>5, <2>1, <3>1
  <2> QED
    BY <2>2, <2>3, <2>4, <2>5
<1>8. Without(Close, restore[q]) /\ Without(Close, result[q])
  BY <1>1 DEF ClosesOK, Shape
<1>9. CASE st = Close
  <2>1. restore[q] = <<>> /\ result[q] = <<>> /\ Busy(q) = 0
    BY <1>3, <1>6, <1>9 DEF Flight
  <2>2. restore'[q] = Append(<<>>, Close)
    BY <1>2, <1>9, <2>1
  <2>3. <<>> \in Seq(Statement)
    OBVIOUS
  <2>4. Only(Close, <<>>)
    BY DEF Only
  <2>5. Only(Close, restore'[q])
    BY <1>9, <2>2, <2>3, <2>4, OnlyWithout
  <2>6. result'[q] = <<>> /\ Busy(q)' = 0
    BY <1>1, <1>9, <2>1
  <2>7. Only(Close, result'[q])
    BY <2>6 DEF Only
  <2>8. Shape(q, "close")'
    BY <2>5, <2>6, <2>7 DEF Shape, Only
  <2>9. PICK a \in Holding : a = r.at
    BY <1>9 DEF Holding
  <2>10. Shape(q, a)'
    BY <1>9, <2>8, <2>9
  <2>11. Flight(td[t].queue)' = Due(r) /\ Shape(td[t].queue, r.at)'
    <3>1. td'[t].queue = q
      BY <1>1 DEF Turns
    <3> QED
      BY <1>7, <2>9, <2>10, <3>1 DEF Turns
  <2> QED
    BY <1>1, <1>4, <2>11, PairsTurned
<1>10. CASE st # Close
  <2>1. Without(Close, restore'[q])
    BY <1>2, <1>3, <1>8, <1>10, OnlyWithout
  <2>2. Without(Close, result'[q])
    BY <1>1, <1>8
  <2>3. Shape(q, "result")'
    BY <2>1, <2>2 DEF Shape, Without
  <2>4. PICK a \in Holding : a = r.at
    BY <1>10 DEF Holding
  <2>5. Shape(q, a)'
    BY <1>10, <2>3, <2>4
  <2>6. Flight(td[t].queue)' = Due(r) /\ Shape(td[t].queue, r.at)'
    <3>1. td'[t].queue = q
      BY <1>1 DEF Turns
    <3> QED
      BY <1>7, <2>4, <2>5, <3>1 DEF Turns
  <2> QED
    BY <1>1, <1>4, <2>6, PairsTurned
<1> QED
  BY <1>9, <1>10

(* A worker takes an answer. *)
LEMMA PairsPopped ==
    ASSUME TypeOK, TypeOK', WorkersOK, QueuesOnce, FlightOK, ClosesOK,
           NEW t \in Threads, NEW r, Turns(t, r), Held(t), r.queue = td[t].queue,
           r.at \in Holding \ {"close"}, restore_queues' = restore_queues,
           result[td[t].queue] # <<>>, result' = [result EXCEPT ![td[t].queue] = Tail(@)],
           restore' = restore, Due(r) = Due(td[t]) - 1, \A p : Busy(p)' = Busy(p)
    PROVE  FlightOK' /\ ClosesOK'
<1>1. PICK q \in Queues : q = td[t].queue
  BY DEF WorkersOK, WorkerFits, Held
<1>2. result'[q] = Tail(result[q]) /\ \A p \in Queues \ {q} : result'[p] = result[p]
  BY <1>1, PopType
<1>3. /\ restore[q] \in Seq(Statement) /\ result[q] \in Seq(Statement)
      /\ Len(restore[q]) \in Nat /\ Len(result[q]) \in Nat /\ Busy(q) \in Nat
  BY QueuesLen, BusyType
<1>4. Elsewhere(q)
  BY <1>2 DEF Elsewhere
<1>5. Len(result'[q]) = Len(result[q]) - 1 /\ Len(result[q]) >= 1
  <2>1. result[q] # <<>>
    BY <1>1
  <2> DEFINE x == result[q]
  <2>2. x \in Seq(Statement) /\ x # <<>>
    BY <1>3, <2>1
  <2> HIDE DEF x
  <2>3. Len(Tail(x)) = Len(x) - 1 /\ Len(x) >= 1
    BY <2>2
  <2> QED
    BY <1>2, <2>3 DEF x
<1>12. Flight(q) = Len(restore[q]) + Busy(q) + Len(result[q])
  BY DEF Flight
<1>6. Flight(q) = Due(td[t])
  BY <1>1 DEF FlightOK
<1>7. Flight(q)' = Due(r)
  <2>1. Flight(q)' = Len(restore[q]) + Busy(q) + Len(result'[q])
    BY DEF Flight
  <2>2. Flight(q)' = Flight(q) - 1
    BY <1>3, <1>5, <1>12, <2>1
  <2> QED
    BY <1>6, <2>2
<1>8. PICK a \in Holding \ {"close"} : a = r.at
  OBVIOUS
<1>9. Without(Close, restore[q]) /\ Without(Close, result'[q])
  <2>1. CASE td[t].at = "close"
    <3>1. Due(td[t]) = 1
      BY <2>1 DEF Due
    <3>2. restore[q] = <<>> /\ result'[q] = <<>>
      <4>4. Len(restore[q]) + Busy(q) + Len(result[q]) = 1
        BY <1>6, <1>12, <3>1
      <4>5. Len(restore[q]) = 0 /\ Len(result[q]) = 1
        <5>1. \A x, y, z \in Nat : x + y + z = 1 /\ z >= 1 => x = 0 /\ z = 1
          OBVIOUS
        <5>2. Len(restore[q]) \in Nat /\ Busy(q) \in Nat /\ Len(result[q]) \in Nat
          BY <1>3
        <5>3. Len(result[q]) >= 1
          BY <1>5
        <5> QED
          BY <4>4, <5>1, <5>2, <5>3
      <4>1. Len(restore[q]) = 0 /\ Len(result'[q]) = 0
        BY <1>5, <4>5
      <4>2. result'[q] \in Seq(Statement)
        BY DEF TypeOK
      <4>3. \A x \in Seq(Statement) : Len(x) = 0 => x = <<>>
        OBVIOUS
      <4> QED
        BY <1>3, <4>1, <4>2, <4>3
    <3> QED
      BY <3>2 DEF Without
  <2>2. CASE td[t].at # "close"
    <3>1. Without(Close, restore[q]) /\ Without(Close, result[q])
      BY <1>1, <2>2 DEF ClosesOK, Shape
    <3> QED
      BY <1>1, <1>2, <1>3, <3>1, OnlyWithout
  <2> QED
    BY <2>1, <2>2
<1>10. Shape(q, a)'
  BY <1>8, <1>9 DEF Shape, Without
<1>11. Flight(td[t].queue)' = Due(r) /\ Shape(td[t].queue, r.at)'
  <2>1. td'[t].queue = q
    BY <1>1 DEF Turns
  <2> QED
    BY <1>7, <1>8, <1>10, <2>1 DEF Turns
<1> QED
  BY <1>1, <1>4, <1>11, PairsTurned

-----------------------------------------------------------------------------
(* The steps of a worker. *)
LEMMA WorkersTurned ==
    ASSUME WorkersOK, NEW t \in Threads, NEW r, Turns(t, r), WorkerFits(r)
    PROVE  WorkersOK'
<1>1. ASSUME NEW u \in Threads PROVE WorkerFits(td'[u])
  BY DEF Turns, WorkersOK
<1> QED
  BY <1>1 DEF WorkersOK

(* Nothing a worker does without cd, sync, arrived and committed matters to *)
(* what was executed.                                                      *)
LEMMA ServerKept ==
    ASSUME ArrivalsOK, LoadAfterArrival, cd' = cd, sync' = sync, arrived' = arrived,
           committed' = committed
    PROVE  ArrivalsOK' /\ LoadAfterArrival'
<1>1. LoadAfterArrival'
  BY LoadsKept
<1> QED
  BY <1>1 DEF ArrivalsOK

LEMMA BusySame ==
    ASSUME cd' = cd
    PROVE  \A p : Busy(p)' = Busy(p)
  BY DEF Busy

LEMMA NoWaitTurned ==
    ASSUME NEW t \in Threads, NEW r, Turns(t, r), r.at # "queue"
    PROVE  \A u \in Threads : Waits(u)' => Waits(u) /\ td'[u].conn = td[u].conn
  BY DEF Turns, Waits

LEMMA TakeJobOK ==
    ASSUME IInv, NEW t \in Threads, NEW j \in Jobs, TakeJob(t, j)
    PROVE  IInv'
<1> DEFINE r == [Idle EXCEPT !.at = "queue", !.job = j, !.conn = Head(connection_pool)]
<1> USE DEF IInv
<1>1. /\ TypeOK' /\ Turns(t, r) /\ connection_pool # <<>> /\ Head(connection_pool) \in Conns
  BY TakeJobStep
<1>2. /\ connection_pool' = Tail(connection_pool) /\ restore_queues' = restore_queues
      /\ restore' = restore /\ result' = result /\ cd' = cd /\ sync' = sync
      /\ arrived' = arrived /\ committed' = committed /\ td[t].at = "free"
  BY Zenon DEF TakeJob
<1>3. /\ r.at = "queue" /\ r.job = j /\ r.conn = Head(connection_pool) /\ r.i = 1
      /\ ~r.results_added
  BY DEF Idle
<1> HIDE DEF r
<1>4. WorkersOK'
  <2>1. WorkerFits(r)
    BY <1>1, <1>3 DEF WorkerFits, Holding, Reading
  <2> QED
    BY <1>1, <2>1, WorkersTurned
<1>5. \A u \in Threads : Held(u)' => Held(u) /\ td'[u] = td[u]
  BY <1>1, <1>3 DEF Turns, Held, Holding
<1>6. QueuesOnce'
  BY <1>2, <1>5 DEF QueuesOnce
<1>7. ConnectionsOnce'
  BY <1>1, <1>2, <1>3, ConnectionTaken
<1>8. StatementsOK'
  BY <1>2 DEF StatementsOK, QueuesFit, ConnectionFits
<1>9. ArrivalsOK' /\ LoadAfterArrival'
  BY <1>2, ServerKept
<1>10. FlightOK' /\ ClosesOK'
  BY <1>2, <1>5, BusySame, PairsStill
<1> QED
  BY <1>1, <1>4, <1>6, <1>7, <1>8, <1>9, <1>10

(* A connection is put to service. *)
LEMMA SetupKept ==
    ASSUME IInv, TypeOK', NEW c \in Conns, cd[c].at = "pool", NEW q \in Queues, NEW j \in Jobs,
           Setup(c, q, j), arrived' = arrived
    PROVE  /\ \A p : Busy(p)' = Busy(p)
           /\ \A d \in Conns : ConnectionFits(cd'[d], arrived')
           /\ LoadAfterArrival'
           /\ \A d \in Conns \ {c} : cd'[d] = cd[d]
<1> USE DEF IInv
<1>1. cd[c].piece = 0
  BY DEF StatementsOK, ConnectionFits
<1>2. /\ \A d \in Conns \ {c} : cd'[d] = cd[d]
      /\ cd'[c].at = "serving" /\ cd'[c].queue = q /\ cd'[c].piece = cd[c].piece
      /\ cd'[c].pending \subseteq cd[c].pending
      /\ \A e \in Effects : committed'[e] > 0 => committed[e] > 0 \/ e \in cd[c].pending
  BY SetupStep
<1>3. \A p : Busy(p)' = Busy(p)
  <2>1. \A d \in Conns : cd'[d].piece = cd[d].piece /\ (cd[d].piece # 0 => cd'[d].queue = cd[d].queue)
    BY <1>1, <1>2
  <2> QED
    BY <2>1, BusyKept
<1>4. ConnectionFits(cd'[c], arrived')
  BY <1>1, <1>2, FitsIdle
<1>5. \A d \in Conns \ {c} : ConnectionFits(cd'[d], arrived')
  BY <1>2 DEF StatementsOK
<1>6. LoadAfterArrival'
  <2>1. \A e \in Effects : committed'[e] > 0 \/ (\E d \in Conns : e \in cd'[d].pending) =>
            committed[e] > 0 \/ \E d \in Conns : e \in cd[d].pending
    BY <1>2
  <2> QED
    BY <2>1, LoadsKept
<1> QED
  BY <1>2, <1>3, <1>4, <1>5, <1>6

LEMMA PopQueueOK ==
    ASSUME IInv, NEW t \in Threads, PopQueue(t)
    PROVE  IInv'
<1> DEFINE r == [td[t] EXCEPT !.at = "read", !.queue = Head(restore_queues), !.granted = 1]
           c == td[t].conn
<1> USE DEF IInv
<1>1. /\ TypeOK' /\ Turns(t, r) /\ restore_queues # <<>> /\ Head(restore_queues) \in Queues
      /\ c \in Conns /\ td[t].job \in Jobs /\ Setup(c, Head(restore_queues), td[t].job)
  BY PopQueueStep
<1>2. /\ connection_pool' = connection_pool /\ restore_queues' = Tail(restore_queues)
      /\ restore' = restore /\ result' = result /\ sync' = sync
      /\ arrived' = arrived /\ td[t].at = "queue"
  BY Zenon DEF PopQueue
<1>3. /\ r.at = "read" /\ r.job = td[t].job /\ r.i = td[t].i /\ r.queue = Head(restore_queues)
      /\ r.results_added = td[t].results_added
  <2>1. td[t] \in Worker
    BY DEF TypeOK
  <2> QED
    BY <2>1 DEF Worker
<1> HIDE DEF r
<1>4. td[t].i = 1 /\ ~td[t].results_added /\ cd[c].at = "pool" /\ Waits(t) /\ ~Held(t)
  BY <1>2 DEF WorkersOK, WorkerFits, ConnectionsOnce, Waits, Held, Holding
<1>5. WorkersOK'
  <2>1. <<td[t].job, 1>> \in Places
    <3>1. ScriptOf[td[t].job] \in Seq({"SET", "DDL", "DELETE", "COMMIT", "INSERT", "LOAD"})
          /\ ScriptOf[td[t].job] # <<>>
      BY <1>1, JobsAssumption
    <3>2. 1 \in DOMAIN ScriptOf[td[t].job]
      BY <3>1
    <3> QED
      BY <1>1, <3>2, PlacesType
  <2>2. WorkerFits(r)
    BY <1>1, <1>3, <1>4, <2>1 DEF WorkerFits, Holding, Reading
  <2> QED
    BY <1>1, <2>2, WorkersTurned
<1>6. Setup(c, Head(restore_queues), td[t].job) /\ cd[c].at = "pool" /\ arrived' = arrived
  BY <1>1, <1>2, <1>4
<1>7. /\ \A p : Busy(p)' = Busy(p)
      /\ \A d \in Conns : ConnectionFits(cd'[d], arrived')
      /\ LoadAfterArrival'
      /\ \A d \in Conns \ {c} : cd'[d] = cd[d]
  BY <1>1, <1>6, SetupKept
<1>8. QueuesOnce'
  BY <1>1, <1>2, <1>3, QueuesTaken
<1>9. ConnectionsOnce'
  BY <1>1, <1>2, <1>3, <1>4, <1>7, ConnectionUsed
<1>11. StatementsOK'
  BY <1>2, <1>7 DEF StatementsOK
<1>13. ArrivalsOK'
  BY <1>2 DEF ArrivalsOK
<1>14. FlightOK' /\ ClosesOK'
  BY <1>1, <1>2, <1>3, <1>4, <1>7, PairsTaken
<1> QED
  BY <1>1, <1>5, <1>7, <1>8, <1>9, <1>11, <1>13, <1>14

(* ReadOther, PushLoadData and PushClose. *)
LEMMA SendsPlain ==
    ASSUME TypeOK, NEW t \in Threads, NEW r, Turns(t, r), td[t].at \in Holding \ {"close"},
           td[t].queue \in Queues, r.queue = td[t].queue,
           NEW st \in Statement, Push(t, st), result' = result,
           r.at = IF st = Close THEN "close" ELSE "result",
           st = Close => Due(td[t]) = 0, Due(r) = Due(td[t]) + 1
    PROVE  Sends(t, r, st)
<1>1. Len(result[td[t].queue]) \in Nat
  BY QueuesLen
<1>2. Due(td[t]) \in Nat
  BY DueType DEF TypeOK
<1>3. Due(r) + Len(result[td[t].queue]) = Due(td[t]) + Len(result'[td[t].queue]) + 1
  BY <1>1, <1>2
<1>4. /\ Held(t) /\ td[t].at # "close" /\ \A p \in Queues \ {td[t].queue} : result'[p] = result[p]
      /\ Len(result'[td[t].queue]) \in Nat /\ result'[td[t].queue] = result[td[t].queue]
  BY <1>1 DEF Held
<1> QED
  BY <1>3, <1>4, Zenon DEF Sends

LEMMA PushedOK ==
    ASSUME IInv, TypeOK', NEW t \in Threads, NEW r, WorkerFits(r), NEW st, Sends(t, r, st),
           st = Close \/ Fit(st, arrived),
           UNCHANGED <<connection_pool, restore_queues, cd, sync, arrived, committed>>
    PROVE  IInv'
<1> USE DEF IInv
<1>0. /\ Turns(t, r) /\ Held(t) /\ r.queue = td[t].queue /\ st \in Statement /\ Push(t, st)
      /\ r.at = IF st = Close THEN "close" ELSE "result"
  BY DEF Sends
<1>1. WorkersOK'
  BY <1>0, WorkersTurned
<1>2. r.at \in Holding /\ r.at # "queue" /\ td[t].at \in Holding
  BY <1>0 DEF Holding, Held
<1>3. QueuesOnce'
  BY <1>0, <1>2, QueuesKept
<1>4. ConnectionsOnce'
  <2>1. \A u \in Threads : Waits(u)' => Waits(u) /\ td'[u].conn = td[u].conn
    BY <1>0, <1>2, NoWaitTurned
  <2> QED
    BY <2>1, ConnectionsKept
<1>5. td[t].queue \in Queues
  BY <1>2 DEF WorkersOK, WorkerFits
<1>6. StatementsOK'
  <2>1. /\ restore'[td[t].queue] = Append(restore[td[t].queue], st)
        /\ \A q \in Queues \ {td[t].queue} : restore'[q] = restore[q]
    BY <1>0, <1>5, PushType
  <2>2. restore \in [Queues -> Seq(Statement)] /\ QueuesFit(restore, arrived)
    BY DEF TypeOK, StatementsOK
  <2>4. st \in Statement /\ (st = Close \/ Fit(st, arrived))
    BY <1>0
  <2>3. QueuesFit(restore', arrived)
    BY <1>5, <2>1, <2>2, <2>4, QueuesFitPushed
  <2> QED
    BY <2>3 DEF StatementsOK
<1>7. ArrivalsOK' /\ LoadAfterArrival'
  BY ServerKept
<1>8. FlightOK' /\ ClosesOK'
  BY BusySame, PairsPushed
<1> QED
  BY <1>1, <1>3, <1>4, <1>6, <1>7, <1>8

LEMMA CurrentFields ==
    ASSUME NEW t, NEW k \in {"INSERT", "OTHER"}
    PROVE  /\ Current(t, k).kind = k /\ Current(t, k).place = Place(t)
           /\ Current(t, k) # Close
  BY DEF Current, Close

LEMMA ReadOtherOK ==
    ASSUME IInv, NEW t \in Threads, ReadOther(t)
    PROVE  IInv'
<1> DEFINE r == [td[t] EXCEPT !.at = "result"]
           st == Current(t, "OTHER")
<1> USE DEF IInv
<1>1. /\ TypeOK' /\ Turns(t, r)
      /\ td[t].at = "read" /\ td[t].queue \in Queues /\ st \in Statement
      /\ Push(t, st) /\ KindAt(Place(t)) # "LOAD"
  BY ReadOtherStep
<1>2. UNCHANGED <<connection_pool, restore_queues, result, cd, sync, arrived, committed>>
  BY Zenon DEF ReadOther, serverVars
<1>3. /\ r.at = "result" /\ r.queue = td[t].queue /\ r.job = td[t].job /\ r.i = td[t].i
      /\ r.results_added = td[t].results_added
  <2>1. td[t] \in Worker
    BY DEF TypeOK
  <2> QED
    BY <2>1 DEF Worker
<1>4. st.kind = "OTHER" /\ st.place = Place(t) /\ st # Close
  BY CurrentFields
<1> HIDE DEF r, st
<1>5. WorkerFits(td[t]) /\ Place(t) \in Places
  BY <1>1 DEF WorkersOK, WorkerFits, Reading, Place
<1>6. WorkerFits(r)
  BY <1>1, <1>3, <1>5 DEF WorkerFits, Holding, Reading
<1>7. Fit(st, arrived)
  BY <1>1, <1>4, <1>5 DEF Fit
<1>8. Due(r) = Due(td[t]) + 1
  BY <1>1, <1>3, SizesAssumption DEF Due
<1>9. Sends(t, r, st)
  BY <1>1, <1>2, <1>3, <1>4, <1>8, SendsPlain DEF Holding
<1> QED
  BY <1>1, <1>2, <1>6, <1>7, <1>9, PushedOK

LEMMA PushLoadDataOK ==
    ASSUME IInv, NEW t \in Threads, PushLoadData(t)
    PROVE  IInv'
<1> DEFINE r == [td[t] EXCEPT !.at = "result"]
           st == Current(t, "OTHER")
<1> USE DEF IInv
<1>1. /\ TypeOK' /\ Turns(t, r)
      /\ td[t].at = "load" /\ td[t].queue \in Queues /\ Place(t) \in Loads
      /\ sync[Place(t)] = "ready" /\ st \in Statement /\ Push(t, st)
  BY PushLoadDataStep
<1>2. UNCHANGED <<connection_pool, restore_queues, result, cd, sync, arrived, committed>>
  BY Zenon DEF PushLoadData, serverVars
<1>3. /\ r.at = "result" /\ r.queue = td[t].queue /\ r.job = td[t].job /\ r.i = td[t].i
      /\ r.results_added = td[t].results_added
  <2>1. td[t] \in Worker
    BY DEF TypeOK
  <2> QED
    BY <2>1 DEF Worker
<1>4. st.kind = "OTHER" /\ st.place = Place(t) /\ st # Close
  BY CurrentFields
<1> HIDE DEF r, st
<1>5. WorkerFits(td[t]) /\ Place(t) \in Places
  BY <1>1 DEF WorkersOK, WorkerFits, Reading, Place
<1>6. WorkerFits(r)
  BY <1>1, <1>3, <1>5 DEF WorkerFits, Holding, Reading
<1>7. Fit(st, arrived)
  BY <1>1, <1>4, <1>5 DEF Fit, ArrivalsOK
<1>8. Due(r) = Due(td[t]) + 1
  BY <1>1, <1>3, SizesAssumption DEF Due
<1>9. Sends(t, r, st)
  BY <1>1, <1>2, <1>3, <1>4, <1>8, SendsPlain DEF Holding
<1> QED
  BY <1>1, <1>2, <1>6, <1>7, <1>9, PushedOK

LEMMA PushCloseOK ==
    ASSUME IInv, NEW t \in Threads, PushClose(t)
    PROVE  IInv'
<1> DEFINE r == [td[t] EXCEPT !.at = "close"]
<1> USE DEF IInv
<1>1. /\ TypeOK' /\ Turns(t, r)
      /\ td[t].at = "drain" /\ td[t].left = 0 /\ td[t].granted > 0
      /\ td[t].queue \in Queues /\ Push(t, Close)
  BY PushCloseStep
<1>2. UNCHANGED <<connection_pool, restore_queues, result, cd, sync, arrived, committed>>
  BY Zenon DEF PushClose, serverVars
<1>3. /\ r.at = "close" /\ r.queue = td[t].queue /\ r.job = td[t].job
      /\ r.left = td[t].left /\ r.granted = td[t].granted
  <2>1. td[t] \in Worker
    BY DEF TypeOK
  <2> QED
    BY <2>1 DEF Worker
<1> HIDE DEF r
<1>4. WorkerFits(td[t]) /\ Close \in Statement
  BY StatementRecords DEF WorkersOK
<1>5. WorkerFits(r)
  BY <1>1, <1>3, <1>4 DEF WorkerFits, Holding, Reading
<1>6. Due(td[t]) = 0 /\ Due(r) = 1
  BY <1>1, <1>3 DEF Due
<1>7. Sends(t, r, Close)
  BY <1>1, <1>2, <1>3, <1>4, <1>6, SendsPlain DEF Holding
<1> QED
  BY <1>1, <1>2, <1>5, <1>7, PushedOK

(* Locate: the worker waits, and sends nothing. *)
LEMMA LocateOK ==
    ASSUME IInv, NEW t \in Threads, Locate(t)
    PROVE  IInv'
<1> DEFINE r == [td[t] EXCEPT !.at = "load"]
<1> USE DEF IInv
<1>1. /\ TypeOK' /\ Turns(t, r) /\ td[t].at = "read" /\ KindAt(Place(t)) = "LOAD"
      /\ \A l \in Loads : sync'[l] = "ready" => sync[l] = "ready"
  BY LocateStep
<1>2. UNCHANGED <<connection_pool, restore_queues, restore, result, cd, arrived, committed>>
  BY Zenon DEF Locate, serverVars
<1>3. /\ r.at = "load" /\ r.queue = td[t].queue /\ r.job = td[t].job /\ r.i = td[t].i
      /\ r.results_added = td[t].results_added
  <2>1. td[t] \in Worker
    BY DEF TypeOK
  <2> QED
    BY <2>1 DEF Worker
<1> HIDE DEF r
<1>4. WorkerFits(td[t]) /\ <<td[t].job, td[t].i>> \in Places /\ td[t].queue \in Queues
  BY <1>1 DEF WorkersOK, WorkerFits, Reading, Holding
<1>5. WorkersOK'
  <2>1. WorkerFits(r)
    BY <1>1, <1>3, <1>4 DEF WorkerFits, Holding, Reading, Place
  <2> QED
    BY <1>1, <2>1, WorkersTurned
<1>6. Held(t) /\ r.at \in Holding /\ r.at # "queue"
  BY <1>1, <1>3 DEF Held, Holding
<1>7. QueuesOnce'
  BY <1>1, <1>2, <1>3, <1>6, QueuesKept DEF Held
<1>8. ConnectionsOnce'
  <2>1. \A u \in Threads : Waits(u)' => Waits(u) /\ td'[u].conn = td[u].conn
    BY <1>1, <1>6, NoWaitTurned
  <2> QED
    BY <1>2, <2>1, ConnectionsKept
<1>9. StatementsOK'
  BY <1>2 DEF StatementsOK
<1>10. ArrivalsOK'
  BY <1>1, <1>2 DEF ArrivalsOK
<1>11. LoadAfterArrival'
  BY <1>2, LoadsKept
<1>12. FlightOK' /\ ClosesOK'
  <2>1. PICK q \in Queues : q = td[t].queue
    BY <1>4
  <2>2. Elsewhere(q)
    BY <1>2, BusySame DEF Elsewhere
  <2>3. Due(r) = Due(td[t])
    BY <1>1, <1>3 DEF Due
  <2>4. Flight(q) = Due(td[t]) /\ Shape(q, "read")
    BY <1>1, <1>6, <2>1 DEF FlightOK, ClosesOK
  <2>5. Flight(q)' = Due(r) /\ Shape(q, "load")'
    BY <1>2, <2>3, <2>4, BusySame DEF Flight, Shape, Only, Without
  <2>6. td'[t].queue = q /\ td'[t].at = "load"
    BY <1>1, <1>3, <2>1 DEF Turns
  <2>7. PICK w : w = r
    OBVIOUS
  <2>8. Turns(t, w) /\ w.queue = td[t].queue /\ w.at = "load" /\ Flight(q)' = Due(w)
    BY <1>1, <1>3, <2>5, <2>7
  <2>9. Flight(td[t].queue)' = Due(w) /\ Shape(td[t].queue, w.at)'
    BY <2>5, <2>6, <2>8
  <2> QED
    BY <1>2, <1>6, <2>1, <2>2, <2>8, <2>9, PairsTurned
<1> QED
  BY <1>1, <1>5, <1>7, <1>8, <1>9, <1>10, <1>11, <1>12

(* PopResult, Drain and PopClose. *)
LEMMA PoppedOK ==
    ASSUME IInv, TypeOK', NEW t \in Threads, NEW r, Turns(t, r), WorkerFits(r),
           td[t].at \in Holding, r.queue = td[t].queue, r.at \in Holding \ {"close"},
           result[td[t].queue] # <<>>, result' = [result EXCEPT ![td[t].queue] = Tail(@)],
           Due(r) = Due(td[t]) - 1,
           UNCHANGED <<connection_pool, restore_queues, restore, cd, sync, arrived, committed>>
    PROVE  IInv'
<1> USE DEF IInv
<1>1. Held(t) /\ r.at \in Holding /\ r.at # "queue"
  BY DEF Held, Holding
<1>2. WorkersOK'
  BY WorkersTurned
<1>3. QueuesOnce'
  BY QueuesKept
<1>4. ConnectionsOnce'
  <2>1. \A u \in Threads : Waits(u)' => Waits(u) /\ td'[u].conn = td[u].conn
    BY <1>1, NoWaitTurned
  <2> QED
    BY <2>1, ConnectionsKept
<1>5. StatementsOK'
  BY DEF StatementsOK
<1>6. ArrivalsOK' /\ LoadAfterArrival'
  BY ServerKept
<1>7. FlightOK' /\ ClosesOK'
  BY <1>1, BusySame, PairsPopped
<1> QED
  BY <1>2, <1>3, <1>4, <1>5, <1>6, <1>7

LEMMA PopResultOK ==
    ASSUME IInv, NEW t \in Threads, PopResult(t)
    PROVE  IInv'
<1> DEFINE r == AfterResult(t)
<1> USE DEF IInv
<1>1. /\ TypeOK' /\ Turns(t, r)
      /\ td[t].at = "result" /\ td[t].queue \in Queues /\ result[td[t].queue] # <<>>
      /\ result' = [result EXCEPT ![td[t].queue] = Tail(@)]
      /\ ~LastRead(t) => <<td[t].job, td[t].i + 1>> \in Places
      /\ InFlight(t) \in Nat
  BY PopResultStep
<1>2. UNCHANGED <<connection_pool, restore_queues, restore, cd, sync, arrived, committed>>
  BY Zenon DEF PopResult
<1>3. /\ r.at = IF LastRead(t) THEN "drain" ELSE "read"
      /\ r.queue = td[t].queue /\ r.job = td[t].job /\ r.i = td[t].i + 1
      /\ r.left = IF LastRead(t) THEN InFlight(t) ELSE 0
      /\ r.results_added = td[t].results_added
  <2>1. td[t] \in Worker
    BY DEF TypeOK
  <2> QED
    BY <2>1 DEF Worker, AfterResult
<1> HIDE DEF r
<1>4. WorkerFits(td[t])
  BY DEF WorkersOK
<1>5. WorkerFits(r)
  BY <1>1, <1>3, <1>4 DEF WorkerFits, Holding, Reading
<1>6. Due(r) = Due(td[t]) - 1
  BY <1>1, <1>3, SizesAssumption DEF Due, InFlight
<1>7. td[t].at \in Holding /\ r.at \in Holding \ {"close"}
  BY <1>1, <1>3 DEF Holding
<1> QED
  BY <1>1, <1>2, <1>3, <1>5, <1>6, <1>7, PoppedOK

LEMMA DrainOK ==
    ASSUME IInv, NEW t \in Threads, Drain(t)
    PROVE  IInv'
<1> DEFINE r == [td[t] EXCEPT !.left = @ - 1]
<1> USE DEF IInv
<1>1. /\ TypeOK' /\ Turns(t, r)
      /\ td[t].at = "drain" /\ td[t].left > 0 /\ td[t].queue \in Queues
      /\ result[td[t].queue] # <<>>
      /\ result' = [result EXCEPT ![td[t].queue] = Tail(@)]
  BY DrainStep
<1>2. UNCHANGED <<connection_pool, restore_queues, restore, cd, sync, arrived, committed>>
  BY Zenon DEF Drain
<1>3. /\ r.at = "drain" /\ r.queue = td[t].queue /\ r.job = td[t].job
      /\ r.left = td[t].left - 1
  <2>1. td[t] \in Worker
    BY DEF TypeOK
  <2> QED
    BY <1>1, <2>1 DEF Worker
<1> HIDE DEF r
<1>4. WorkerFits(td[t])
  BY DEF WorkersOK
<1>5. WorkerFits(r)
  BY <1>1, <1>3, <1>4 DEF WorkerFits, Holding, Reading
<1>6. Due(r) = Due(td[t]) - 1
  BY <1>1, <1>3 DEF Due
<1>7. td[t].at \in Holding /\ r.at \in Holding \ {"close"}
  BY <1>1, <1>3 DEF Holding
<1> QED
  BY <1>1, <1>2, <1>3, <1>5, <1>6, <1>7, PoppedOK

(* The answer to the last CLOSE was the only thing in flight. *)
LEMMA PopCloseOK ==
    ASSUME IInv, NEW t \in Threads, PopClose(t)
    PROVE  IInv'
<1> DEFINE r == [td[t] EXCEPT !.at = "drain", !.granted = @ - 1]
<1> USE DEF IInv
<1>1. /\ TypeOK' /\ Turns(t, r) /\ td[t].at = "close" /\ td[t].queue \in Queues
      /\ result[td[t].queue] # <<>>
      /\ result' = [result EXCEPT ![td[t].queue] = Tail(@)]
  BY PopCloseStep
<1>2. UNCHANGED <<connection_pool, restore_queues, restore, cd, sync, arrived, committed>>
  BY Zenon DEF PopClose, serverVars
<1>3. /\ r.at = "drain" /\ r.queue = td[t].queue /\ r.job = td[t].job /\ r.left = td[t].left
  <2>1. td[t] \in Worker
    BY DEF TypeOK
  <2> QED
    BY <2>1 DEF Worker
<1> HIDE DEF r
<1>4. WorkerFits(td[t]) /\ td[t].left = 0
  BY <1>1 DEF WorkersOK, WorkerFits
<1>5. WorkerFits(r)
  BY <1>1, <1>3, <1>4 DEF WorkerFits, Holding, Reading
<1>6. Due(r) = Due(td[t]) - 1
  BY <1>1, <1>3, <1>4 DEF Due
<1>7. td[t].at \in Holding /\ r.at \in Holding \ {"close"}
  BY <1>1, <1>3 DEF Holding
<1> QED
  BY <1>1, <1>2, <1>3, <1>5, <1>6, <1>7, PoppedOK

LEMMA FinishJobOK ==
    ASSUME IInv, NEW t \in Threads, FinishJob(t)
    PROVE  IInv'
<1> USE DEF IInv
<1>1. /\ TypeOK' /\ Turns(t, Idle)
      /\ td[t].at = "drain" /\ td[t].left = 0 /\ td[t].queue \in Queues
      /\ restore_queues' = Append(restore_queues, td[t].queue)
  BY FinishJobStep
<1>2. UNCHANGED <<connection_pool, restore, result, cd, sync, arrived, committed>>
  BY Zenon DEF FinishJob, serverVars
<1>3. WorkerFits(Idle) /\ Idle.at = "free"
  BY DEF WorkerFits, Idle, Holding, Reading
<1>4. WorkersOK'
  BY <1>1, <1>3, WorkersTurned
<1>5. Held(t)
  BY <1>1 DEF Held, Holding
<1>6. QueuesOnce'
  BY <1>1, <1>5, QueuesReturned
<1>7. ConnectionsOnce'
  <2>1. \A u \in Threads : Waits(u)' => Waits(u) /\ td'[u].conn = td[u].conn
    BY <1>1, <1>3, NoWaitTurned
  <2> QED
    BY <1>2, <2>1, ConnectionsKept
<1>8. StatementsOK'
  BY <1>2 DEF StatementsOK
<1>9. ArrivalsOK' /\ LoadAfterArrival'
  BY <1>2, ServerKept
<1>10. FlightOK' /\ ClosesOK'
  BY <1>1, <1>2, <1>5, BusySame, PairsReturned
<1> QED
  BY <1>1, <1>4, <1>6, <1>7, <1>8, <1>9, <1>10

(* The blanks of ReadInsert. *)
LEMMA SendsInsert ==
    ASSUME IInv, NEW t \in Threads, ReadInsert(t), NEW n \in Nat, Turns(t, AfterInsert(t, n))
    PROVE  Sends(t, AfterInsert(t, n), Current(t, "INSERT")) /\ WorkerFits(AfterInsert(t, n))
<1> DEFINE r == AfterInsert(t, n)
           st == Current(t, "INSERT")
<1> USE DEF IInv
<1>1. /\ td[t].at = "read" /\ td[t].queue \in Queues /\ td[t].job \in Jobs /\ Place(t) \in Places
      /\ st \in Statement /\ Push(t, st)
      /\ result'[td[t].queue] \in Seq(Statement)
      /\ Len(result'[td[t].queue]) = Len(result[td[t].queue]) + Blanks(t)
      /\ \A i \in DOMAIN result'[td[t].queue] :
            \/ /\ i \in DOMAIN result[td[t].queue]
               /\ result'[td[t].queue][i] = result[td[t].queue][i]
            \/ result'[td[t].queue][i] = Blank
      /\ \A p \in Queues \ {td[t].queue} : result'[p] = result[p]
  BY ReadInsertStep
<1>2. /\ r.at = "result" /\ r.queue = td[t].queue /\ r.job = td[t].job /\ r.i = td[t].i
      /\ r.results_added
  <2>1. td[t] \in Worker
    BY DEF TypeOK
  <2> QED
    BY <2>1 DEF Worker, AfterInsert
<1>3. st # Close /\ Blank # Close
  BY CurrentFields DEF Blank, Close
<1>4. Turns(t, r)
  OBVIOUS
<1> HIDE DEF r, st
<1>5. Held(t) /\ td[t].at # "close"
  BY <1>1 DEF Held, Holding
<1>6. Without(Close, result'[td[t].queue])
  <2>1. Shape(td[t].queue, td[t].at)
    BY <1>5 DEF ClosesOK
  <2>2. Without(Close, result[td[t].queue])
    BY <1>5, <2>1 DEF Shape
  <2> QED
    BY <1>1, <1>3, <2>2 DEF Without
<1>7. Len(result'[td[t].queue]) \in Nat /\ Len(result[td[t].queue]) \in Nat
  BY <1>1, QueuesLen
<1>8. Due(r) + Len(result[td[t].queue]) = Due(td[t]) + Len(result'[td[t].queue]) + 1
  <2>1. Due(r) = Due(td[t]) + Blanks(t) + 1 /\ Blanks(t) \in Nat /\ Due(td[t]) \in Nat
    BY <1>1, <1>2, SizesAssumption DEF Due, Blanks
  <2> QED
    BY <1>1, <1>7, <2>1
<1>9. Sends(t, r, st)
  BY <1>1, <1>2, <1>3, <1>4, <1>5, <1>6, <1>7, <1>8, Zenon DEF Sends
<1>10. WorkerFits(r)
  BY <1>1, <1>2 DEF WorkerFits, Holding, Reading, Place
<1> QED
  BY <1>9, <1>10 DEF r, st

LEMMA ReadInsertOK ==
    ASSUME IInv, NEW t \in Threads, ReadInsert(t)
    PROVE  IInv'
<1> USE DEF IInv
<1>1. /\ TypeOK' /\ td[t].queue \in Queues /\ td[t].job \in Jobs
      /\ Place(t) \in Places /\ KindAt(Place(t)) # "LOAD"
      /\ \/ connection_pool' = connection_pool /\ cd' = cd /\ committed' = committed
         \/ /\ connection_pool # <<>> /\ connection_pool' = Tail(connection_pool)
            /\ Head(connection_pool) \in Conns
            /\ Setup(Head(connection_pool), td[t].queue, td[t].job)
  BY ReadInsertStep
<1>2. PICK n \in Nat : Turns(t, AfterInsert(t, n))
  BY ReadInsertStep
<1>3. restore_queues' = restore_queues /\ sync' = sync /\ arrived' = arrived
  BY Zenon DEF ReadInsert
<1>4. PICK r : r = AfterInsert(t, n)
  OBVIOUS
<1>5. PICK st : st = Current(t, "INSERT")
  OBVIOUS
<1>6. Sends(t, r, st) /\ WorkerFits(r)
  BY <1>2, <1>4, <1>5, SendsInsert
<1>7. Fit(st, arrived)
  BY <1>1, <1>5, CurrentFields DEF Fit
<1>8. CASE connection_pool' = connection_pool /\ cd' = cd /\ committed' = committed
  BY <1>1, <1>3, <1>6, <1>7, <1>8, PushedOK
<1>9. CASE /\ connection_pool # <<>> /\ connection_pool' = Tail(connection_pool)
           /\ Head(connection_pool) \in Conns
           /\ Setup(Head(connection_pool), td[t].queue, td[t].job)
  <2>1. PICK c \in Conns : c = Head(connection_pool)
    BY <1>9
  <2>2. cd[c].at = "pool"
    <3>1. \E m \in DOMAIN connection_pool : connection_pool[m] = Head(connection_pool)
      BY <1>9, PoolTail
    <3> QED
      BY <2>1, <3>1 DEF ConnectionsOnce
  <2>3. /\ \A p : Busy(p)' = Busy(p)
        /\ \A d \in Conns : ConnectionFits(cd'[d], arrived')
        /\ LoadAfterArrival'
        /\ \A d \in Conns \ {c} : cd'[d] = cd[d]
    <3>1. Setup(c, td[t].queue, td[t].job)
      BY <1>9, <2>1
    <3> QED
      BY <1>1, <1>3, <2>2, <3>1, SetupKept
  <2>4. /\ Turns(t, r) /\ Held(t) /\ r.queue = td[t].queue /\ st \in Statement /\ Push(t, st)
        /\ r.at = IF st = Close THEN "close" ELSE "result"
    BY <1>6 DEF Sends
  <2>5. WorkersOK'
    BY <1>6, <2>4, WorkersTurned
  <2>6. r.at \in Holding /\ r.at # "queue" /\ td[t].at \in Holding
    BY <2>4 DEF Holding, Held
  <2>7. QueuesOnce'
    BY <1>3, <2>4, <2>6, QueuesKept
  <2>8. ConnectionsOnce'
    <3>1. \A u \in Threads : Waits(u)' => Waits(u) /\ td'[u].conn = td[u].conn
      BY <2>4, <2>6, NoWaitTurned
    <3>2. \A d \in Conns \ {Head(connection_pool)} : cd'[d] = cd[d]
      BY <2>1, <2>3
    <3> QED
      BY <1>9, <3>1, <3>2, ConnectionLeaves
  <2>9. StatementsOK'
    <3>1. /\ restore'[td[t].queue] = Append(restore[td[t].queue], st)
          /\ \A q \in Queues \ {td[t].queue} : restore'[q] = restore[q]
      BY <1>1, <2>4, PushType
    <3>2. restore \in [Queues -> Seq(Statement)] /\ QueuesFit(restore, arrived)
      BY DEF TypeOK, StatementsOK
    <3>3. st \in Statement
      BY <2>4
    <3>4. QueuesFit(restore', arrived)
      BY <1>1, <1>7, <3>1, <3>2, <3>3, QueuesFitPushed
    <3> QED
      BY <1>3, <2>3, <3>4 DEF StatementsOK
  <2>10. ArrivalsOK'
    BY <1>3 DEF ArrivalsOK
  <2>11. FlightOK' /\ ClosesOK'
    BY <1>1, <1>3, <1>6, <2>3, PairsPushed
  <2> QED
    BY <1>1, <2>3, <2>5, <2>7, <2>8, <2>9, <2>10, <2>11
<1> QED
  BY <1>1, <1>8, <1>9

-----------------------------------------------------------------------------
(* The files, the dispatcher and the main thread. *)
LEMMA ArriveOK ==
    ASSUME IInv, NEW l \in Loads, Arrive(l)
    PROVE  IInv'
<1> USE DEF IInv
<1>1. /\ TypeOK' /\ arrived' = arrived \cup {l}
      /\ \A k \in Loads : sync'[k] = "ready" => k = l \/ sync[k] = "ready"
  BY ArriveStep
<1>2. UNCHANGED <<td, connection_pool, restore_queues, restore, result, cd, committed>>
  BY Zenon DEF Arrive, serverVars
<1>3. WorkersOK' /\ QueuesOnce' /\ ConnectionsOnce'
  BY <1>2 DEF WorkersOK, QueuesOnce, ConnectionsOnce, Held, Waits
<1>4. StatementsOK'
  <2>1. arrived \subseteq arrived'
    BY <1>1
  <2>2. QueuesFit(restore, arrived')
    BY <2>1, QueuesFitMore DEF StatementsOK
  <2>3. \A c \in Conns : ConnectionFits(cd[c], arrived')
    BY <2>1, ConnectionFitsMore DEF StatementsOK
  <2> QED
    BY <1>2, <2>2, <2>3 DEF StatementsOK
<1>5. ArrivalsOK'
  BY <1>1 DEF ArrivalsOK
<1>6. LoadAfterArrival'
  BY <1>1, <1>2, LoadsKept
<1>7. FlightOK' /\ ClosesOK'
  <2>1. \A u \in Threads : Held(u)' => Held(u) /\ td'[u] = td[u]
    BY <1>2 DEF Held
  <2> QED
    BY <1>2, <2>1, BusySame, PairsStill
<1> QED
  BY <1>1, <1>3, <1>4, <1>5, <1>6, <1>7

LEMMA ReleaseOK ==
    ASSUME IInv, release_idle_connection_if_possible
    PROVE  IInv'
<1> USE DEF IInv
<1>1. /\ TypeOK' /\ connection_pool # <<>> /\ Head(connection_pool) \in Conns
      /\ connection_pool' = Append(Tail(connection_pool), Head(connection_pool))
      /\ \A c \in Conns : /\ cd'[c].at = cd[c].at /\ cd'[c].queue = cd[c].queue
                          /\ cd'[c].piece = cd[c].piece /\ cd'[c].ir = cd[c].ir
                          /\ cd'[c].pending \subseteq cd[c].pending
  BY ReleaseStep
<1>2. UNCHANGED <<td, restore_queues, restore, result, committed, sync, arrived>>
  BY Zenon DEF release_idle_connection_if_possible, serverVars, ServerUnchanged
<1>3. WorkersOK' /\ QueuesOnce'
  BY <1>2 DEF WorkersOK, QueuesOnce, Held
<1>4. ConnectionsOnce'
  BY <1>1, <1>2, ConnectionRotated
<1>5. StatementsOK'
  BY <1>1, <1>2 DEF StatementsOK, ConnectionFits
<1>6. ArrivalsOK'
  BY <1>2 DEF ArrivalsOK
<1>7. LoadAfterArrival'
  <2>1. \A e \in Effects : committed'[e] > 0 \/ (\E c \in Conns : e \in cd'[c].pending) =>
            committed[e] > 0 \/ \E c \in Conns : e \in cd[c].pending
    BY <1>1, <1>2
  <2> QED
    BY <1>2, <2>1, LoadsKept
<1>8. \A p : Busy(p)' = Busy(p)
  BY <1>1, BusyKept
<1>9. FlightOK' /\ ClosesOK'
  <2>1. \A u \in Threads : Held(u)' => Held(u) /\ td'[u] = td[u]
    BY <1>2 DEF Held
  <2> QED
    BY <1>2, <1>8, <2>1, PairsStill
<1> QED
  BY <1>1, <1>3, <1>4, <1>5, <1>6, <1>7, <1>9

LEMMA EndOK ==
    ASSUME IInv, wait_restore_threads_to_close
    PROVE  IInv'
<1> USE DEF IInv
<1>1. /\ TypeOK' /\ connection_pool # <<>> /\ Head(connection_pool) \in Conns
      /\ connection_pool' = Tail(connection_pool)
      /\ \A c \in Conns : /\ c # Head(connection_pool) => cd'[c] = cd[c]
                          /\ cd'[c].queue = cd[c].queue
                          /\ cd'[c].piece = cd[c].piece /\ cd'[c].ir = cd[c].ir
                          /\ cd'[c].pending = cd[c].pending
      /\ cd'[Head(connection_pool)].at = "ended"
  BY EndStep
<1>2. UNCHANGED <<td, restore_queues, restore, result, committed, sync, arrived>>
  BY Zenon DEF wait_restore_threads_to_close, serverVars, ServerUnchanged
<1>3. WorkersOK' /\ QueuesOnce'
  BY <1>2 DEF WorkersOK, QueuesOnce, Held
<1>4. ConnectionsOnce'
  <2>1. \A u \in Threads : Waits(u)' => Waits(u) /\ td'[u].conn = td[u].conn
    BY <1>2 DEF Waits
  <2> QED
    BY <1>1, <2>1, ConnectionLeaves
<1>5. PICK h \in Conns : h = Head(connection_pool)
  BY <1>1
<1>6. cd[h].piece = 0
  <2>1. \E m \in DOMAIN connection_pool : connection_pool[m] = Head(connection_pool)
    BY <1>1, PoolTail
  <2>2. cd[h].at = "pool"
    BY <1>5, <2>1 DEF ConnectionsOnce
  <2> QED
    BY <2>2 DEF StatementsOK, ConnectionFits
<1>7. StatementsOK'
  <2>1. ConnectionFits(cd'[h], arrived')
    BY <1>1, <1>5, <1>6, FitsIdle
  <2>2. \A c \in Conns \ {h} : ConnectionFits(cd'[c], arrived')
    BY <1>1, <1>2, <1>5 DEF StatementsOK
  <2> QED
    BY <1>2, <2>1, <2>2 DEF StatementsOK
<1>8. ArrivalsOK'
  BY <1>2 DEF ArrivalsOK
<1>9. LoadAfterArrival'
  <2>1. \A e \in Effects : committed'[e] > 0 \/ (\E c \in Conns : e \in cd'[c].pending) =>
            committed[e] > 0 \/ \E c \in Conns : e \in cd[c].pending
    BY <1>1, <1>2
  <2> QED
    BY <1>2, <2>1, LoadsKept
<1>10. \A p : Busy(p)' = Busy(p)
  BY <1>1, BusyKept
<1>11. FlightOK' /\ ClosesOK'
  <2>1. \A u \in Threads : Held(u)' => Held(u) /\ td'[u] = td[u]
    BY <1>2 DEF Held
  <2> QED
    BY <1>2, <1>10, <2>1, PairsStill
<1> QED
  BY <1>1, <1>3, <1>4, <1>7, <1>8, <1>9, <1>11

-----------------------------------------------------------------------------
(* The steps of a connection. *)

(* A CLOSE is answered: it was alone, and its answer is too. *)
LEMMA CloseServed ==
    ASSUME TypeOK, NEW q \in Queues, restore[q] # <<>>, Head(restore[q]) = Close,
           restore' = [restore EXCEPT ![q] = Tail(@)],
           result' = [result EXCEPT ![q] = Append(@, Close)], \A p : Busy(p)' = Busy(p)
    PROVE  /\ Elsewhere(q) /\ Flight(q)' = Flight(q)
           /\ \A a : Shape(q, a) => Shape(q, a)'
<1>1. /\ restore[q] \in Seq(Statement) /\ result[q] \in Seq(Statement)
      /\ Len(restore[q]) \in Nat /\ Len(result[q]) \in Nat /\ Busy(q) \in Nat
  BY QueuesLen, BusyType
<1>2. /\ restore'[q] = Tail(restore[q]) /\ \A p \in Queues \ {q} : restore'[p] = restore[p]
      /\ result'[q] = Append(result[q], Close) /\ \A p \in Queues \ {q} : result'[p] = result[p]
  BY DEF TypeOK
<1>3. Elsewhere(q)
  BY <1>2 DEF Elsewhere
<1>4. Close \in Statement
  BY StatementRecords
<1>5. Flight(q)' = Flight(q)
  <2> DEFINE x == restore[q]
             y == result[q]
  <2>1. x \in Seq(Statement) /\ x # <<>> /\ y \in Seq(Statement)
    BY <1>1
  <2> HIDE DEF x, y
  <2>2. Len(Tail(x)) = Len(x) - 1 /\ Len(Append(y, Close)) = Len(y) + 1
    BY <1>4, <2>1
  <2>3. Len(restore'[q]) = Len(restore[q]) - 1 /\ Len(result'[q]) = Len(result[q]) + 1
    BY <1>2, <2>2 DEF x, y
  <2>4. Flight(q)' = Len(restore'[q]) + Busy(q) + Len(result'[q])
    BY DEF Flight
  <2> QED
    BY <1>1, <2>3, <2>4 DEF Flight
<1>6. ASSUME NEW a, Shape(q, a) PROVE Shape(q, a)'
  <2>1. ~Without(Close, restore[q])
    BY <1>1, OnlyWithout
  <2>2. a = "close" /\ Only(Close, restore[q]) /\ Only(Close, result[q]) /\ Busy(q) = 0
    BY <1>6, <2>1 DEF Shape
  <2>3. Only(Close, Tail(restore[q])) /\ Only(Close, Append(result[q], Close))
    BY <1>1, <1>4, <2>2, OnlyWithout
  <2>4. Only(Close, restore'[q]) /\ Only(Close, result'[q]) /\ Busy(q)' = 0
    BY <1>2, <2>2, <2>3
  <2> QED
    BY <2>2, <2>4 DEF Shape, Only
<1> QED
  BY <1>3, <1>5, <1>6

LEMMA ServeCloseOK ==
    ASSUME IInv, NEW c \in Conns, NEW fault, ServeClose(c, fault)
    PROVE  IInv'
<1> USE DEF IInv
<1>1. /\ TypeOK'
      /\ \A e \in Effects : committed'[e] > 0 => committed[e] > 0 \/ e \in cd[c].pending
      /\ cd'[c].pending \subseteq cd[c].pending
      /\ cd'[c].at = "pool" /\ cd'[c].queue = 0 /\ cd'[c].piece = cd[c].piece
      /\ \A d \in Conns \ {c} : cd'[d] = cd[d]
  BY ServeCloseType
<1>2. /\ cd[c].at = "serving" /\ cd[c].piece = 0 /\ restore[cd[c].queue] # <<>>
      /\ Head(restore[cd[c].queue]) = Close
      /\ restore' = [restore EXCEPT ![cd[c].queue] = Tail(@)]
      /\ result' = [result EXCEPT ![cd[c].queue] = Append(@, Close)]
      /\ connection_pool' = Append(connection_pool, c)
      /\ UNCHANGED <<td, restore_queues, sync, arrived>>
  BY Zenon DEF ServeClose, ServerUnchanged
<1>3. PICK q \in Queues : q = cd[c].queue
  BY <1>2 DEF StatementsOK, ConnectionFits
<1>4. WorkersOK' /\ QueuesOnce'
  BY <1>2 DEF WorkersOK, QueuesOnce, Held
<1>5. ConnectionsOnce'
  BY <1>1, <1>2, ConnectionReturned
<1>6. StatementsOK'
  <2>1. restore \in [Queues -> Seq(Statement)] /\ QueuesFit(restore, arrived)
    BY DEF TypeOK, StatementsOK
  <2>2. QueuesFit(restore', arrived)
    BY <1>2, <1>3, <2>1, QueuesFitTaken
  <2>3. ConnectionFits(cd'[c], arrived')
    BY <1>1, <1>2, FitsIdle
  <2>4. \A d \in Conns \ {c} : ConnectionFits(cd'[d], arrived')
    BY <1>1, <1>2 DEF StatementsOK
  <2> QED
    BY <1>2, <2>2, <2>3, <2>4 DEF StatementsOK
<1>7. ArrivalsOK'
  BY <1>2 DEF ArrivalsOK
<1>8. LoadAfterArrival'
  <2>1. \A e \in Effects : committed'[e] > 0 \/ (\E d \in Conns : e \in cd'[d].pending) =>
            committed[e] > 0 \/ \E d \in Conns : e \in cd[d].pending
    BY <1>1
  <2> QED
    BY <1>2, <2>1, LoadsKept
<1>9. \A p : Busy(p)' = Busy(p)
  <2>1. \A d \in Conns : cd'[d].piece = cd[d].piece /\ (cd[d].piece # 0 => cd'[d].queue = cd[d].queue)
    BY <1>1, <1>2
  <2> QED
    BY <1>1, <2>1, BusyKept
<1>10. Elsewhere(q) /\ Flight(q)' = Flight(q) /\ \A a : Shape(q, a) => Shape(q, a)'
  BY <1>2, <1>3, <1>9, CloseServed
<1>11. FlightOK' /\ ClosesOK'
  <2>1. \A u \in Threads : Held(u)' => Held(u) /\ td'[u] = td[u]
    BY <1>2 DEF Held
  <2>2. ASSUME NEW u \in Threads, NEW a \in Holding, Held(u), td[u].queue = q, td[u].at = a
        PROVE  Shape(q, a)'
    <3>1. Shape(q, a)
      BY <2>2 DEF ClosesOK
    <3> QED
      BY <1>10, <3>1
  <2> QED
    BY <1>2, <1>10, <2>1, <2>2, PairsServed
<1> QED
  BY <1>1, <1>4, <1>5, <1>6, <1>7, <1>8, <1>11

(* What a query does to its connection and to what has been executed. *)
LEMMA QueryServed ==
    ASSUME TypeOK, StatementsOK, NEW c \in Conns, NEW fault \in Faults \cup {"none"},
           NEW oversize \in BOOLEAN, Query(c, fault, oversize)
    PROVE  /\ cd'[c].at = "serving" /\ cd'[c].queue = cd[c].queue
           /\ cd'[c].piece = IF LastPiece(c) THEN 0 ELSE cd[c].piece + 1
           /\ LastPiece(c) \/ cd'[c].ir = IrOf(c)
           /\ \A d \in Conns \ {c} : cd'[d] = cd[d]
           /\ \A e \in Effects : committed'[e] > 0 \/ e \in cd'[c].pending =>
                  committed[e] > 0 \/ e \in cd[c].pending \/ e = EffectOf(c)
<1> DEFINE s == SessionAfter(c, fault, oversize)
<1>1. QueryChanges(c, fault, s)
  BY QueryStep
<1>2. Follows(Session(c), s, EffectOf(c))
  BY QueryFollows
<1>3. Session(c).pending = cd[c].pending /\ Session(c).committed = committed
  BY SessionType
<1> HIDE DEF s
<1>4. \A e \in Effects : s.committed[e] > 0 \/ e \in s.pending =>
          committed[e] > 0 \/ e \in cd[c].pending \/ e = EffectOf(c)
  BY <1>2, <1>3 DEF Follows, Done
<1>5. cd \in [Conns -> Connection] /\ cd[c] \in Connection
  BY DEF TypeOK
<1>6. /\ cd[c].at = "serving" /\ committed' = s.committed
      /\ cd' = [cd EXCEPT ![c] = [@ EXCEPT
                     !.piece = IF LastPiece(c) THEN 0 ELSE cd[c].piece + 1,
                     !.ir = IF LastPiece(c) THEN Blank ELSE IrOf(c),
                     !.query_counter = s.query_counter,
                     !.pending = s.pending, !.in_transaction = s.in_transaction]]
  BY <1>1, Zenon DEF QueryChanges
<1>7. /\ cd'[c].at = "serving" /\ cd'[c].queue = cd[c].queue
      /\ cd'[c].piece = IF LastPiece(c) THEN 0 ELSE cd[c].piece + 1
      /\ LastPiece(c) \/ cd'[c].ir = IrOf(c)
      /\ cd'[c].pending = s.pending
      /\ \A d \in Conns \ {c} : cd'[d] = cd[d]
  BY <1>5, <1>6 DEF Connection
<1> QED
  BY <1>4, <1>6, <1>7

(* What a query does to its pair of queues. *)
LEMMA QueryPair ==
    ASSUME TypeOK, StatementsOK, NEW c \in Conns, NEW fault \in Faults \cup {"none"},
           NEW oversize \in BOOLEAN, Query(c, fault, oversize), NEW q \in Queues,
           q = cd[c].queue
    PROVE  /\ \A p \in Queues \ {q} : restore'[p] = restore[p] /\ result'[p] = result[p]
           /\ cd[c].piece = 0 => restore[q] # <<>> /\ Head(restore[q]) # Close
           /\ restore'[q] = IF cd[c].piece = 0 THEN Tail(restore[q]) ELSE restore[q]
           /\ \E st \in Statement : /\ st # Close
                                    /\ result'[q] = IF LastPiece(c) THEN Append(result[q], st)
                                                    ELSE result[q]
<1> DEFINE s == SessionAfter(c, fault, oversize)
<1>1. QueryChanges(c, fault, s)
  BY QueryStep
<1>2. s \in SessionRecord
  BY QueryFollows DEF Follows
<1> HIDE DEF s
<1>3. /\ cd[c].at = "serving"
      /\ cd[c].piece = 0 => restore[q] # <<>> /\ Head(restore[q]) # Close
      /\ restore' = IF cd[c].piece = 0 THEN [restore EXCEPT ![q] = Tail(@)] ELSE restore
      /\ result' = IF LastPiece(c)
                   THEN [result EXCEPT ![q] = Append(@, [IrOf(c) EXCEPT !.result = s.result])]
                   ELSE result
  BY <1>1 DEF QueryChanges
<1>4. IrOf(c) \in Statement /\ Fit(IrOf(c), arrived)
  BY <1>3, StatementAtHand
<1> DEFINE st == [IrOf(c) EXCEPT !.result = s.result]
<1>5. st \in Statement
  <2>1. s.result \in 0 .. 2
    BY <1>2 DEF SessionRecord
  <2> QED
    BY <1>4, <2>1, StatementRecords
<1>6. st # Close
  <2>1. st.kind = IrOf(c).kind /\ IrOf(c).kind # "CLOSE" /\ Close.kind = "CLOSE"
    BY <1>4 DEF Statement, Fit, Close
  <2> QED
    BY <2>1
<1> HIDE DEF st
<1>7. restore \in [Queues -> Seq(Statement)] /\ result \in [Queues -> Seq(Statement)]
  BY DEF TypeOK
<1>8. result' = IF LastPiece(c) THEN [result EXCEPT ![q] = Append(@, st)] ELSE result
  BY <1>3 DEF st
<1>9. /\ \A p \in Queues \ {q} : restore'[p] = restore[p] /\ result'[p] = result[p]
      /\ restore'[q] = IF cd[c].piece = 0 THEN Tail(restore[q]) ELSE restore[q]
      /\ result'[q] = IF LastPiece(c) THEN Append(result[q], st) ELSE result[q]
  BY <1>3, <1>7, <1>8
<1> QED
  BY <1>3, <1>5, <1>6, <1>9

(* The statement stays in flight, on a queue or at the connection. *)
LEMMA QueryFlight ==
    ASSUME TypeOK, TypeOK', StatementsOK, NEW c \in Conns, NEW fault \in Faults \cup {"none"},
           NEW oversize \in BOOLEAN, Query(c, fault, oversize), NEW q \in Queues,
           q = cd[c].queue
    PROVE  /\ Elsewhere(q) /\ Flight(q)' = Flight(q)
           /\ \A a : Shape(q, a) => Shape(q, a)'
<1>1. /\ cd'[c].queue = q
      /\ cd'[c].piece = IF LastPiece(c) THEN 0 ELSE cd[c].piece + 1
      /\ \A d \in Conns \ {c} : cd'[d] = cd[d]
  BY QueryServed
<1>2. /\ \A p \in Queues \ {q} : restore'[p] = restore[p] /\ result'[p] = result[p]
      /\ cd[c].piece = 0 => restore[q] # <<>> /\ Head(restore[q]) # Close
      /\ restore'[q] = IF cd[c].piece = 0 THEN Tail(restore[q]) ELSE restore[q]
  BY QueryPair
<1>3. PICK st \in Statement :
         st # Close /\ result'[q] = IF LastPiece(c) THEN Append(result[q], st) ELSE result[q]
  BY QueryPair
<1>4. /\ restore[q] \in Seq(Statement) /\ result[q] \in Seq(Statement)
      /\ Len(restore[q]) \in Nat /\ Len(result[q]) \in Nat /\ Busy(q) \in Nat
  BY QueuesLen, BusyType
<1>5. cd[c] \in Connection /\ cd'[c] \in Connection /\ cd[c].piece \in Nat
  BY DEF TypeOK, Connection
<1>6. \A p : Busy(p)' = IF cd[c] \in Working(p) <=> cd'[c] \in Working(p) THEN Busy(p)
                        ELSE IF cd'[c] \in Working(p) THEN Busy(p) + 1 ELSE Busy(p) - 1
  <2>1. PICK a : a = cd[c]
    OBVIOUS
  <2>2. PICK b : b = cd'[c]
    OBVIOUS
  <2>3. Moved(Conns, cd, cd', c, a, b)
    BY <1>1, <2>1, <2>2 DEF Moved
  <2>4. \A P : Many(Conns, cd', P) = IF (a \in P <=> b \in P) THEN Many(Conns, cd, P)
                                     ELSE IF b \in P THEN Many(Conns, cd, P) + 1
                                     ELSE Many(Conns, cd, P) - 1
    BY <2>3, ManyMoved, SizesAssumption
  <2> QED
    BY <2>1, <2>2, <2>4 DEF Busy
<1>7. \A p : /\ cd[c] \in Working(p) <=> q = p /\ cd[c].piece # 0
             /\ cd'[c] \in Working(p) <=> q = p /\ ~LastPiece(c)
  BY <1>1, <1>5 DEF Working
<1>8. Elsewhere(q)
  BY <1>2, <1>6, <1>7 DEF Elsewhere
<1>9. Len(restore'[q]) = IF cd[c].piece = 0 THEN Len(restore[q]) - 1 ELSE Len(restore[q])
  <2> DEFINE x == restore[q]
  <2>1. x \in Seq(Statement) /\ (cd[c].piece = 0 => x # <<>>)
    BY <1>2, <1>4
  <2> HIDE DEF x
  <2>2. x # <<>> => Len(Tail(x)) = Len(x) - 1
    BY <2>1
  <2> QED
    BY <1>2, <2>1, <2>2 DEF x
<1>10. Len(result'[q]) = IF LastPiece(c) THEN Len(result[q]) + 1 ELSE Len(result[q])
  BY <1>3, <1>4
<1>11. Busy(q)' = IF cd[c].piece = 0 THEN IF LastPiece(c) THEN Busy(q) ELSE Busy(q) + 1
                  ELSE IF LastPiece(c) THEN Busy(q) - 1 ELSE Busy(q)
  BY <1>6, <1>7
<1>12. Flight(q)' = Flight(q)
  <2>1. Flight(q)' = Len(restore'[q]) + Busy(q)' + Len(result'[q])
    BY DEF Flight
  <2>2. Flight(q) = Len(restore[q]) + Busy(q) + Len(result[q])
    BY DEF Flight
  <2>3. PICK x \in Nat, y \in Nat, z \in Nat :
           x = Len(restore[q]) /\ y = Busy(q) /\ z = Len(result[q])
    BY <1>4
  <2>4. PICK v, w : v = Flight(q)' /\ w = Busy(q)'
    OBVIOUS
  <2>5. v = Len(restore'[q]) + w + Len(result'[q])
    BY <2>1, <2>4
  <2>10. Flight(q) = x + y + z
    BY <2>2, <2>3
  <2>6. CASE cd[c].piece = 0 /\ LastPiece(c)
    <3>1. Len(restore'[q]) = x - 1 /\ w = y /\ Len(result'[q]) = z + 1
      BY <1>9, <1>10, <1>11, <2>3, <2>4, <2>6
    <3>2. v = x + y + z
      BY <2>5, <3>1, SMTT(30)
    <3> QED
      BY <2>4, <2>10, <3>2
  <2>7. CASE cd[c].piece = 0 /\ ~LastPiece(c)
    <3>1. Len(restore'[q]) = x - 1 /\ w = y + 1 /\ Len(result'[q]) = z
      BY <1>9, <1>10, <1>11, <2>3, <2>4, <2>7
    <3>2. v = x + y + z
      BY <2>5, <3>1, SMTT(30)
    <3> QED
      BY <2>4, <2>10, <3>2
  <2>8. CASE cd[c].piece # 0 /\ LastPiece(c)
    <3>1. Len(restore'[q]) = x /\ w = y - 1 /\ Len(result'[q]) = z + 1
      BY <1>9, <1>10, <1>11, <2>3, <2>4, <2>8
    <3>2. v = x + y + z
      BY <2>5, <3>1, SMTT(30)
    <3> QED
      BY <2>4, <2>10, <3>2
  <2>9. CASE cd[c].piece # 0 /\ ~LastPiece(c)
    <3>1. Len(restore'[q]) = x /\ w = y /\ Len(result'[q]) = z
      BY <1>9, <1>10, <1>11, <2>3, <2>4, <2>9
    <3>2. v = x + y + z
      BY <2>5, <3>1, SMTT(30)
    <3> QED
      BY <2>4, <2>10, <3>2
  <2> QED
    BY <2>6, <2>7, <2>8, <2>9
<1>13. ASSUME NEW a, Shape(q, a) PROVE Shape(q, a)'
  <2>1. a # "close"
    <3>1. ASSUME a = "close" PROVE FALSE
      <4>1. Only(Close, restore[q]) /\ Busy(q) = 0
        BY <1>13, <3>1 DEF Shape
      <4>2. cd[c].piece = 0
        BY <4>1, BusyType
      <4> QED
        BY <1>2, <1>4, <4>1, <4>2, OnlyWithout
    <3> QED
      BY <3>1
  <2>2. Without(Close, restore[q]) /\ Without(Close, result[q])
    BY <1>13, <2>1 DEF Shape
  <2>3. Without(Close, restore'[q])
    BY <1>2, <1>4, <2>2, OnlyWithout
  <2>4. Without(Close, result'[q])
    BY <1>3, <1>4, <2>2, OnlyWithout
  <2> QED
    BY <2>1, <2>3, <2>4 DEF Shape, Without
<1> QED
  BY <1>8, <1>12, <1>13

LEMMA QueryOK ==
    ASSUME IInv, NEW c \in Conns, NEW fault \in Faults \cup {"none"},
           NEW oversize \in BOOLEAN, Query(c, fault, oversize)
    PROVE  IInv'
<1> USE DEF IInv
<1>1. TypeOK'
  BY QueryType
<1>2. /\ cd'[c].at = "serving" /\ cd'[c].queue = cd[c].queue
      /\ cd'[c].piece = IF LastPiece(c) THEN 0 ELSE cd[c].piece + 1
      /\ LastPiece(c) \/ cd'[c].ir = IrOf(c)
      /\ \A d \in Conns \ {c} : cd'[d] = cd[d]
      /\ \A e \in Effects : committed'[e] > 0 \/ e \in cd'[c].pending =>
             committed[e] > 0 \/ e \in cd[c].pending \/ e = EffectOf(c)
  BY QueryServed
<1>3. /\ UNCHANGED <<td, connection_pool, restore_queues, sync, arrived>>
      /\ cd[c].at = "serving"
      /\ cd[c].piece = 0 => restore[cd[c].queue] # <<>> /\ Head(restore[cd[c].queue]) # Close
      /\ restore' = IF cd[c].piece = 0 THEN [restore EXCEPT ![cd[c].queue] = Tail(@)] ELSE restore
  BY QueryStep, Zenon DEF QueryChanges
<1>4. /\ cd[c].queue \in Queues /\ cd[c].piece \in Nat
      /\ IrOf(c) \in Statement /\ Fit(IrOf(c), arrived)
      /\ cd[c].piece < QueriesOf(IrOf(c).place)
      /\ KindAt(EffectOf(c)) = KindAt(IrOf(c).place)
  BY <1>3, StatementAtHand
<1>5. WorkersOK' /\ QueuesOnce' /\ ArrivalsOK'
  BY <1>3 DEF WorkersOK, QueuesOnce, ArrivalsOK, Held
<1>6. ConnectionsOnce'
  <2>1. \A u \in Threads : Waits(u)' => Waits(u) /\ td'[u].conn = td[u].conn
    BY <1>3 DEF Waits
  <2>2. \A d \in Conns : cd'[d].at = cd[d].at
    BY <1>2, <1>3
  <2> QED
    BY <1>3, <2>1, <2>2, ConnectionsKept
<1>7. StatementsOK'
  <2>1. restore \in [Queues -> Seq(Statement)] /\ QueuesFit(restore, arrived)
    BY DEF TypeOK, StatementsOK
  <2>2. QueuesFit(restore', arrived)
    <3>1. CASE cd[c].piece = 0
      BY <1>3, <1>4, <2>1, <3>1, QueuesFitTaken
    <3>2. CASE cd[c].piece # 0
      BY <1>3, <2>1, <3>2
    <3> QED
      BY <3>1, <3>2
  <2>3. ConnectionFits(cd'[c], arrived')
    <3>1. CASE LastPiece(c)
      BY <1>2, <1>4, <3>1, FitsIdle
    <3>2. CASE ~LastPiece(c)
      <4>1. IrOf(c).place \in Places
        BY <1>4 DEF Fit
      <4>2. QueriesOf(IrOf(c).place) \in Nat
        BY <4>1, PlacesType
      <4>3. cd[c].piece + 1 < QueriesOf(IrOf(c).place)
        BY <1>4, <3>2, <4>2 DEF LastPiece
      <4> QED
        BY <1>2, <1>3, <1>4, <3>2, <4>3 DEF ConnectionFits
    <3> QED
      BY <3>1, <3>2
  <2>4. \A d \in Conns \ {c} : ConnectionFits(cd'[d], arrived')
    BY <1>2, <1>3 DEF StatementsOK
  <2> QED
    BY <1>3, <2>2, <2>3, <2>4 DEF StatementsOK
<1>8. LoadAfterArrival'
  <2>1. KindAt(EffectOf(c)) = "LOAD" => <<EffectOf(c)[1], EffectOf(c)[2]>> \in arrived'
    <3>1. IrOf(c).place = <<IrOf(c).place[1], IrOf(c).place[2]>>
      BY <1>4, PlacesType DEF Fit
    <3>2. EffectOf(c)[1] = IrOf(c).place[1] /\ EffectOf(c)[2] = IrOf(c).place[2]
      BY DEF EffectOf
    <3> QED
      BY <1>3, <1>4, <3>1, <3>2 DEF Fit
  <2>2. PICK x : x = EffectOf(c)
    OBVIOUS
  <2>3. \A e \in Effects : committed'[e] > 0 \/ (\E d \in Conns : e \in cd'[d].pending) =>
            \/ committed[e] > 0
            \/ \E d \in Conns : e \in cd[d].pending
            \/ e = x
    BY <1>2, <2>2
  <2>4. KindAt(x) = "LOAD" => <<x[1], x[2]>> \in arrived'
    BY <2>1, <2>2
  <2> QED
    BY <1>3, <2>3, <2>4, LoadsKept
<1>9. PICK q \in Queues : q = cd[c].queue
  BY <1>4
<1>10. Elsewhere(q) /\ Flight(q)' = Flight(q) /\ \A a : Shape(q, a) => Shape(q, a)'
  BY <1>1, <1>9, QueryFlight
<1>11. FlightOK' /\ ClosesOK'
  <2>1. \A u \in Threads : Held(u)' => Held(u) /\ td'[u] = td[u]
    BY <1>3 DEF Held
  <2>2. ASSUME NEW u \in Threads, NEW a \in Holding, Held(u), td[u].queue = q, td[u].at = a
        PROVE  Shape(q, a)'
    <3>1. Shape(q, a)
      BY <2>2 DEF ClosesOK
    <3> QED
      BY <1>10, <3>1
  <2> QED
    BY <1>3, <1>10, <2>1, <2>2, PairsServed
<1> QED
  BY <1>1, <1>5, <1>6, <1>7, <1>8, <1>11

-----------------------------------------------------------------------------
(* The beginning: the pool holds every connection once. *)
LEMMA PoolFilled == SetToSeq(Conns) \in Seq(Conns) /\ Injective(SetToSeq(Conns))
<1> DEFINE n == Cardinality(Conns)
           All == {f \in [1 .. n -> Conns] : IsInjective(f)}
<1>1. n \in Nat
  BY SizesAssumption, FS_CardinalityType
<1>2. \E f : f \in All
  <2>1. ExistsBijection(1 .. n, Conns)
    BY SizesAssumption, FS_CardinalityType
  <2>2. PICK f \in Bijection(1 .. n, Conns) : TRUE
    BY <2>1 DEF ExistsBijection
  <2>3. f \in [1 .. n -> Conns] /\ \A a, b \in 1 .. n : f[a] = f[b] => a = b
    BY <2>2 DEF Bijection, Injection, IsInjective
  <2>4. IsInjective(f)
    BY <2>3 DEF IsInjective
  <2> QED
    BY <2>3, <2>4
<1>3. SetToSeq(Conns) \in All
  BY <1>2 DEF SetToSeq
<1> QED
  BY <1>1, <1>3 DEF Injective, IsInjective

LEMMA InitOK == Init => IInv
<1> SUFFICES ASSUME Init PROVE IInv
  OBVIOUS
<1> USE DEF Init
<1>1. TypeOK
  <2>1. td \in [Threads -> Worker]
    BY StatementRecords
  <2>2. cd \in [Conns -> Connection]
    BY StatementRecords DEF NewConnection, Connection
  <2>3. restore_queues \in Seq(Queues)
    BY QueuesNumbered
  <2>4. free_results \in Nat
    <3>1. \A m, n \in Nat : (m + 1) * n \in Nat
      OBVIOUS
    <3> QED
      BY <3>1, QueuesNumbered, SizesAssumption
  <2>5. connection_pool \in Seq(Conns) /\ todo \subseteq Jobs
    BY PoolFilled
  <2>6. restore \in [Queues -> Seq(Statement)] /\ result \in [Queues -> Seq(Statement)]
    OBVIOUS
  <2>7. /\ sync \in [Loads -> {"absent", "waiting", "ready"}] /\ arrived \subseteq Loads
        /\ committed \in [Effects -> Nat] /\ silent \subseteq Effects
        /\ always_fatal \in BOOLEAN /\ exited \in BOOLEAN
    OBVIOUS
  <2>8. reported \in [Jobs -> Int] /\ faults_left \in 0 .. MaxFaults
    BY SizesAssumption
  <2> HIDE DEF Init
  <2> QED
    BY <2>1, <2>2, <2>3, <2>4, <2>5, <2>6, <2>7, <2>8, Zenon DEF TypeOK
<1>2. \A t \in Threads : td[t].at = "free" /\ ~Held(t) /\ ~Waits(t)
  BY DEF Idle, Held, Waits, Holding
<1>3. WorkersOK
  BY <1>2 DEF WorkersOK, WorkerFits, Holding, Reading
<1>4. QueuesOnce
  <2>1. Injective(restore_queues)
    BY DEF Injective
  <2> QED
    BY <1>2, <2>1 DEF QueuesOnce
<1>5. \A c \in Conns : cd[c].at = "pool" /\ cd[c].piece = 0 /\ cd[c].pending = {}
  BY DEF NewConnection
<1>6. ConnectionsOnce
  <2>1. connection_pool \in Seq(Conns) /\ Injective(connection_pool)
    BY PoolFilled
  <2> QED
    BY <1>2, <1>5, <2>1 DEF ConnectionsOnce
<1>7. StatementsOK
  BY <1>5 DEF StatementsOK, QueuesFit, ConnectionFits
<1>8. ArrivalsOK
  BY DEF ArrivalsOK
<1>9. LoadAfterArrival
  BY <1>5 DEF LoadAfterArrival
<1>10. \A q \in Queues : Flight(q) = 0
  <2>1. \A q : Busy(q) = 0
    BY <1>1, <1>5, BusyType
  <2>2. \A q \in Queues : restore[q] = <<>> /\ result[q] = <<>>
    OBVIOUS
  <2> QED
    BY <2>1, <2>2 DEF Flight
<1>11. FlightOK /\ ClosesOK
  <2>1. \A n \in DOMAIN restore_queues : restore_queues[n] \in Queues
    OBVIOUS
  <2> QED
    BY <1>2, <1>10, <2>1 DEF FlightOK, ClosesOK
<1> QED
  BY <1>1, <1>3, <1>4, <1>6, <1>7, <1>8, <1>9, <1>11 DEF IInv

LEMMA WorkerStepOK ==
    ASSUME IInv, NEW t \in Threads, WorkerStep(t)
    PROVE  IInv'
  BY TakeJobOK, PopQueueOK, ReadOtherOK, ReadInsertOK, LocateOK, PushLoadDataOK, PopResultOK,
     DrainOK, PushCloseOK, PopCloseOK, FinishJobOK DEF WorkerStep

LEMMA ConnectionStepOK ==
    ASSUME IInv, NEW c \in Conns, ConnectionStep(c)
    PROVE  IInv'
  BY QueryOK, ServeCloseOK DEF ConnectionStep

LEMMA StutterOK ==
    ASSUME IInv, UNCHANGED vars
    PROVE  IInv'
<1> USE DEF vars
<1>1. TypeOK'
  BY Zenon DEF IInv, TypeOK
<1>2. WorkersOK' /\ QueuesOnce' /\ ConnectionsOnce' /\ StatementsOK'
  BY DEF IInv, WorkersOK, QueuesOnce, ConnectionsOnce, StatementsOK, Held, Waits
<1>3. ArrivalsOK' /\ LoadAfterArrival'
  BY ServerKept DEF IInv
<1>4. FlightOK' /\ ClosesOK'
  <2>1. \A u \in Threads : Held(u)' => Held(u) /\ td'[u] = td[u]
    BY DEF Held
  <2> QED
    BY <2>1, BusySame, PairsStill DEF IInv
<1> QED
  BY <1>1, <1>2, <1>3, <1>4 DEF IInv

LEMMA NextOK == IInv /\ [Next]_vars => IInv'
<1> SUFFICES ASSUME IInv, [Next]_vars PROVE IInv'
  OBVIOUS
<1>1. ASSUME NEW t \in Threads, WorkerStep(t) PROVE IInv'
  BY <1>1, WorkerStepOK
<1>2. ASSUME NEW c \in Conns, ConnectionStep(c) PROVE IInv'
  BY <1>2, ConnectionStepOK
<1>3. ASSUME NEW l \in Loads, Arrive(l) PROVE IInv'
  BY <1>3, ArriveOK
<1>4. CASE release_idle_connection_if_possible
  BY <1>4, ReleaseOK
<1>5. CASE wait_restore_threads_to_close
  BY <1>5, EndOK
<1>6. CASE UNCHANGED vars
  BY <1>6, StutterOK
<1> QED
  BY <1>1, <1>2, <1>3, <1>4, <1>5, <1>6 DEF Next

LEMMA Inductive == Spec => []IInv
  BY InitOK, NextOK, PTL DEF Spec

-----------------------------------------------------------------------------
(* The types of myloader_restore.c's queues, workers and connections.      *)
THEOREM RestoreTypeCorrect == Spec => []TypeOK
<1>1. IInv => TypeOK
  BY DEF IInv
<1> QED
  BY <1>1, Inductive, PTL

(* A LOAD DATA statement is executed only when its data file is complete:  *)
(* the wait of load_data_mutex_locate and the notice of                    *)
(* release_load_data_as_it_is_close never miss each other, whichever comes *)
(* first and however many connections, faults and retries there are.       *)
THEOREM LoadsAfterTheirFiles == Spec => []LoadAfterArrival
<1>1. IInv => LoadAfterArrival
  BY DEF IInv
<1> QED
  BY <1>1, Inductive, PTL

(* What is in flight on a pair is what its holder expects: a free pair is  *)
(* empty, what is drained is no CLOSE and what answers a CLOSE is one.     *)
LEMMA PairsCleanFollows == IInv => PairsClean
<1> SUFFICES ASSUME IInv PROVE PairsClean
  OBVIOUS
<1> USE DEF IInv
<1>1. ASSUME NEW n \in DOMAIN restore_queues
      PROVE  restore[restore_queues[n]] = <<>> /\ result[restore_queues[n]] = <<>>
  <2>1. restore_queues[n] \in Queues /\ Flight(restore_queues[n]) = 0
    BY <1>1 DEF TypeOK, FlightOK
  <2> QED
    BY <2>1, QueuesLen, BusyType DEF Flight
<1>2. ASSUME NEW t \in Threads, Held(t), result[td[t].queue] # <<>>
      PROVE  /\ td[t].at = "drain" => Head(result[td[t].queue]) # Close
             /\ td[t].at = "close" => Head(result[td[t].queue]) = Close
  <2>1. result[td[t].queue] \in Seq(Statement)
    BY <1>2, QueuesLen DEF WorkersOK, WorkerFits, Held
  <2>2. Shape(td[t].queue, td[t].at)
    BY <1>2 DEF ClosesOK
  <2> QED
    BY <1>2, <2>1, <2>2, OnlyWithout DEF Shape
<1>3. \A t \in Threads : td[t].at \in {"drain", "close"} => Held(t)
  BY DEF Held, Holding
<1> QED
  BY <1>1, <1>2, <1>3 DEF PairsClean

(* The assertions of restore_data_from_mydumper_file and                   *)
(* restore_data_in_gstring_extended hold: a pair of queues is empty        *)
(* whenever it is free, and the answers to statements and to CLOSE are     *)
(* never taken for each other, although several connections serve a pair.  *)
THEOREM PairsStayClean == Spec => []PairsClean
  BY PairsCleanFollows, Inductive, PTL
=============================================================================
