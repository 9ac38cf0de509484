------------------------ MODULE QueueRepositoryProofs ------------------------
(* Theorems about QueueRepository: for all sets of work and workers, all       *)
(* leases, extensions and bounds.                                              *)
EXTENDS QueueRepository, TLAPS

-----------------------------------------------------------------------------
(* The inductive invariant *)

Row == [status : {"queued", "claimed", "cancelled"}, lease : Nat, until : Nat, cancel : BOOLEAN,
        updatedAt : Nat]
Tx == [pc : {"none", "beat", "cancel", "requeue", "end", "select", "update"},
       op : {"none", "claim", "expire", "heartbeat"}, now : Nat, row : Works \cup {"none"}]
Holding == [row : Works \cup {"none"}, lease : Nat, until : Nat]

(* All there is of the rows, in the database and in the API process. *)
Copies == {rows, committed, snapshot} \cup saving

Typed ==
  /\ Copies \subseteq [Works -> Row]
  /\ locks \in [Works -> Workers \cup {"none"}]
  /\ txs \in [Workers -> Tx]
  /\ held \in [Workers -> Holding]
  /\ nextLease \in Nat \ {0} /\ now \in Nat

(* A row has a lease exactly when it is claimed. *)
Proper ==
  \A c \in Copies, k \in Works :
    /\ (c[k].status = "claimed") <=> (c[k].lease # 0)
    /\ c[k].lease < nextLease

(* A row that is not locked is committed. *)
Unlocked == \A k \in Works : locks[k] = "none" => committed[k] = rows[k]

(* A call's time is past, a heartbeat is of a lease, and what a claim has
   selected stays queued until it is marked. *)
CallsProper ==
  \A w \in Workers :
    /\ txs[w].now <= now
    /\ txs[w].pc = "beat" => held[w].lease # 0
    /\ txs[w].pc = "update" =>
         /\ txs[w].row \in Works
         /\ locks[txs[w].row] = w /\ rows[txs[w].row].status = "queued"

(* A lease id belongs to one worker and one row, in every copy. *)
LeasesKnown ==
  \A w \in Workers : held[w].lease # 0 =>
    /\ held[w].row \in Works /\ held[w].lease < nextLease
    /\ \A v \in Workers : held[v].lease = held[w].lease => v = w
    /\ \A c \in Copies, k \in Works : c[k].lease = held[w].lease => k = held[w].row

(* A lease that has not run out is in its row, unless a save has undone it. *)
LeasesKept ==
  \A w \in Workers : held[w].lease # 0 /\ held[w].until > now /\ held[w].lease \notin undone =>
    /\ rows[held[w].row].lease = held[w].lease
    /\ rows[held[w].row].until >= held[w].until

Inv == Typed /\ Proper /\ Unlocked /\ CallsProper /\ LeasesKnown /\ LeasesKept

(* The rows start without leases. *)
LEMMA InitInv == Init => Inv
<1> SUFFICES ASSUME Init PROVE Inv
  OBVIOUS
<1>1. Copies = {rows} /\ rows = [k \in Works |-> Queued(0)]
  BY DEF Init, Copies
<1>2. Typed
  BY <1>1 DEF Init, Typed, Queued, Row, NoTx, Tx, NoLease, Holding
<1>3. Proper /\ Unlocked
  BY <1>1 DEF Init, Proper, Unlocked, Queued
<1>4. CallsProper /\ LeasesKnown /\ LeasesKept
  BY DEF Init, CallsProper, LeasesKnown, LeasesKept, NoTx, NoLease
<1>5. QED
  BY <1>2, <1>3, <1>4 DEF Inv

(* One step of a worker's call leaves the calls of the others as they are. *)
LEMMA CallMoves ==
  ASSUME Typed, NEW w \in Workers, NEW x \in Tx, txs' = [txs EXCEPT ![w] = x]
  PROVE  /\ txs' \in [Workers -> Tx] /\ txs'[w] = x
         /\ \A v \in Workers : v # w => txs'[v] = txs[v]
  BY DEF Typed

(* LeasesKnown stays when copies of rows change places, or lose leases, and
   nobody is granted one. *)
LEMMA KnownKept ==
  ASSUME LeasesKnown, nextLease' = nextLease,
         \A v \in Workers : held'[v].lease = 0 \/ (held'[v].lease = held[v].lease
                                                    /\ held'[v].row = held[v].row),
         \A c \in Copies', k \in Works :
           c[k].lease = 0 \/ \E d \in Copies : d[k].lease = c[k].lease
  PROVE  LeasesKnown'
<1>1. ASSUME NEW w \in Workers, held'[w].lease # 0
      PROVE  /\ held'[w].row \in Works /\ held'[w].lease < nextLease'
             /\ \A v \in Workers : held'[v].lease = held'[w].lease => v = w
             /\ \A c \in Copies', k \in Works : c[k].lease = held'[w].lease => k = held'[w].row
  BY <1>1 DEF LeasesKnown
<1>2. QED
  BY <1>1 DEF LeasesKnown

-----------------------------------------------------------------------------
(* Statements of a worker *)

(* Both statements of an expiry end rows whose leases were over at the call's
   time, and so are over now. *)
LEMMA EndInv ==
  ASSUME Inv, NEW w \in Workers, NEW K \in SUBSET Expired(w),
         NEW status \in {"queued", "cancelled"}, NEW x \in Tx,
         End(w, K, status), txs' = [txs EXCEPT ![w] = x],
         x.now = txs[w].now, x.pc \notin {"beat", "update"}
  PROVE  Inv'
<1> DEFINE t == txs[w].now
<1>0. Typed /\ Proper /\ Unlocked /\ CallsProper /\ LeasesKnown /\ LeasesKept
  BY DEF Inv
<1>1. /\ \A k \in K : Free(w, k)
      /\ rows' = [k \in Works |-> IF k \in K THEN Ended(k, t, status) ELSE rows[k]]
      /\ locks' = [k \in Works |-> IF k \in K THEN w ELSE locks[k]]
      /\ UNCHANGED <<committed, held, snapshot, saving, undone, nextLease, now>>
  BY DEF End
<1>2. /\ rows \in [Works -> Row] /\ t \in Nat /\ t <= now /\ now \in Nat
      /\ rows \in Copies /\ txs[w] \in Tx
  BY <1>0 DEF Typed, Copies, Tx, CallsProper
<1>3. K \subseteq Works /\ \A k \in K : rows[k].status = "claimed" /\ rows[k].until <= t
  <2>1. ASSUME NEW k \in K
        PROVE  k \in Works /\ rows[k].status = "claimed" /\ rows[k].until <= t
    <3>1. k \in Works /\ Visible(w, k).status = "claimed" /\ Visible(w, k).until <= t
      BY DEF Expired
    <3>2. Visible(w, k) = rows[k]
      BY <1>0, <1>1, <3>1 DEF Visible, Free, Unlocked
    <3>3. QED
      BY <3>1, <3>2
  <2>2. QED
    BY <2>1
<1>4. \A k \in K : /\ rows'[k] \in Row /\ rows'[k].status = status /\ rows'[k].lease = 0
  <2>1. \A k \in K : rows[k].cancel \in BOOLEAN
    BY <1>2, <1>3 DEF Row
  <2>2. QED
    BY <1>1, <1>2, <1>3, <2>1 DEF Ended, Row
<1>5. \A k \in Works \ K : rows'[k] = rows[k] /\ locks'[k] = locks[k]
  BY <1>1
<1>6. /\ txs' \in [Workers -> Tx] /\ txs'[w] = x
      /\ \A v \in Workers : v # w => txs'[v] = txs[v]
  BY <1>0, CallMoves
<1>7. /\ Copies' = {rows', committed, snapshot} \cup saving
      /\ \A c \in Copies' : c = rows' \/ c \in Copies
  BY <1>1 DEF Copies
<1> HIDE DEF t
<1>8. Typed'
  <2>1. rows' \in [Works -> Row]
    BY <1>1, <1>2, <1>3, <1>4, <1>5
  <2>2. locks' \in [Works -> Workers \cup {"none"}]
    BY <1>0, <1>1 DEF Typed
  <2>3. QED
    BY <1>0, <1>1, <1>6, <1>7, <2>1, <2>2 DEF Typed
<1>9. Proper'
  <2>1. \A k \in K : rows'[k].status # "claimed" /\ rows'[k].lease = 0 /\ 0 < nextLease
    BY <1>0, <1>4 DEF Typed
  <2>2. ASSUME NEW c \in Copies', NEW k \in Works
        PROVE  ((c[k].status = "claimed") <=> (c[k].lease # 0)) /\ c[k].lease < nextLease
    <3>1. CASE c = rows' /\ k \in K
      BY <2>1, <3>1
    <3>2. CASE c = rows' /\ k \notin K
      BY <1>0, <1>2, <1>5, <3>2 DEF Proper
    <3>3. CASE c \in Copies
      BY <1>0, <3>3 DEF Proper
    <3>4. QED
      BY <1>7, <3>1, <3>2, <3>3
  <2>3. QED
    BY <1>1, <2>2 DEF Proper
<1>10. Unlocked'
  BY <1>0, <1>1, <1>3, <1>5, QueueRepositoryAssumption DEF Unlocked
<1>11. CallsProper'
  <2>1. ASSUME NEW v \in Workers
        PROVE  /\ txs'[v].now <= now' /\ (txs'[v].pc = "beat" => held'[v].lease # 0)
               /\ txs'[v].pc = "update" =>
                    /\ txs'[v].row \in Works
                    /\ locks'[txs'[v].row] = v /\ rows'[txs'[v].row].status = "queued"
    <3>1. CASE v = w
      BY <1>1, <1>2, <1>6, <3>1 DEF t
    <3>2. CASE v # w
      <4>1. /\ txs'[v] = txs[v] /\ txs[v].now <= now
            /\ txs[v].pc = "beat" => held[v].lease # 0
            /\ txs[v].pc = "update" => /\ txs[v].row \in Works
                                       /\ locks[txs[v].row] = v
                                       /\ rows[txs[v].row].status = "queued"
        BY <1>0, <1>6, <3>2 DEF CallsProper
      <4>2. txs[v].pc = "update" => txs[v].row \notin K
        BY <1>3, <4>1
      <4>3. QED
        BY <1>1, <1>5, <4>1, <4>2
    <3>3. QED
      BY <3>1, <3>2
  <2>2. QED
    BY <2>1 DEF CallsProper
<1>12. LeasesKnown'
  <2>1. \A c \in Copies', k \in Works : c[k].lease = 0 \/ \E d \in Copies : d[k].lease = c[k].lease
    BY <1>2, <1>4, <1>5, <1>7
  <2>2. QED
    BY <1>0, <1>1, <2>1, KnownKept
<1>13. LeasesKept'
  <2>1. ASSUME NEW v \in Workers, held[v].lease # 0, held[v].until > now, held[v].lease \notin undone
        PROVE  /\ rows'[held[v].row].lease = held[v].lease
               /\ rows'[held[v].row].until >= held[v].until
    <3>1. /\ held[v].row \in Works
          /\ rows[held[v].row].lease = held[v].lease /\ rows[held[v].row].until >= held[v].until
      BY <1>0, <2>1 DEF LeasesKnown, LeasesKept
    <3>2. rows[held[v].row].until \in Nat /\ held[v].until \in Nat
      BY <1>0, <1>2, <3>1 DEF Typed, Row, Holding
    <3>3. held[v].row \notin K
      BY <1>2, <1>3, <2>1, <3>1, <3>2
    <3>4. QED
      BY <1>5, <3>1, <3>3
  <2>2. QED
    BY <1>1, <2>1 DEF LeasesKept
<1>14. QED
  BY <1>8, <1>9, <1>10, <1>11, <1>12, <1>13 DEF Inv

(* The first statement of an expiry, and the second. *)
LEMMA ExpireInv ==
  ASSUME Inv, NEW w \in Workers, ExpireCancelled(w) \/ ExpireRequeue(w)
  PROVE  Inv'
<1>0. txs \in [Workers -> Tx]
  BY DEF Inv, Typed
<1>1. CASE ExpireCancelled(w)
  <2> DEFINE x == [txs[w] EXCEPT !.pc = "requeue"]
  <2>1. /\ x \in Tx /\ x.now = txs[w].now /\ x.pc = "requeue" /\ txs' = [txs EXCEPT ![w] = x]
        /\ End(w, ToCancel(w), "cancelled") /\ ToCancel(w) \in SUBSET Expired(w)
    BY <1>0, <1>1 DEF ExpireCancelled, Tx, ToCancel
  <2> HIDE DEF x
  <2>2. QED
    BY <2>1, EndInv
<1>2. CASE ExpireRequeue(w)
  <2> DEFINE x == [txs[w] EXCEPT !.pc = IF txs[w].op = "claim" THEN "select" ELSE "end"]
  <2>1. /\ x \in Tx /\ x.now = txs[w].now /\ x.pc \in {"select", "end"}
        /\ txs' = [txs EXCEPT ![w] = x] /\ End(w, Expired(w), "queued")
    BY <1>0, <1>2 DEF ExpireRequeue, Tx
  <2> HIDE DEF x
  <2>2. QED
    BY <2>1, EndInv
<1>3. QED
  BY <1>1, <1>2

(* What CommitInv and LockInv share: the rows stay, and so do the copies, but
   for what is committed. *)
LEMMA StayInv ==
  ASSUME Inv, NEW w \in Workers, NEW x \in Tx, txs' = [txs EXCEPT ![w] = x],
         locks' \in [Works -> Workers \cup {"none"}],
         \A k \in Works, v \in Workers : v # w => (locks'[k] = v <=> locks[k] = v),
         committed' \in [Works -> Row], \A k \in Works : committed'[k] \in {rows[k], committed[k]},
         Unlocked',
         held' = held \/ held' = [held EXCEPT ![w] = NoLease],
         x.now <= now, x.pc = "beat" => held'[w].lease # 0,
         x.pc = "update" => /\ x.row \in Works /\ locks'[x.row] = w
                            /\ rows[x.row].status = "queued",
         UNCHANGED <<rows, snapshot, saving, undone, nextLease, now>>
  PROVE  Inv'
<1>0. Typed /\ Proper /\ Unlocked /\ CallsProper /\ LeasesKnown /\ LeasesKept
  BY DEF Inv
<1>1. /\ txs' \in [Workers -> Tx] /\ txs'[w] = x
      /\ \A v \in Workers : v # w => txs'[v] = txs[v]
  BY <1>0, CallMoves
<1>2. NoLease \in Holding /\ NoLease.lease = 0
  BY DEF NoLease, Holding
<1>3. /\ held' \in [Workers -> Holding] /\ \A v \in Workers : v # w => held'[v] = held[v]
      /\ \A v \in Workers : held'[v] = held[v] \/ held'[v].lease = 0
  BY <1>0, <1>2 DEF Typed
<1>4. /\ rows \in Copies /\ committed \in Copies
      /\ Copies' = {rows, committed', snapshot} \cup saving
      /\ \A c \in Copies' : c = committed' \/ c \in Copies
  BY DEF Copies
<1>5. Typed'
  BY <1>0, <1>1, <1>3, <1>4 DEF Typed
<1>6. Proper'
  <2>1. ASSUME NEW c \in Copies', NEW k \in Works
        PROVE  ((c[k].status = "claimed") <=> (c[k].lease # 0)) /\ c[k].lease < nextLease
    <3>1. \E d \in Copies : d[k] = c[k]
      BY <1>4
    <3>2. QED
      BY <1>0, <3>1 DEF Proper
  <2>2. QED
    BY <2>1 DEF Proper
<1>7. CallsProper'
  <2>1. ASSUME NEW v \in Workers
        PROVE  /\ txs'[v].now <= now /\ (txs'[v].pc = "beat" => held'[v].lease # 0)
               /\ txs'[v].pc = "update" =>
                    /\ txs'[v].row \in Works
                    /\ locks'[txs'[v].row] = v /\ rows[txs'[v].row].status = "queued"
    <3>1. CASE v = w
      BY <1>1, <3>1
    <3>2. CASE v # w
      BY <1>0, <1>1, <1>3, <3>2 DEF CallsProper
    <3>3. QED
      BY <3>1, <3>2
  <2>2. QED
    BY <2>1 DEF CallsProper
<1>8. LeasesKnown'
  <2>1. \A c \in Copies', k \in Works : c[k].lease = 0 \/ \E d \in Copies : d[k].lease = c[k].lease
    BY <1>4
  <2>2. QED
    BY <1>0, <1>3, <2>1, KnownKept
<1>9. LeasesKept'
  <2>1. ASSUME NEW v \in Workers, held'[v].lease # 0, held'[v].until > now,
               held'[v].lease \notin undone
        PROVE  /\ rows[held'[v].row].lease = held'[v].lease
               /\ rows[held'[v].row].until >= held'[v].until
    BY <1>0, <1>3, <2>1 DEF LeasesKept
  <2>2. QED
    BY <2>1 DEF LeasesKept
<1>10. QED
  BY <1>5, <1>6, <1>7, <1>8, <1>9 DEF Inv

(* A transaction that has changed no more rows ends. *)
LEMMA CommitInv ==
  ASSUME Inv, NEW w \in Workers, rows' = rows, Commit(w),
         held' = held \/ held' = [held EXCEPT ![w] = NoLease],
         UNCHANGED <<snapshot, saving, undone, nextLease, now>>
  PROVE  Inv'
<1>0. Typed /\ Unlocked
  BY DEF Inv
<1>1. /\ NoTx \in Tx /\ NoTx.now = 0 /\ NoTx.pc = "none" /\ 0 <= now
      /\ txs' = [txs EXCEPT ![w] = NoTx]
  BY <1>0 DEF NoTx, Tx, Commit, Typed
<1>2. /\ locks' = [k \in Works |-> IF locks[k] = w THEN "none" ELSE locks[k]]
      /\ committed' = [k \in Works |-> IF Free(w, k) THEN rows[k] ELSE committed[k]]
  BY DEF Commit
<1>3. /\ rows \in [Works -> Row] /\ committed \in [Works -> Row]
      /\ locks \in [Works -> Workers \cup {"none"}]
  BY <1>0 DEF Typed, Copies
<1>4. /\ locks' \in [Works -> Workers \cup {"none"}]
      /\ \A k \in Works, v \in Workers : v # w => (locks'[k] = v <=> locks[k] = v)
  BY <1>2, <1>3, QueueRepositoryAssumption
<1>5. committed' \in [Works -> Row] /\ \A k \in Works : committed'[k] \in {rows[k], committed[k]}
  BY <1>2, <1>3
<1>6. Unlocked'
  BY <1>2 DEF Unlocked, Free
<1>7. QED
  BY <1>1, <1>4, <1>5, <1>6, StayInv

(* A statement locks a row, and its call goes on. *)
LEMMA LockInv ==
  ASSUME Inv, NEW w \in Workers, NEW k \in Works, Free(w, k), NEW x \in Tx,
         txs' = [txs EXCEPT ![w] = x], locks' = [locks EXCEPT ![k] = w],
         x.now = txs[w].now, x.pc # "beat",
         x.pc = "update" => x.row = k /\ rows[k].status = "queued",
         UNCHANGED <<rows, committed, held, snapshot, saving, undone, nextLease, now>>
  PROVE  Inv'
<1>0. Typed /\ Unlocked /\ CallsProper
  BY DEF Inv
<1>1. /\ locks' \in [Works -> Workers \cup {"none"}] /\ locks'[k] = w
      /\ \A j \in Works : j # k => locks'[j] = locks[j]
  BY <1>0 DEF Typed
<1>2. \A j \in Works, v \in Workers : v # w => (locks'[j] = v <=> locks[j] = v)
  BY <1>1, QueueRepositoryAssumption DEF Free
<1>3. committed \in [Works -> Row] /\ Unlocked'
  BY <1>0, <1>1, QueueRepositoryAssumption DEF Typed, Copies, Unlocked
<1>4. x.now <= now /\ (x.pc = "beat" => held'[w].lease # 0)
  BY <1>0 DEF CallsProper
<1>5. x.pc = "update" => x.row \in Works /\ locks'[x.row] = w /\ rows[x.row].status = "queued"
  BY <1>1
<1>6. committed' \in [Works -> Row] /\ \A j \in Works : committed'[j] \in {rows[j], committed[j]}
  BY <1>3
<1>7. QED
  BY <1>1, <1>2, <1>3, <1>4, <1>5, <1>6, StayInv

(* The row that is chosen is locked, and stays queued. *)
LEMMA SelectInv ==
  ASSUME Inv, NEW w \in Workers, Select(w)
  PROVE  Inv'
<1>0. txs \in [Workers -> Tx]
  BY DEF Inv, Typed
<1>1. CASE rows' = rows /\ Commit(w)
  BY <1>1, CommitInv DEF Select
<1>2. ASSUME NEW k \in Works, rows[k].status = "queued", Free(w, k),
             txs' = [txs EXCEPT ![w].pc = "update", ![w].row = k],
             locks' = [locks EXCEPT ![k] = w], UNCHANGED <<rows, committed>>
      PROVE  Inv'
  <2> DEFINE x == [txs[w] EXCEPT !.pc = "update", !.row = k]
  <2>1. x \in Tx /\ x.pc = "update" /\ x.row = k /\ x.now = txs[w].now
    BY <1>0 DEF Tx
  <2>2. txs' = [txs EXCEPT ![w] = x]
    BY <1>0, <1>2
  <2>3. UNCHANGED <<held, snapshot, saving, undone, nextLease, now>>
    BY DEF Select
  <2> HIDE DEF x
  <2>4. QED
    BY <1>2, <2>1, <2>2, <2>3, LockInv
<1>3. QED
  BY <1>1, <1>2 DEF Select

(* A heartbeat that finds its lease over, or work that is to be cancelled. *)
LEMMA HeartbeatEndsInv ==
  ASSUME Inv, NEW w \in Workers, HeartbeatLost(w) \/ HeartbeatExpired(w)
  PROVE  Inv'
<1>0. txs \in [Workers -> Tx]
  BY DEF Inv, Typed
<1>1. CASE HeartbeatLost(w)
  BY <1>1, CommitInv DEF HeartbeatLost
<1>2. CASE HeartbeatExpired(w)
  <2> DEFINE x == [txs[w] EXCEPT !.pc = "cancel"]
  <2>1. x \in Tx /\ x.pc = "cancel" /\ x.now = txs[w].now
    BY <1>0 DEF Tx
  <2>2. txs' = [txs EXCEPT ![w] = x]
    BY <1>0, <1>2 DEF HeartbeatExpired
  <2>3. PICK k \in Works : Free(w, k) /\ locks' = [locks EXCEPT ![k] = w]
    BY <1>2 DEF HeartbeatExpired
  <2>4. UNCHANGED <<rows, committed, held, snapshot, saving, undone, nextLease, now>>
    BY <1>2 DEF HeartbeatExpired
  <2> HIDE DEF x
  <2>5. QED
    BY <2>1, <2>2, <2>3, <2>4, LockInv
<1>3. QED
  BY <1>1, <1>2

(* A row is marked or extended and committed: what Claim and HeartbeatExtends
   share. *)
LEMMA GrantInv ==
  ASSUME Inv, NEW w \in Workers, NEW k \in Works, NEW r \in Row, NEW h \in Holding,
         rows' = [rows EXCEPT ![k] = r], held' = [held EXCEPT ![w] = h], Commit(w),
         Free(w, k), \A v \in Workers : txs[v].pc = "update" /\ txs[v].row = k => v = w,
         r.status = "claimed", r.lease # 0, h.row = k, h.lease = r.lease, h.until = r.until,
         nextLease' \in Nat \ {0}, nextLease <= nextLease', r.lease < nextLease',
         \A c \in Copies, j \in Works : c[j].lease = r.lease => j = k,
         \A v \in Workers : v # w => held[v].lease # r.lease,
         \A v \in Workers : v # w /\ held[v].lease # 0 /\ held[v].row = k =>
           held[v].until <= now \/ held[v].lease \in undone,
         UNCHANGED <<snapshot, saving, undone, now>>
  PROVE  Inv'
<1>0. Typed /\ Proper /\ Unlocked /\ CallsProper /\ LeasesKnown /\ LeasesKept
  BY DEF Inv
<1>1. /\ rows \in Copies /\ committed \in Copies
      /\ rows \in [Works -> Row] /\ committed \in [Works -> Row]
      /\ locks \in [Works -> Workers \cup {"none"}]
      /\ held \in [Workers -> Holding] /\ nextLease \in Nat
  BY <1>0 DEF Typed, Copies
<1>2. /\ rows' \in [Works -> Row] /\ rows'[k] = r /\ \A j \in Works : j # k => rows'[j] = rows[j]
      /\ held' \in [Workers -> Holding] /\ held'[w] = h
      /\ \A v \in Workers : v # w => held'[v] = held[v]
  BY <1>1
<1>3. /\ NoTx \in Tx /\ NoTx.now = 0 /\ NoTx.pc = "none"
      /\ txs' = [txs EXCEPT ![w] = NoTx]
  BY DEF NoTx, Tx, Commit
<1>4. /\ txs' \in [Workers -> Tx] /\ txs'[w] = NoTx
      /\ \A v \in Workers : v # w => txs'[v] = txs[v]
  BY <1>0, <1>3, CallMoves
<1>5. /\ locks' = [j \in Works |-> IF locks[j] = w THEN "none" ELSE locks[j]]
      /\ committed' = [j \in Works |-> IF Free(w, j) THEN rows'[j] ELSE committed[j]]
  BY DEF Commit
<1>6. /\ locks' \in [Works -> Workers \cup {"none"}]
      /\ \A j \in Works, v \in Workers : v # w => (locks'[j] = v <=> locks[j] = v)
      /\ Unlocked'
  BY <1>1, <1>5, QueueRepositoryAssumption DEF Unlocked, Free
<1>7. /\ committed' \in [Works -> Row]
      /\ \A j \in Works : committed'[j] \in {rows'[j], committed[j]}
  BY <1>1, <1>2, <1>5
<1>8. /\ Copies' = {rows', committed', snapshot} \cup saving
      /\ \A c \in Copies' : c \in Copies \/ c = rows' \/ c = committed'
      /\ \A c \in Copies', j \in Works : (j = k /\ c[j] = r) \/ \E d \in Copies : d[j] = c[j]
  BY <1>1, <1>2, <1>7 DEF Copies
<1>9. Typed'
  BY <1>0, <1>2, <1>4, <1>6, <1>7, <1>8 DEF Typed
<1>10. Proper'
  <2>1. ASSUME NEW c \in Copies', NEW j \in Works
        PROVE  ((c[j].status = "claimed") <=> (c[j].lease # 0)) /\ c[j].lease < nextLease'
    <3>1. CASE c[j] = r
      BY <3>1
    <3>2. ASSUME NEW d \in Copies, d[j] = c[j]
          PROVE  ((c[j].status = "claimed") <=> (c[j].lease # 0)) /\ c[j].lease < nextLease'
      <4>1. d[j] \in Row
        BY <1>0 DEF Typed
      <4>2. d[j].lease \in Nat /\ d[j].lease < nextLease
        BY <1>0, <4>1 DEF Proper, Row
      <4>3. QED
        BY <1>0, <1>1, <3>2, <4>2 DEF Proper
    <3>3. QED
      BY <1>8, <3>1, <3>2
  <2>2. QED
    BY <2>1 DEF Proper
<1>11. CallsProper'
  <2>1. ASSUME NEW v \in Workers
        PROVE  /\ txs'[v].now <= now /\ (txs'[v].pc = "beat" => held'[v].lease # 0)
               /\ txs'[v].pc = "update" =>
                    /\ txs'[v].row \in Works
                    /\ locks'[txs'[v].row] = v /\ rows'[txs'[v].row].status = "queued"
    <3>1. CASE v = w
      BY <1>0, <1>3, <1>4, <3>1 DEF Typed
    <3>2. CASE v # w
      BY <1>0, <1>2, <1>4, <1>6, <3>2 DEF CallsProper
    <3>3. QED
      BY <3>1, <3>2
  <2>2. QED
    BY <2>1 DEF CallsProper
<1>12. LeasesKnown'
  <2>1. \A v \in Workers : held'[v].lease = r.lease => v = w
    BY <1>2
  <2>2. ASSUME NEW v \in Workers, held'[v].lease # 0
        PROVE  /\ held'[v].row \in Works /\ held'[v].lease < nextLease'
               /\ \A u \in Workers : held'[u].lease = held'[v].lease => u = v
               /\ \A c \in Copies', j \in Works : c[j].lease = held'[v].lease => j = held'[v].row
    <3>1. CASE v = w
      BY <1>2, <1>8, <2>1, <3>1
    <3>2. CASE v # w
      <4>1. /\ held'[v] = held[v] /\ held[v].row \in Works /\ held[v].lease < nextLease
            /\ held[v].lease \in Nat /\ held[v].lease # r.lease
        BY <1>0, <1>1, <1>2, <2>2, <3>2 DEF LeasesKnown, Holding
      <4>2. \A u \in Workers : held'[u].lease = held[v].lease => u = v
        BY <1>0, <1>2, <2>2, <4>1 DEF LeasesKnown
      <4>3. \A c \in Copies', j \in Works : c[j].lease = held[v].lease => j = held[v].row
        BY <1>0, <1>8, <2>2, <4>1 DEF LeasesKnown
      <4>4. QED
        BY <1>1, <4>1, <4>2, <4>3
    <3>3. QED
      BY <3>1, <3>2
  <2>3. QED
    BY <2>2 DEF LeasesKnown
<1>13. LeasesKept'
  <2>1. ASSUME NEW v \in Workers, held'[v].lease # 0, held'[v].until > now,
               held'[v].lease \notin undone
        PROVE  /\ rows'[held'[v].row].lease = held'[v].lease
               /\ rows'[held'[v].row].until >= held'[v].until
    <3>1. CASE v = w
      <4>1. r.until \in Nat
        BY DEF Row
      <4>2. QED
        BY <1>2, <3>1, <4>1
    <3>2. CASE v # w
      <4>1. held'[v] = held[v] /\ held[v].row \in Works /\ held[v].until \in Nat /\ now \in Nat
        BY <1>0, <1>1, <1>2, <2>1, <3>2 DEF LeasesKnown, Holding, Typed
      <4>2. held[v].row # k
        BY <2>1, <3>2, <4>1
      <4>3. QED
        BY <1>0, <1>2, <2>1, <4>1, <4>2 DEF LeasesKept
    <3>3. QED
      BY <3>1, <3>2
  <2>2. QED
    BY <2>1 DEF LeasesKept
<1>14. QED
  BY <1>6, <1>9, <1>10, <1>11, <1>12, <1>13 DEF Inv

(* A claim takes a queued row, which nobody holds, under a lease id that
   nobody has. *)
LEMMA ClaimInv ==
  ASSUME Inv, NEW w \in Workers, Claim(w)
  PROVE  Inv'
<1>0. Typed /\ Proper /\ Unlocked /\ CallsProper /\ LeasesKnown /\ LeasesKept
  BY DEF Inv
<1> DEFINE k == txs[w].row
           t == txs[w].now
           r == [status |-> "claimed", lease |-> nextLease, until |-> t + LeaseMs,
                 cancel |-> rows[k].cancel, updatedAt |-> t]
           h == [row |-> k, lease |-> nextLease, until |-> t + LeaseMs]
<1>1. /\ txs[w].pc = "update" /\ k \in Works /\ Free(w, k) /\ locks[k] = w
      /\ rows[k].status = "queued"
  BY <1>0 DEF Claim, CallsProper
<1>2. /\ rows' = [rows EXCEPT ![k] = r] /\ held' = [held EXCEPT ![w] = h]
      /\ nextLease' = nextLease + 1 /\ Commit(w) /\ UNCHANGED <<snapshot, saving, undone, now>>
  BY DEF Claim
<1>3. /\ rows \in [Works -> Row] /\ rows \in Copies /\ t \in Nat /\ nextLease \in Nat \ {0}
  BY <1>0 DEF Typed, Copies, Tx
<1>4. /\ r \in Row /\ r.status = "claimed" /\ r.lease = nextLease /\ r.until = t + LeaseMs
      /\ h \in Holding /\ h.row = k /\ h.lease = nextLease /\ h.until = t + LeaseMs
  BY <1>1, <1>3, QueueRepositoryAssumption DEF Row, Holding
<1> HIDE DEF t, r, h
<1>5. /\ \A c \in Copies, j \in Works : c[j].lease # nextLease
      /\ \A v \in Workers : held[v].lease # nextLease
  <2>1. \A c \in Copies, j \in Works : c[j] \in Row
    BY <1>0 DEF Typed
  <2>2. QED
    BY <1>0, <1>3, <2>1 DEF Proper, LeasesKnown, Row
<1>6. \A v \in Workers : txs[v].pc = "update" /\ txs[v].row = k => v = w
  BY <1>0, <1>1 DEF CallsProper
<1>7. \A v \in Workers : v # w /\ held[v].lease # 0 /\ held[v].row = k =>
        held[v].until <= now \/ held[v].lease \in undone
  <2>1. rows[k].lease = 0
    BY <1>0, <1>1, <1>3 DEF Proper
  <2>2. \A v \in Workers : held[v].until \in Nat /\ now \in Nat
    BY <1>0 DEF Typed, Holding
  <2>3. QED
    BY <1>0, <2>1, <2>2 DEF LeasesKept
<1>8. nextLease' \in Nat \ {0} /\ nextLease <= nextLease' /\ nextLease < nextLease'
  BY <1>2, <1>3
<1> HIDE DEF k
<1>9. /\ r.lease # 0 /\ h.lease = r.lease /\ h.until = r.until /\ r.lease < nextLease'
      /\ \A c \in Copies, j \in Works : c[j].lease = r.lease => j = k
      /\ \A v \in Workers : v # w => held[v].lease # r.lease
  BY <1>3, <1>4, <1>5, <1>8
<1>10. /\ rows' = [rows EXCEPT ![k] = r] /\ held' = [held EXCEPT ![w] = h] /\ Commit(w)
       /\ UNCHANGED <<snapshot, saving, undone, now>>
       /\ k \in Works /\ Free(w, k) /\ r \in Row /\ h \in Holding /\ r.status = "claimed"
       /\ h.row = k /\ nextLease' \in Nat \ {0} /\ nextLease <= nextLease'
  BY <1>1, <1>2, <1>4, <1>8
<1>11. QED
  BY <1>6, <1>7, <1>9, <1>10, GrantInv, Zenon

(* A heartbeat extends the lease of the worker that holds it, and no other. *)
LEMMA HeartbeatExtendsInv ==
  ASSUME Inv, NEW w \in Workers, HeartbeatExtends(w)
  PROVE  Inv'
<1>0. Typed /\ Proper /\ Unlocked /\ CallsProper /\ LeasesKnown /\ LeasesKept
  BY DEF Inv
<1> DEFINE t == txs[w].now
<1>1. PICK k \in Works : \E ms \in Extensions :
        /\ rows[k].lease = held[w].lease /\ Free(w, k)
        /\ rows' = [rows EXCEPT ![k].until = t + ms, ![k].updatedAt = t]
        /\ held' = [held EXCEPT ![w].until = t + ms]
  BY DEF HeartbeatExtends
<1>2. PICK ms \in Extensions :
        /\ rows' = [rows EXCEPT ![k].until = t + ms, ![k].updatedAt = t]
        /\ held' = [held EXCEPT ![w].until = t + ms]
  BY <1>1
<1>3. /\ txs[w].pc = "beat" /\ Commit(w) /\ UNCHANGED <<snapshot, saving, undone, nextLease, now>>
  BY DEF HeartbeatExtends
<1>4. /\ rows \in [Works -> Row] /\ rows \in Copies /\ rows[k] \in Row /\ t \in Nat
      /\ nextLease \in Nat \ {0} /\ held \in [Workers -> Holding] /\ held[w] \in Holding
      /\ ms \in Nat
  BY <1>0, QueueRepositoryAssumption DEF Typed, Copies, Tx
<1> DEFINE r == [rows[k] EXCEPT !.until = t + ms, !.updatedAt = t]
           h == [held[w] EXCEPT !.until = t + ms]
<1> HIDE DEF t
<1>5. /\ r \in Row /\ r.status = rows[k].status /\ r.lease = held[w].lease /\ r.until = t + ms
      /\ h \in Holding /\ h.row = held[w].row /\ h.lease = held[w].lease /\ h.until = t + ms
  <2>1. t + ms \in Nat
    BY <1>4
  <2>2. /\ r \in Row /\ r.status = rows[k].status /\ r.lease = rows[k].lease /\ r.until = t + ms
    BY <1>4, <2>1 DEF Row
  <2>3. /\ h \in Holding /\ h.row = held[w].row /\ h.lease = held[w].lease /\ h.until = t + ms
    BY <1>4, <2>1 DEF Holding
  <2>4. QED
    BY <1>1, <2>2, <2>3
<1>6. rows' = [rows EXCEPT ![k] = r] /\ held' = [held EXCEPT ![w] = h]
  BY <1>2, <1>4
<1> HIDE DEF r, h
<1>7. held[w].lease # 0 /\ held[w].lease < nextLease /\ held[w].row = k
  BY <1>0, <1>1, <1>3, <1>4 DEF CallsProper, LeasesKnown
<1>8. /\ \A c \in Copies, j \in Works : c[j].lease = held[w].lease => j = k
      /\ \A v \in Workers : v # w => held[v].lease # held[w].lease
  BY <1>0, <1>7 DEF LeasesKnown
<1>9. rows[k].status = "claimed"
  BY <1>0, <1>1, <1>4, <1>7 DEF Proper
<1>10. \A v \in Workers : txs[v].pc = "update" /\ txs[v].row = k => v = w
  BY <1>0, <1>9 DEF CallsProper
<1>11. \A v \in Workers : v # w /\ held[v].lease # 0 /\ held[v].row = k =>
         held[v].until <= now \/ held[v].lease \in undone
  <2>1. \A v \in Workers : held[v].until \in Nat /\ now \in Nat
    BY <1>0 DEF Typed, Holding
  <2>2. QED
    BY <1>0, <1>1, <1>8, <2>1 DEF LeasesKept
<1>12. /\ r.status = "claimed" /\ r.lease # 0 /\ h.row = k /\ h.lease = r.lease
       /\ h.until = r.until /\ nextLease' \in Nat \ {0} /\ nextLease <= nextLease'
       /\ r.lease < nextLease'
       /\ \A c \in Copies, j \in Works : c[j].lease = r.lease => j = k
       /\ \A v \in Workers : v # w => held[v].lease # r.lease
  BY <1>3, <1>4, <1>5, <1>7, <1>8, <1>9
<1>13. Free(w, k) /\ UNCHANGED <<snapshot, saving, undone, now>>
  BY <1>1, <1>3
<1>14. QED
  BY <1>3, <1>5, <1>6, <1>13, <1>10, <1>11, <1>12, GrantInv, Zenon

-----------------------------------------------------------------------------
(* The API process, and time *)

(* A call is made, a snapshot is taken or is to be saved, time passes: of rows,
   locks and leases nothing changes. *)
LEMMA OutsideInv ==
  ASSUME Inv, (\E w \in Workers : Call(w)) \/ TakeSnapshot \/ Flush \/ Tick
  PROVE  Inv'
<1>0. Typed /\ Proper /\ Unlocked /\ CallsProper /\ LeasesKnown /\ LeasesKept
  BY DEF Inv
<1>1. /\ Copies' \subseteq Copies
      /\ UNCHANGED <<rows, committed, locks, held, undone, nextLease>>
      /\ now \in Nat /\ now' \in Nat /\ now <= now'
  BY <1>0 DEF Call, TakeSnapshot, Flush, Tick, Copies, Typed
<1>2. /\ txs' \in [Workers -> Tx]
      /\ \A w \in Workers : txs'[w].now <= now' /\ (txs'[w].pc = "beat" => held[w].lease # 0)
      /\ \A w \in Workers : txs'[w].pc = "update" => txs'[w] = txs[w]
  <2>1. CASE txs' = txs
    <3>1. \A w \in Workers : txs[w].now \in Nat
      BY <1>0 DEF Typed, Tx
    <3>2. QED
      BY <1>0, <1>1, <2>1, <3>1 DEF Typed, CallsProper
  <2>2. ASSUME NEW w \in Workers, Call(w)
        PROVE  /\ txs' \in [Workers -> Tx]
               /\ \A v \in Workers :
                    txs'[v].now <= now' /\ (txs'[v].pc = "beat" => held[v].lease # 0)
               /\ \A v \in Workers : txs'[v].pc = "update" => txs'[v] = txs[v]
    <3>1. PICK op \in {"claim", "expire", "heartbeat"} :
            /\ op = "heartbeat" => held[w].lease # 0
            /\ txs' = [txs EXCEPT ![w] = [pc |-> IF op = "heartbeat" THEN "beat" ELSE "cancel",
                                          op |-> op, now |-> now, row |-> "none"]]
      BY <2>2 DEF Call
    <3>2. PICK x : /\ x = [pc |-> IF op = "heartbeat" THEN "beat" ELSE "cancel",
                           op |-> op, now |-> now, row |-> "none"]
                   /\ txs' = [txs EXCEPT ![w] = x]
      BY <3>1
    <3>3. /\ x \in Tx /\ x.now = now /\ x.pc # "update"
          /\ x.pc = "beat" => held[w].lease # 0
      BY <1>1, <3>1, <3>2 DEF Tx
    <3>4. /\ txs' \in [Workers -> Tx] /\ txs'[w] = x
          /\ \A v \in Workers : v # w => txs'[v] = txs[v]
      BY <1>0, <3>2, <3>3, CallMoves
    <3>5. now' = now
      BY <2>2 DEF Call
    <3>6. QED
      BY <1>0, <1>1, <3>3, <3>4, <3>5 DEF CallsProper
  <2>3. QED
    BY <2>1, <2>2 DEF TakeSnapshot, Flush, Tick
<1>3. Typed' /\ Proper' /\ Unlocked'
  BY <1>0, <1>1, <1>2 DEF Typed, Proper, Unlocked
<1>4. CallsProper'
  BY <1>0, <1>1, <1>2 DEF CallsProper
<1>5. LeasesKnown'
  BY <1>0, <1>1 DEF LeasesKnown
<1>6. LeasesKept'
  <2>1. \A v \in Workers : held[v].until \in Nat
    BY <1>0 DEF Typed, Holding
  <2>2. QED
    BY <1>0, <1>1, <2>1 DEF LeasesKept
<1>7. QED
  BY <1>3, <1>4, <1>5, <1>6 DEF Inv

(* A cancel request changes the process's snapshot, and no row. *)
LEMMA CancelRunInv ==
  ASSUME Inv, NEW k \in Works, cancelRun(k)
  PROVE  Inv'
<1>0. Typed /\ Proper /\ Unlocked /\ CallsProper /\ LeasesKnown /\ LeasesKept
  BY DEF Inv
<1>1. /\ snapshot \in Copies /\ snapshot \in [Works -> Row] /\ snapshot[k] \in Row
      /\ now \in Nat /\ nextLease \in Nat
  BY <1>0 DEF Typed, Copies
<1> DEFINE s == [snapshot[k] EXCEPT !.cancel = TRUE, !.updatedAt = now,
                   !.status = IF snapshot[k].status = "queued" THEN "cancelled" ELSE snapshot[k].status]
<1>2. /\ s \in Row /\ s.lease = snapshot[k].lease
      /\ s.status = "claimed" <=> snapshot[k].status = "claimed"
  BY <1>1 DEF Row
<1>3. /\ snapshot' = [snapshot EXCEPT ![k] = s]
      /\ UNCHANGED <<rows, committed, locks, txs, held, saving, undone, nextLease, now>>
  BY <1>1 DEF cancelRun
<1> HIDE DEF s
<1>4. /\ snapshot' \in [Works -> Row] /\ snapshot'[k] = s
      /\ \A j \in Works : j # k => snapshot'[j] = snapshot[j]
  BY <1>1, <1>2, <1>3
<1>5. \A c \in Copies' : c = snapshot' \/ c \in Copies
  BY <1>3 DEF Copies
<1>6. \A c \in Copies', j \in Works :
        \E d \in Copies : /\ d[j].lease = c[j].lease
                          /\ c[j].status = "claimed" <=> d[j].status = "claimed"
  BY <1>1, <1>2, <1>4, <1>5
<1>7. Typed'
  BY <1>0, <1>3, <1>4, <1>5 DEF Typed
<1>8. Proper'
  <2>1. ASSUME NEW c \in Copies', NEW j \in Works
        PROVE  ((c[j].status = "claimed") <=> (c[j].lease # 0)) /\ c[j].lease < nextLease
    BY <1>0, <1>6 DEF Proper
  <2>2. QED
    BY <1>3, <2>1 DEF Proper
<1>9. LeasesKnown'
  BY <1>0, <1>3, <1>6, KnownKept
<1>10. Unlocked' /\ CallsProper' /\ LeasesKept'
  BY <1>0, <1>3 DEF Unlocked, CallsProper, LeasesKept
<1>11. QED
  BY <1>7, <1>8, <1>9, <1>10 DEF Inv

(* A save puts other copies in the place of rows: leases it takes out or
   shortens are undone, the others stay. *)
LEMMA SaveSnapshotInv ==
  ASSUME Inv, SaveSnapshot
  PROVE  Inv'
<1>0. Typed /\ Proper /\ Unlocked /\ CallsProper /\ LeasesKnown /\ LeasesKept
  BY DEF Inv
<1>1. PICK saved \in saving :
        /\ \A k \in Works : locks[k] = "none"
        /\ rows' = [k \in Works |-> IF k \in {j \in Works : shouldPersist(rows[j], saved[j])}
                                    THEN saved[k] ELSE rows[k]]
        /\ committed' = rows'
        /\ undone' = undone \union
             {rows[k].lease : k \in {j \in {i \in Works : shouldPersist(rows[i], saved[i])} :
                                       Undoes(rows[j], saved[j])}}
        /\ saving' = {}
        /\ UNCHANGED <<locks, txs, held, snapshot, nextLease, now>>
  BY DEF SaveSnapshot
<1>2. /\ rows \in Copies /\ saved \in Copies
      /\ rows \in [Works -> Row] /\ saved \in [Works -> Row]
  BY <1>0 DEF Typed, Copies
<1>3. /\ rows' \in [Works -> Row] /\ \A k \in Works : rows'[k] \in {rows[k], saved[k]}
      /\ undone \subseteq undone'
      /\ \A k \in Works : \/ rows'[k] = rows[k]
                          \/ rows[k].lease \in undone'
                          \/ ~Undoes(rows[k], rows'[k])
  BY <1>1, <1>2
<1>4. \A c \in Copies' : c = rows' \/ c \in Copies
  BY <1>1 DEF Copies
<1>5. \A c \in Copies', k \in Works : \E d \in Copies : d[k] = c[k]
  BY <1>2, <1>3, <1>4
<1>6. Typed'
  BY <1>0, <1>1, <1>3, <1>4 DEF Typed
<1>7. Proper'
  <2>1. ASSUME NEW c \in Copies', NEW k \in Works
        PROVE  ((c[k].status = "claimed") <=> (c[k].lease # 0)) /\ c[k].lease < nextLease
    BY <1>0, <1>5 DEF Proper
  <2>2. QED
    BY <1>1, <2>1 DEF Proper
<1>8. Unlocked'
  BY <1>1 DEF Unlocked
<1>9. CallsProper'
  BY <1>0, <1>1, QueueRepositoryAssumption DEF CallsProper
<1>10. LeasesKnown'
  BY <1>0, <1>1, <1>5, KnownKept
<1>11. LeasesKept'
  <2>1. ASSUME NEW v \in Workers, held[v].lease # 0, held[v].until > now, held[v].lease \notin undone'
        PROVE  /\ rows'[held[v].row].lease = held[v].lease
               /\ rows'[held[v].row].until >= held[v].until
    <3> DEFINE k == held[v].row
    <3>1. k \in Works /\ rows[k].lease = held[v].lease /\ rows[k].until >= held[v].until
      BY <1>0, <1>3, <2>1 DEF LeasesKnown, LeasesKept
    <3>2. rows[k].until \in Nat /\ rows'[k].until \in Nat /\ held[v].until \in Nat
      BY <1>0, <1>2, <1>3, <3>1 DEF Typed, Row, Holding
    <3>3. QED
      BY <1>3, <2>1, <3>1, <3>2 DEF Undoes
  <2>2. QED
    BY <1>1, <2>1 DEF LeasesKept
<1>12. QED
  BY <1>6, <1>7, <1>8, <1>9, <1>10, <1>11 DEF Inv

-----------------------------------------------------------------------------

(* Rows, their copies, locks, calls and the workers' own view of what they hold
   stay in the relation that keeps claims exclusive. *)
THEOREM InvHolds == Spec => []Inv
<1>1. ASSUME Inv, [Next]_vars
      PROVE  Inv'
  <2>1. ASSUME NEW w \in Workers, ExpireLeases(w)
        PROVE  Inv'
    BY <1>1, <2>1, CommitInv DEF ExpireLeases
  <2>2. CASE UNCHANGED vars
    BY <1>1, <2>2
       DEF vars, Inv, Copies, Typed, Proper, Unlocked, CallsProper, LeasesKnown, LeasesKept
  <2>3. QED
    BY <1>1, <2>1, <2>2, ExpireInv, SelectInv, ClaimInv, HeartbeatEndsInv, HeartbeatExtendsInv,
       CancelRunInv, OutsideInv, SaveSnapshotInv DEF Next
<1>2. QED
  BY <1>1, InitInv, PTL DEF Spec

(* Type correctness of the queue's rows, and that a row has a lease exactly
   when it is claimed. *)
THEOREM TypeCorrect == Spec => []TypeOK
<1>1. Inv => TypeOK
  <2> SUFFICES ASSUME Inv PROVE TypeOK
    OBVIOUS
  <2>1. Typed /\ Proper /\ rows \in Copies
    BY DEF Inv, Copies
  <2>2. ASSUME NEW k \in Works
        PROVE  /\ rows[k].status \in {"queued", "claimed", "cancelled"}
               /\ rows[k].lease \in 0..(nextLease - 1)
               /\ (rows[k].status = "claimed") <=> (rows[k].lease # 0)
               /\ locks[k] \in Workers \union {"none"}
    <3>1. rows[k] \in Row /\ nextLease \in Nat
      BY <2>1 DEF Typed
    <3>2. QED
      BY <2>1, <3>1 DEF Typed, Row, Proper
  <2>3. \A w \in Workers :
          txs[w].pc \in {"none", "beat", "cancel", "requeue", "end", "select", "update"}
    BY <2>1 DEF Typed, Tx
  <2>4. QED
    BY <2>2, <2>3 DEF TypeOK
<1>2. QED
  BY <1>1, InvHolds, PTL

(* ClaimExclusive: of two workers that were granted the same work, the lease of
   one has run out by the time it was told, unless a save has overwritten one of
   them, however late transactions run and whatever is saved between their
   statements. *)
THEOREM ClaimExclusiveHolds == Spec => []ClaimExclusive
<1>1. ASSUME Inv, NEW v \in Workers, NEW w \in Workers,
             v # w, held[v].lease # 0, held[w].lease # 0, held[v].row = held[w].row,
             held[v].lease \notin undone, held[w].lease \notin undone
      PROVE  held[v].until <= now \/ held[w].until <= now
  <2>1. Typed /\ LeasesKnown /\ LeasesKept
    BY <1>1 DEF Inv
  <2>2. held[v].until \in Nat /\ held[w].until \in Nat /\ now \in Nat
    BY <2>1 DEF Typed, Holding
  <2>3. held[v].lease # held[w].lease
    BY <1>1, <2>1 DEF LeasesKnown
  <2>4. QED
    BY <1>1, <2>1, <2>2, <2>3 DEF LeasesKept
<1>2. Inv => ClaimExclusive
  BY <1>1 DEF ClaimExclusive
<1>3. QED
  BY <1>2, InvHolds, PTL
=============================================================================
