-------------------------- MODULE SlackOutboxProofs ---------------------------
(* Theorems about SlackOutbox: for all keys, drains, limits and bounds.        *)
EXTENDS SlackOutbox, TLAPS

-----------------------------------------------------------------------------
(* The inductive invariant *)

Delivery == [status : {"none", "queued", "delivering", "delivered", "failed"},
             attempts : Nat, nextAt : Nat, content : Nat]
Book == [Keys -> Delivery]
Item == [key : Keys, content : Nat]
Working == [pc : {"idle", "looping", "posting"}, due : Seq(Item), posts : Nat]

Typed ==
  /\ deliveries \in Book /\ saved \in Book /\ unsaved \in Seq(Book)
  /\ drains \in [Drains -> Working]
  /\ acked \in [Keys -> Nat] /\ crashes \in Nat /\ now \in Nat

(* A delivery that is being posted is on record as taken, by one drain. *)
TakenByOne ==
  \A d \in Drains : drains[d].pc = "posting" =>
    /\ drains[d].due # <<>>
    /\ deliveries[Head(drains[d].due).key].status = "delivering"
    /\ \A e \in Drains : drains[e].pc = "posting" /\ e # d =>
         Head(drains[e].due).key # Head(drains[d].due).key

(* What a crash has not made to be posted again was acknowledged once, and only
   if it is on record as delivered. *)
AckedWhenDelivered ==
  \A k \in Keys : acked[k] <= crashes + IF deliveries[k].status = "delivered" THEN 1 ELSE 0

(* What a snapshot has as delivered was acknowledged. *)
True(book) == \A k \in Keys : book[k].status = "delivered" => acked[k] > 0
RecordsTrue ==
  True(deliveries) /\ True(saved) /\ \A i \in DOMAIN unsaved : True(unsaved[i])

Inv == Typed /\ TakenByOne /\ AckedWhenDelivered /\ RecordsTrue

(* The outbox starts empty. *)
LEMMA InitInv == Init => Inv
<1> SUFFICES ASSUME Init PROVE Inv
  OBVIOUS
<1>1. Typed
  BY DEF Init, Typed, Absent, Book, Delivery, Idle, Working
<1>2. TakenByOne /\ AckedWhenDelivered
  BY DEF Init, TakenByOne, AckedWhenDelivered, Absent, Idle
<1>3. RecordsTrue
  BY DEF Init, RecordsTrue, True, Absent
<1>4. QED
  BY <1>1, <1>2, <1>3 DEF Inv

-----------------------------------------------------------------------------
(* A change waits to be saved behind the changes before it *)

LEMMA ChangeWaits ==
  ASSUME Typed, NEW book \in Book, Change(book)
  PROVE  /\ deliveries' = book
         /\ saved' \in Book /\ unsaved' \in Seq(Book)
         /\ saved' \in {saved, book} \cup {unsaved[i] : i \in DOMAIN unsaved}
         /\ \A i \in DOMAIN unsaved' :
              unsaved'[i] \in {book} \cup {unsaved[j] : j \in DOMAIN unsaved}
<1> DEFINE queue == Append(unsaved, book)
<1>1. /\ queue \in Seq(Book) /\ queue # <<>> /\ Len(queue) = Len(unsaved) + 1
      /\ \A i \in 1..Len(queue) : queue[i] \in {book} \cup {unsaved[j] : j \in DOMAIN unsaved}
  BY DEF Typed
<1>2. /\ Head(queue) = queue[1] /\ Tail(queue) \in Seq(Book)
      /\ \A i \in DOMAIN Tail(queue) : i + 1 \in 1..Len(queue) /\ Tail(queue)[i] = queue[i + 1]
  BY <1>1
<1>3. deliveries' = book /\ ((saved' = Head(queue) /\ unsaved' = Tail(queue))
                             \/ (saved' = saved /\ unsaved' = queue))
  BY DEF Change
<1> HIDE DEF queue
<1>4. CASE saved' = Head(queue) /\ unsaved' = Tail(queue)
  <2>1. 1 \in 1..Len(queue)
    BY <1>1
  <2>2. queue[1] \in Book
    BY <1>1, <2>1
  <2>3. QED
    BY <1>1, <1>2, <1>3, <1>4, <2>1, <2>2
<1>5. CASE saved' = saved /\ unsaved' = queue
  BY <1>1, <1>3, <1>5 DEF Typed
<1>6. QED
  BY <1>3, <1>4, <1>5

(* A change of the book that records a delivery only where Slack acknowledged keeps the records true. *)
LEMMA ChangeTrue ==
  ASSUME Typed, RecordsTrue, NEW book \in Book, Change(book),
         acked' \in [Keys -> Nat], \A k \in Keys : acked'[k] >= acked[k],
         \A k \in Keys : book[k].status = "delivered" =>
           acked'[k] > 0 \/ deliveries[k].status = "delivered"
  PROVE  RecordsTrue'
<1>1. \A old \in Book : True(old) => True(old)'
  <2>1. ASSUME NEW old \in Book, True(old), NEW k \in Keys, old[k].status = "delivered"
        PROVE  acked'[k] > 0
    <3>1. acked[k] > 0 /\ acked[k] \in Nat /\ acked'[k] \in Nat /\ acked'[k] >= acked[k]
      BY <2>1 DEF True, Typed
    <3>2. QED
      BY <3>1
  <2>2. QED
    BY <2>1 DEF True
<1>2. True(deliveries) /\ True(saved) /\ \A i \in DOMAIN unsaved : True(unsaved[i])
  BY DEF RecordsTrue
<1>3. \A k \in Keys : book[k].status = "delivered" => acked'[k] > 0
  <2>1. ASSUME NEW k \in Keys, deliveries[k].status = "delivered" PROVE acked'[k] > 0
    <3>1. acked[k] > 0 /\ acked[k] \in Nat /\ acked'[k] \in Nat /\ acked'[k] >= acked[k]
      BY <1>2, <2>1 DEF True, Typed
    <3>2. QED
      BY <3>1
  <2>2. QED
    BY <2>1
<1> DEFINE Holds(b) == \A k \in Keys : b[k].status = "delivered" => acked'[k] > 0
<1>4. Holds(book) /\ Holds(saved) /\ \A i \in DOMAIN unsaved : Holds(unsaved[i])
  <2>1. saved \in Book /\ \A i \in DOMAIN unsaved : unsaved[i] \in Book
    BY DEF Typed
  <2>2. QED
    BY <1>1, <1>2, <1>3, <2>1 DEF True
<1>5. /\ deliveries' = book
      /\ saved' \in {saved, book} \cup {unsaved[i] : i \in DOMAIN unsaved}
      /\ \A i \in DOMAIN unsaved' :
           unsaved'[i] \in {book} \cup {unsaved[j] : j \in DOMAIN unsaved}
  BY ChangeWaits
<1>6. Holds(deliveries') /\ Holds(saved') /\ \A i \in DOMAIN unsaved' : Holds(unsaved'[i])
  <2> HIDE DEF Holds
  <2>1. QED
    BY <1>4, <1>5
<1>7. QED
  BY <1>6 DEF RecordsTrue, True

-----------------------------------------------------------------------------
(* The steps *)

LEMMA NextItem ==
  ASSUME NEW due \in Seq(Item), due # <<>>
  PROVE  Head(due).key \in Keys /\ Head(due).content \in Nat /\ Tail(due) \in Seq(Item)
<1>1. Head(due) \in Item /\ Tail(due) \in Seq(Item)
  OBVIOUS
<1>2. QED
  BY <1>1 DEF Item

(* A step that changes one delivery, and not whether it is delivered. *)
LEMMA RowChangeKeeps ==
  ASSUME Inv, NEW k \in Keys, NEW row \in Delivery, Change([deliveries EXCEPT ![k] = row]),
         row.status = "delivered" <=> deliveries[k].status = "delivered",
         drains' \in [Drains -> Working], UNCHANGED environment, TakenByOne'
  PROVE  Inv'
<1> DEFINE book == [deliveries EXCEPT ![k] = row]
<1>1. Typed /\ AckedWhenDelivered /\ RecordsTrue
  BY DEF Inv
<1>2. /\ book \in Book /\ book[k] = row
      /\ \A l \in Keys : l # k => book[l] = deliveries[l]
  BY <1>1 DEF Typed, Book
<1>3. Change(book) /\ acked' = acked /\ crashes' = crashes /\ now' = now
  BY DEF environment
<1> HIDE DEF book
<1>4. deliveries' = book /\ saved' \in Book /\ unsaved' \in Seq(Book)
  BY <1>1, <1>2, <1>3, ChangeWaits
<1>5. \A l \in Keys : book[l].status = "delivered" <=> deliveries[l].status = "delivered"
  BY <1>2
<1>6. RecordsTrue'
  <2>1. acked' \in [Keys -> Nat] /\ \A l \in Keys : acked'[l] >= acked[l]
    BY <1>1, <1>3 DEF Typed
  <2>2. QED
    BY <1>1, <1>2, <1>3, <1>5, <2>1, ChangeTrue
<1>7. Typed'
  BY <1>1, <1>2, <1>3, <1>4 DEF Typed
<1>8. AckedWhenDelivered'
  BY <1>1, <1>3, <1>4, <1>5 DEF AckedWhenDelivered
<1>9. QED
  BY <1>6, <1>7, <1>8 DEF Inv

(* Enqueuing under a key that is known takes nothing from a drain. *)
LEMMA EnqueueKeeps == ASSUME Inv, NEW k \in Keys, Enqueue(k) PROVE Inv'
<1> DEFINE row == deliveries[k]
           new == IF row.status \in {"none", "failed"}
                  THEN [row EXCEPT !.status = "queued", !.nextAt = now, !.content = row.content + 1]
                  ELSE [row EXCEPT !.content = row.content + 1]
<1>1. Typed /\ TakenByOne
  BY DEF Inv
<1>2. row \in Delivery /\ now \in Nat
  BY <1>1 DEF Typed, Book
<1>3. /\ new \in Delivery
      /\ new.status = "delivered" <=> row.status = "delivered"
      /\ row.status = "delivering" => new.status = "delivering"
  <2>1. row.content + 1 \in Nat /\ now \in Nat
    BY <1>2 DEF Delivery
  <2> DEFINE content == row.content + 1
  <2>2. CASE row.status \in {"none", "failed"}
    <3>1. new = [row EXCEPT !.status = "queued", !.nextAt = now, !.content = content]
      BY <2>2
    <3> HIDE DEF new, content
    <3>2. QED
      BY <1>2, <2>1, <2>2, <3>1 DEF Delivery, content
  <2>3. CASE row.status \notin {"none", "failed"}
    <3>1. new = [row EXCEPT !.content = content]
      BY <2>3
    <3> HIDE DEF new, content
    <3>2. QED
      BY <1>2, <2>1, <3>1 DEF Delivery, content
  <2>4. QED
    BY <2>2, <2>3
<1>4. Change([deliveries EXCEPT ![k] = new]) /\ drains' = drains /\ UNCHANGED environment
  BY DEF Enqueue
<1> HIDE DEF new
<1>5. deliveries' = [deliveries EXCEPT ![k] = new]
  BY <1>4 DEF Change
<1>6. TakenByOne'
  BY <1>1, <1>3, <1>4, <1>5 DEF TakenByOne, Typed, Book
<1>7. QED
  BY <1>1, <1>3, <1>4, <1>6, RowChangeKeeps DEF Typed

(* A drain that lists what is due takes nothing yet. *)
LEMMA StartDrainKeeps == ASSUME Inv, NEW d \in Drains, StartDrain(d) PROVE Inv'
<1>1. Typed /\ TakenByOne /\ AckedWhenDelivered /\ RecordsTrue
  BY DEF Inv
<1>2. PICK due \in Lists(Limit) : drains' = [drains EXCEPT ![d].pc = "looping", ![d].due = due]
  BY DEF StartDrain
<1>3. due \in Seq(Item)
  <2>1. PICK m \in 0..Limit : due \in [1..m -> [key : Due, content : 1..MaxContents]]
    BY <1>2 DEF Lists
  <2>2. [key : Due, content : 1..MaxContents] \subseteq Item
    BY DEF Due, Item
  <2>3. m \in Nat /\ due \in [1..m -> Item]
    BY SlackOutboxAssumption, <2>1, <2>2
  <2>4. QED
    BY <2>3
<1>4. UNCHANGED <<deliveries, unsaved, saved, acked, crashes, now>>
  BY DEF StartDrain, environment
<1> DEFINE new == [drains[d] EXCEPT !.pc = "looping", !.due = due]
<1>5. new \in Working /\ new.pc = "looping" /\ drains' = [drains EXCEPT ![d] = new]
  BY <1>1, <1>2, <1>3 DEF Typed, Working
<1> HIDE DEF new
<1>6. Typed' /\ TakenByOne'
  BY <1>1, <1>4, <1>5 DEF Typed, TakenByOne
<1>7. AckedWhenDelivered' /\ RecordsTrue'
  BY <1>1, <1>4 DEF AckedWhenDelivered, RecordsTrue, True
<1>8. QED
  BY <1>6, <1>7 DEF Inv

(* A drain takes a delivery only while no other has it. *)
LEMMA BeginKeeps == ASSUME Inv, NEW d \in Drains, Begin(d) PROVE Inv'
<1> DEFINE k == Head(drains[d].due).key
           row == [deliveries[k] EXCEPT !.status = "delivering", !.attempts = @ + 1]
           new == [drains[d] EXCEPT !.pc = "posting", !.posts = 0]
<1>1. Typed /\ TakenByOne /\ AckedWhenDelivered /\ RecordsTrue
  BY DEF Inv
<1>2. /\ drains[d] \in Working /\ drains[d].due \in Seq(Item) /\ drains[d].due # <<>>
      /\ drains[d].pc = "looping" /\ UNCHANGED environment
  BY <1>1 DEF Begin, Typed, Working
<1>3. k \in Keys
  BY <1>2, NextItem
<1>4. CASE deliveries[k].status = "queued"
  <2>1. row \in Delivery /\ row.status = "delivering"
    <3>1. deliveries[k] \in Delivery
      BY <1>1, <1>3 DEF Typed, Book
    <3>2. deliveries[k].attempts + 1 \in Nat
      BY <3>1 DEF Delivery
    <3> HIDE DEF k
    <3>3. QED
      BY <3>1, <3>2 DEF Delivery
  <2>2. new \in Working /\ new.pc = "posting" /\ new.due = drains[d].due
    BY <1>2 DEF Working
  <2>3. Change([deliveries EXCEPT ![k] = row]) /\ drains' = [drains EXCEPT ![d] = new]
    BY <1>4 DEF Begin
  <2>4. deliveries' = [deliveries EXCEPT ![k] = row]
    BY <2>3 DEF Change
  <2> HIDE DEF row, new
  <2>5. drains' \in [Drains -> Working] /\ drains'[d] = new
        /\ \A e \in Drains : e # d => drains'[e] = drains[e]
    BY <1>1, <2>2, <2>3 DEF Typed
  <2>6. deliveries'[k] = row /\ \A l \in Keys : l # k => deliveries'[l] = deliveries[l]
    BY <1>1, <1>3, <2>4 DEF Typed, Book
  <2>7. \A e \in Drains : drains[e].pc = "posting" =>
          /\ Head(drains[e].due).key # k /\ e # d
          /\ drains[e].due # <<>> /\ Head(drains[e].due).key \in Keys
    <3>1. \A e \in Drains : drains[e].pc = "posting" =>
            /\ drains[e].due # <<>> /\ deliveries[Head(drains[e].due).key].status = "delivering"
      BY <1>1 DEF TakenByOne
    <3>2. \A e \in Drains : drains[e].due \in Seq(Item)
      BY <1>1 DEF Typed, Working
    <3>3. \A e \in Drains : drains[e].due # <<>> => Head(drains[e].due).key \in Keys
      BY <3>2, NextItem
    <3>4. QED
      BY <1>2, <1>4, <3>1, <3>3
  <2>8. TakenByOne'
    <3>1. ASSUME NEW e \in Drains, drains'[e].pc = "posting"
          PROVE  /\ drains'[e].due # <<>>
                 /\ deliveries'[Head(drains'[e].due).key].status = "delivering"
      BY <1>1, <1>2, <2>1, <2>2, <2>5, <2>6, <2>7, <3>1 DEF TakenByOne
    <3>2. ASSUME NEW e \in Drains, NEW f \in Drains, e # f,
                 drains'[e].pc = "posting", drains'[f].pc = "posting"
          PROVE  Head(drains'[f].due).key # Head(drains'[e].due).key
      BY <1>1, <2>2, <2>5, <2>7, <3>2 DEF TakenByOne
    <3>3. QED
      BY <3>1, <3>2 DEF TakenByOne
  <2>9. QED
    BY <1>2, <1>3, <1>4, <2>1, <2>3, <2>5, <2>8, RowChangeKeeps
<1>5. CASE deliveries[k].status # "queued"
  <2>1. /\ drains' = [drains EXCEPT ![d] = Idle]
        /\ UNCHANGED <<deliveries, unsaved, saved, acked, crashes, now>>
    BY <1>5 DEF Begin, environment
  <2>2. Idle \in Working /\ Idle.pc = "idle"
    BY DEF Idle, Working
  <2>3. Typed' /\ TakenByOne'
    BY <1>1, <2>1, <2>2 DEF Typed, TakenByOne
  <2>4. AckedWhenDelivered' /\ RecordsTrue'
    BY <1>1, <2>1 DEF AckedWhenDelivered, RecordsTrue, True
  <2>5. QED
    BY <2>3, <2>4 DEF Inv
<1>6. QED
  BY <1>4, <1>5

(* A drain that goes on to the next delivery leaves the one it was posting. *)
LEMMA AdvanceKeeps ==
  ASSUME Inv, NEW d \in Drains, drains[d].pc = "posting", drains' = Advanced(d),
         NEW row, deliveries' = [deliveries EXCEPT ![Head(drains[d].due).key] = row]
  PROVE  drains' \in [Drains -> Working] /\ TakenByOne'
<1> DEFINE k == Head(drains[d].due).key
           new == [drains[d] EXCEPT !.pc = "looping", !.due = Tail(@), !.posts = 0]
<1>1. Typed /\ TakenByOne
  BY DEF Inv
<1>2. drains[d] \in Working /\ drains[d].due \in Seq(Item) /\ drains[d].due # <<>>
  BY <1>1 DEF Typed, Working, TakenByOne
<1>3. k \in Keys /\ Tail(drains[d].due) \in Seq(Item)
  BY <1>2, NextItem
<1>4. new \in Working /\ new.pc = "looping"
  BY <1>2, <1>3 DEF Working
<1>5. drains' = [drains EXCEPT ![d] = new]
  BY DEF Advanced
<1>6. deliveries' = [deliveries EXCEPT ![k] = row]
  OBVIOUS
<1> HIDE DEF new
<1>7. /\ drains' \in [Drains -> Working] /\ drains'[d].pc = "looping"
      /\ \A e \in Drains : e # d => drains'[e] = drains[e]
  BY <1>1, <1>4, <1>5 DEF Typed
<1>8. \A e \in Drains : drains[e].pc = "posting" /\ e # d =>
        Head(drains[e].due).key # k
  BY <1>1 DEF TakenByOne
<1> HIDE DEF k
<1>9. \A l \in Keys : l # k => deliveries'[l] = deliveries[l]
  BY <1>1, <1>6 DEF Typed, Book
<1>10. \A e \in Drains : drains[e].pc = "posting" => Head(drains[e].due).key \in Keys
  <2>1. \A e \in Drains : drains[e].due \in Seq(Item)
    BY <1>1 DEF Typed, Working
  <2>2. QED
    BY <1>1, <2>1, NextItem DEF TakenByOne
<1>11. QED
  BY <1>1, <1>7, <1>8, <1>9, <1>10 DEF TakenByOne

(* The acknowledged post is recorded by the drain that has the delivery. *)
LEMMA PostAckedKeeps == ASSUME Inv, NEW d \in Drains, PostAcked(d) PROVE Inv'
<1> DEFINE k == Head(drains[d].due).key
           row == [deliveries[k] EXCEPT !.status = "delivered"]
           book == [deliveries EXCEPT ![k] = row]
<1>1. Typed /\ TakenByOne /\ AckedWhenDelivered /\ RecordsTrue
  BY DEF Inv
<1>2. /\ drains[d].pc = "posting" /\ drains' = Advanced(d) /\ crashes' = crashes /\ now' = now
      /\ acked' = [acked EXCEPT ![k] = @ + 1] /\ Change(book)
  BY DEF PostAcked, Complete
<1>3. k \in Keys /\ deliveries[k].status = "delivering"
  <2>1. drains[d].due \in Seq(Item) /\ drains[d].due # <<>> /\ deliveries[k].status = "delivering"
    BY <1>1, <1>2 DEF Typed, Working, TakenByOne
  <2>2. QED
    BY <2>1, NextItem
<1>4. drains' \in [Drains -> Working] /\ TakenByOne'
  <2>1. deliveries' = [deliveries EXCEPT ![k] = row]
    BY <1>2 DEF Change
  <2> HIDE DEF row
  <2>2. QED
    BY <1>2, <2>1, AdvanceKeeps
<1> HIDE DEF k
<1>5. row \in Delivery /\ row.status = "delivered"
  <2>1. deliveries[k] \in Delivery
    BY <1>1, <1>3 DEF Typed, Book
  <2>2. QED
    BY <2>1 DEF Delivery
<1> HIDE DEF row
<1>6. /\ book \in Book /\ book[k] = row
      /\ \A l \in Keys : l # k => book[l] = deliveries[l]
  BY <1>1, <1>3, <1>5 DEF Typed, Book
<1> HIDE DEF book
<1>7. deliveries' = book /\ saved' \in Book /\ unsaved' \in Seq(Book)
  BY <1>1, <1>2, <1>6, ChangeWaits
<1>8. /\ acked' \in [Keys -> Nat] /\ acked'[k] = acked[k] + 1 /\ acked[k] \in Nat
      /\ \A l \in Keys : l # k => acked'[l] = acked[l] /\ acked[l] \in Nat
  BY <1>1, <1>2, <1>3 DEF Typed
<1>9. Typed'
  BY <1>1, <1>2, <1>4, <1>6, <1>7, <1>8 DEF Typed
<1>10. RecordsTrue'
  <2>1. \A l \in Keys : acked'[l] >= acked[l]
    BY <1>8
  <2>2. acked'[k] > 0
    BY <1>8
  <2>3. \A l \in Keys : book[l].status = "delivered" =>
          acked'[l] > 0 \/ deliveries[l].status = "delivered"
    BY <1>6, <2>2
  <2>4. QED
    BY <1>1, <1>2, <1>6, <1>8, <2>1, <2>3, ChangeTrue
<1>11. AckedWhenDelivered'
  <2>1. acked[k] <= crashes + 0
    BY <1>1, <1>3 DEF AckedWhenDelivered
  <2>2. crashes \in Nat
    BY <1>1 DEF Typed
  <2>3. acked'[k] <= crashes + 1
    BY <1>8, <2>1, <2>2
  <2>4. QED
    BY <1>1, <1>2, <1>5, <1>6, <1>7, <1>8, <2>3 DEF AckedWhenDelivered
<1>12. QED
  BY <1>4, <1>9, <1>10, <1>11 DEF Inv

(* A failed post goes back to its key, acknowledged by nobody. *)
LEMMA PostFailsKeeps == ASSUME Inv, NEW d \in Drains, PostFails(d) PROVE Inv'
<1> DEFINE k == Head(drains[d].due).key
           old == deliveries[k]
<1>1. Typed /\ TakenByOne /\ AckedWhenDelivered /\ RecordsTrue
  BY DEF Inv
<1>2. drains[d].pc = "posting" /\ UNCHANGED environment
  BY DEF PostFails
<1>3. k \in Keys /\ old.status = "delivering" /\ old \in Delivery
  <2>1. drains[d].due \in Seq(Item) /\ drains[d].due # <<>> /\ old.status = "delivering"
    BY <1>1, <1>2 DEF Typed, Working, TakenByOne
  <2>2. k \in Keys
    BY <2>1, NextItem
  <2>3. QED
    BY <1>1, <2>1, <2>2 DEF Typed, Book
<1>4. ASSUME NEW retryable \in BOOLEAN, Fail(k, retryable), drains' = Advanced(d)
      PROVE  Inv'
  <2> DEFINE row == IF retryable /\ old.attempts < MaxAttempts
                    THEN [old EXCEPT !.status = "queued", !.nextAt = Later]
                    ELSE [old EXCEPT !.status = "failed"]
  <2>1. Change([deliveries EXCEPT ![k] = row])
    BY <1>4 DEF Fail
  <2>2. row \in Delivery /\ row.status # "delivered"
    <3>1. Later \in Nat
      BY <1>1, SlackOutboxAssumption DEF Later, Typed
    <3> HIDE DEF old
    <3>2. QED
      BY <1>3, <3>1 DEF Delivery
  <2> HIDE DEF row
  <2>3. deliveries' = [deliveries EXCEPT ![k] = row]
    BY <2>1 DEF Change
  <2>4. drains' \in [Drains -> Working] /\ TakenByOne'
    BY <1>2, <1>4, <2>3, AdvanceKeeps
  <2>5. QED
    BY <1>2, <1>3, <2>1, <2>2, <2>4, RowChangeKeeps
<1>5. CASE /\ drains' = [drains EXCEPT ![d].posts = @ + 1]
           /\ UNCHANGED <<deliveries, unsaved, saved>>
  <2> DEFINE new == [drains[d] EXCEPT !.posts = @ + 1]
  <2>1. new \in Working /\ new.pc = drains[d].pc /\ new.due = drains[d].due
    <3>1. drains[d] \in Working
      BY <1>1 DEF Typed
    <3>2. drains[d].posts + 1 \in Nat
      BY <3>1 DEF Working
    <3>3. QED
      BY <3>1, <3>2 DEF Working
  <2>2. drains' = [drains EXCEPT ![d] = new]
    BY <1>5
  <2> HIDE DEF new
  <2>3. Typed' /\ TakenByOne'
    BY <1>1, <1>2, <1>5, <2>1, <2>2 DEF Typed, TakenByOne, environment
  <2>4. AckedWhenDelivered' /\ RecordsTrue'
    BY <1>1, <1>2, <1>5 DEF AckedWhenDelivered, RecordsTrue, True, environment
  <2>5. QED
    BY <2>3, <2>4 DEF Inv
<1>6. QED
  BY <1>4, <1>5 DEF PostFails

(* A drain ends with nothing in hand. *)
LEMMA EndDrainKeeps == ASSUME Inv, NEW d \in Drains, EndDrain(d) PROVE Inv'
<1>1. Typed /\ TakenByOne /\ AckedWhenDelivered /\ RecordsTrue
  BY DEF Inv
<1>2. /\ drains' = [drains EXCEPT ![d] = Idle]
      /\ UNCHANGED <<deliveries, unsaved, saved, acked, crashes, now>>
  BY DEF EndDrain, environment
<1>3. Idle \in Working /\ Idle.pc = "idle"
  BY DEF Idle, Working
<1>4. Typed' /\ TakenByOne'
  BY <1>1, <1>2, <1>3 DEF Typed, TakenByOne
<1>5. AckedWhenDelivered' /\ RecordsTrue'
  BY <1>1, <1>2 DEF AckedWhenDelivered, RecordsTrue, True
<1>6. QED
  BY <1>4, <1>5 DEF Inv

(* A save copies records that are true. *)
LEMMA SaveKeeps == ASSUME Inv, Save PROVE Inv'
<1>1. Typed /\ TakenByOne /\ AckedWhenDelivered /\ RecordsTrue
  BY DEF Inv
<1>2. /\ unsaved # <<>> /\ saved' = Head(unsaved) /\ unsaved' = Tail(unsaved)
      /\ UNCHANGED <<deliveries, drains, acked, crashes, now>>
  BY DEF Save, environment
<1>3. /\ saved' = unsaved[1] /\ 1 \in DOMAIN unsaved
      /\ saved' \in Book /\ unsaved' \in Seq(Book)
      /\ \A i \in DOMAIN unsaved' : i + 1 \in DOMAIN unsaved /\ unsaved'[i] = unsaved[i + 1]
  BY <1>1, <1>2 DEF Typed
<1>4. Typed'
  BY <1>1, <1>2, <1>3 DEF Typed
<1>5. TakenByOne' /\ AckedWhenDelivered'
  BY <1>1, <1>2 DEF TakenByOne, AckedWhenDelivered
<1>6. RecordsTrue'
  <2>1. True(unsaved[1]) /\ \A i \in DOMAIN unsaved' : True(unsaved[i + 1])
    BY <1>1, <1>3 DEF RecordsTrue
  <2>2. \A k \in Keys : saved'[k].status = "delivered" => acked'[k] > 0
    BY <1>2, <1>3, <2>1 DEF True
  <2>3. \A k \in Keys : deliveries'[k].status = "delivered" => acked'[k] > 0
    BY <1>1, <1>2 DEF RecordsTrue, True
  <2>4. \A i \in DOMAIN unsaved', k \in Keys :
          unsaved'[i][k].status = "delivered" => acked'[k] > 0
    BY <1>2, <1>3, <2>1 DEF True
  <2>5. QED
    BY <2>2, <2>3, <2>4 DEF RecordsTrue, True
<1>7. QED
  BY <1>4, <1>5, <1>6 DEF Inv

(* After a crash the restored records are older, and still true of what Slack acknowledged. *)
LEMMA CrashKeeps == ASSUME Inv, Crash PROVE Inv'
<1>1. Typed /\ AckedWhenDelivered /\ RecordsTrue
  BY DEF Inv
<1>2. /\ crashes' = crashes + 1 /\ deliveries' = saved /\ unsaved' = <<>>
      /\ drains' = [d \in Drains |-> Idle] /\ UNCHANGED <<saved, acked, now>>
  BY DEF Crash
<1>3. Idle \in Working /\ Idle.pc = "idle"
  BY DEF Idle, Working
<1>4. Typed'
  BY <1>1, <1>2, <1>3 DEF Typed
<1>5. TakenByOne'
  BY <1>2, <1>3 DEF TakenByOne
<1>6. AckedWhenDelivered'
  <2>1. \A k \in Keys : acked[k] <= crashes + 1 /\ acked[k] \in Nat /\ crashes \in Nat
    BY <1>1 DEF AckedWhenDelivered, Typed
  <2>2. QED
    BY <1>2, <2>1 DEF AckedWhenDelivered
<1>7. RecordsTrue'
  BY <1>1, <1>2 DEF RecordsTrue, True
<1>8. QED
  BY <1>4, <1>5, <1>6, <1>7 DEF Inv

(* Time changes no delivery. *)
LEMMA IdleKeeps ==
  ASSUME Inv, UNCHANGED <<deliveries, drains, unsaved, saved, acked, crashes>>, now' \in Nat
  PROVE  Inv'
<1>1. Typed /\ TakenByOne /\ AckedWhenDelivered /\ RecordsTrue
  BY DEF Inv
<1>2. Typed' /\ TakenByOne'
  BY <1>1 DEF Typed, TakenByOne
<1>3. AckedWhenDelivered' /\ RecordsTrue'
  BY <1>1 DEF AckedWhenDelivered, RecordsTrue, True
<1>4. QED
  BY <1>2, <1>3 DEF Inv

(* Every step keeps the invariant. *)
LEMMA StepKeeps == Inv /\ [Next]_vars => Inv'
<1> SUFFICES ASSUME Inv, [Next]_vars PROVE Inv'
  OBVIOUS
<1>1. ASSUME NEW k \in Keys, Enqueue(k) PROVE Inv'
  BY <1>1, EnqueueKeeps
<1>2. ASSUME NEW d \in Drains, Drain(d) PROVE Inv'
  BY <1>2, StartDrainKeeps, BeginKeeps, PostAckedKeeps, PostFailsKeeps, EndDrainKeeps DEF Drain
<1>3. CASE Save
  BY <1>3, SaveKeeps
<1>4. CASE Tick
  BY <1>4, IdleKeeps DEF Tick, Inv, Typed
<1>5. CASE Crash
  BY <1>5, CrashKeeps
<1>6. CASE UNCHANGED vars
  BY <1>6, IdleKeeps DEF vars, Inv, Typed
<1>7. QED
  BY <1>1, <1>2, <1>3, <1>4, <1>5, <1>6 DEF Next

-----------------------------------------------------------------------------
(* The theorems *)

(* The drains and failOutboundDelivery: a delivery that is being posted is     *)
(* taken by one drain, and what snapshots record as delivered was acknowledged.*)
THEOREM InvHolds == Spec => []Inv
<1>1. QED
  BY InitInv, StepKeeps, PTL DEF Spec

(* drainSlackOutboundDeliveries: however drains overlap, Slack acknowledges a  *)
(* message once, and once more at most for each crash of the process.          *)
THEOREM AckedOnceHolds == Spec => []AckedOnce
<1>1. Inv => AckedOnce
  <2> SUFFICES ASSUME Inv, NEW k \in Keys PROVE acked[k] <= 1 + crashes
    BY DEF AckedOnce
  <2>1. acked[k] \in Nat /\ crashes \in Nat
    BY DEF Inv, Typed
  <2>2. acked[k] <= crashes + IF deliveries[k].status = "delivered" THEN 1 ELSE 0
    BY DEF Inv, AckedWhenDelivered
  <2>3. QED
    BY <2>1, <2>2
<1>2. QED
  BY <1>1, InvHolds, PTL

(* completeOutboundDelivery: a message that is on record as delivered, also    *)
(* after a restart, was acknowledged by Slack.                                 *)
THEOREM DeliveredWasAckedHolds == Spec => []DeliveredWasAcked
<1>1. Inv => DeliveredWasAcked
  BY DEF Inv, RecordsTrue, True, DeliveredWasAcked
<1>2. QED
  BY <1>1, InvHolds, PTL
=============================================================================
