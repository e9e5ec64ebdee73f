-------------------------- MODULE BatchStoreProofs --------------------------
(***************************************************************************)
(* The batch store for any number of batches, authors and tasks, any       *)
(* quotas and any times: quotas are conserved, what the cache holds is     *)
(* scheduled to expire, what the validator signed for does not go before   *)
(* it has expired, and a fetch that waits for a batch that is there is     *)
(* told.                                                                   *)
(***************************************************************************)
EXTENDS BatchStore, FiniteSetTheorems, TLAPS

BalancesOK ==
  /\ batch_balance \in [Peer -> 0 .. BatchQuota]
  /\ db_balance \in [Peer -> 0 .. DbQuota]
  /\ memory_balance \in [Peer -> 0 .. MemoryQuota]

(* One step of the system is one of these.                                 *)
TaskStep(t) ==
  \/ \E d \in Digest, e \in Expiration :
       persist(t, d, e) \/ get_or_fetch_batch(t, d, e)
  \/ insert_to_cache(t) \/ add_item(t) \/ save_batch(t) \/ finish(t)
  \/ subscribe(t) \/ get_batch_from_local(t)
  \/ request_batch(t) \/ request_failed(t)

SweeperStep(s) ==
  \/ \E time \in Certified : update_certified_timestamp(s, time)
  \/ \E d \in Digest : clear_expired_payload(s, d)
  \/ delete_batches(s)

FreeStep == \E s \in Remover, d \in Digest : free_quota(s, d)

(* What freeing quota leaves alone.                                        *)
LEMMA FreeEffect ==
  FreeStep => /\ up /\ UNCHANGED <<last_certified_time, db_cache, expirations, db>>
              /\ UNCHANGED <<persist_subscribers, notified, task, sweeper>>
              /\ UNCHANGED <<ledger_time, up, calls, restarts, signed>>
BY Zenon DEF FreeStep, free_quota

(* A task that is not idle is in a call.                                   *)
LEMMA ActiveTask ==
  ASSUME TypeOK, NEW t \in Task, task[t].pc # "idle"
  PROVE  /\ task[t] \in TaskState
         /\ task[t].digest \in Digest /\ task[t].expiration \in Time
<1>1. Idle.pc = "idle"
  BY DEF Idle
<1>2. task[t] \in TaskState
  BY <1>1, Zenon DEF TypeOK
<1> QED BY <1>2, Zenon DEF TaskState

(* A task's new state.                                                     *)
LEMMA GotoType ==
  ASSUME TypeOK, NEW t \in Task, task[t].pc # "idle",
         NEW pc \in {"insert", "add", "save", "finish", "subscribe", "look", "wait"},
         Goto(t, pc)
  PROVE  task' \in [Task -> TaskState \cup {Idle}]
<1>1. task[t] \in TaskState
  BY ActiveTask, Zenon
<1>2. [task[t] EXCEPT !.pc = pc] \in TaskState
  BY <1>1, Zenon DEF TaskState
<1> QED BY <1>2, Zenon DEF Goto, TypeOK

(* A call that ends is idle again.                                         *)
LEMMA ReturnType ==
  ASSUME TypeOK, NEW t \in Task, Return(t)
  PROVE  task' \in [Task -> TaskState \cup {Idle}]
BY Zenon DEF TypeOK, Return

(* notify_subscribers only moves fetches from the subscribers to the       *)
(* notified.                                                               *)
LEMMA NotifyType ==
  ASSUME TypeOK, NEW d \in Digest, notify_subscribers(d)
  PROVE  /\ notified' \subseteq Task
         /\ persist_subscribers' \in [Digest -> SUBSET Task]
BY Zenon DEF TypeOK, notify_subscribers

(* The calls of a task keep the types.                                     *)
LEMMA TaskType ==
  ASSUME TypeOK, BalancesOK', NEW t \in Task, TaskStep(t)
  PROVE  TypeOK'
<1> USE ConstantsAssumption
<1>0. task[t].pc # "idle" => /\ task[t] \in TaskState
                             /\ task[t].digest \in Digest
                             /\ task[t].expiration \in Time
  BY ActiveTask, Zenon
<1>1. ASSUME NEW d \in Digest, NEW e \in Expiration, persist(t, d, e)
      PROVE  TypeOK'
  <2>1. task' \in [Task -> TaskState \cup {Idle}]
    BY <1>1 DEF persist, TypeOK, TaskState, Time
  <2> QED BY <1>1, <2>1 DEF persist, TypeOK, balances, BalancesOK
<1>2. ASSUME NEW d \in Digest, NEW e \in Expiration, get_or_fetch_batch(t, d, e)
      PROVE  TypeOK'
  <2>1. task' \in [Task -> TaskState \cup {Idle}]
    BY <1>2 DEF get_or_fetch_batch, TypeOK, TaskState, Time
  <2> QED BY <1>2, <2>1 DEF get_or_fetch_batch, TypeOK, balances, BalancesOK
<1>3. CASE insert_to_cache(t)
  <2>1. task[t].pc # "idle"
    BY <1>3, Zenon DEF insert_to_cache
  <2>2. task' \in [Task -> TaskState \cup {Idle}]
    BY <1>3, <2>1, GotoType, ReturnType, Zenon DEF insert_to_cache
  <2>3. db_cache' \in [Digest -> Entry]
    <3>1. update_quota(task[t].digest) \in {"error", "memory", "db"}
      BY Zenon DEF update_quota
    <3>2. CASE UNCHANGED db_cache
      BY <3>2, Zenon DEF TypeOK
    <3>3. CASE db_cache' = [db_cache EXCEPT ![task[t].digest] =
                              [mode |-> update_quota(task[t].digest),
                               expiration |-> task[t].expiration]]
               /\ update_quota(task[t].digest) # "error"
      <4>1. [mode |-> update_quota(task[t].digest),
             expiration |-> task[t].expiration] \in Entry
        BY <1>0, <2>1, <3>1, <3>3, Zenon DEF Entry, Mode
      <4> QED BY <3>3, <4>1, Zenon DEF TypeOK
    <3> QED BY <1>3, <3>2, <3>3, Zenon DEF insert_to_cache
  <2>4. freeing' \in [Remover -> [Digest -> Mode \cup {"none"}]]
    <3>1. \/ UNCHANGED freeing
          \/ freeing' = [freeing EXCEPT !["insert"] =
               [freeing["insert"] EXCEPT ![task[t].digest] = db_cache[task[t].digest].mode]]
      BY <1>3, Zenon DEF insert_to_cache
    <3>2. "insert" \in Remover
      BY Zenon DEF Remover
    <3>3. [freeing["insert"] EXCEPT ![task[t].digest] = db_cache[task[t].digest].mode]
            \in [Digest -> Mode \cup {"none"}]
      BY <1>0, <2>1, <3>2, Zenon DEF TypeOK, Entry
    <3> QED BY <3>1, <3>2, <3>3, Zenon DEF TypeOK
  <2> QED BY <1>3, <2>2, <2>3, <2>4, Zenon DEF insert_to_cache, TypeOK, BalancesOK
<1>4. CASE add_item(t)
  <2>1. task[t].pc # "idle"
    BY <1>4, Zenon DEF add_item
  <2>2. task' \in [Task -> TaskState \cup {Idle}]
    BY <1>4, <2>1, GotoType, Zenon DEF add_item
  <2> QED BY <1>4, <1>0, <2>1, <2>2 DEF add_item, TypeOK, balances, BalancesOK
<1>5. CASE save_batch(t)
  <2>1. task[t].pc # "idle"
    BY <1>5, Zenon DEF save_batch
  <2>2. task' \in [Task -> TaskState \cup {Idle}]
    BY <1>5, <2>1, GotoType, Zenon DEF save_batch
  <2> QED BY <1>5, <1>0, <2>1, <2>2, Zenon DEF save_batch, TypeOK, balances, BalancesOK
<1>6. CASE finish(t)
  <2>1. task[t].pc # "idle"
    BY <1>6, Zenon DEF finish
  <2>2. task' \in [Task -> TaskState \cup {Idle}]
    BY <1>6, ReturnType, Zenon DEF finish
  <2>3. /\ notified' \subseteq Task
        /\ persist_subscribers' \in [Digest -> SUBSET Task]
    BY <1>6, <1>0, <2>1, NotifyType, Zenon DEF finish
  <2> QED BY <1>6, <1>0, <2>1, <2>2, <2>3 DEF finish, TypeOK, balances, BalancesOK
<1>7. CASE subscribe(t)
  <2>1. task[t].pc # "idle"
    BY <1>7, Zenon DEF subscribe
  <2>2. task' \in [Task -> TaskState \cup {Idle}]
    BY <1>7, <2>1, GotoType, Zenon DEF subscribe
  <2>3. /\ notified' \subseteq Task
        /\ persist_subscribers' \in [Digest -> SUBSET Task]
    BY <1>7, <1>0, <2>1, NotifyType, Zenon DEF subscribe, TypeOK
  <2> QED BY <1>7, <2>2, <2>3, Zenon DEF subscribe, TypeOK, balances, BalancesOK
<1>8. CASE get_batch_from_local(t)
  <2>1. task' \in [Task -> TaskState \cup {Idle}]
    BY <1>8, GotoType, ReturnType, Zenon DEF get_batch_from_local
  <2> QED BY <1>8, <2>1, Zenon DEF get_batch_from_local, TypeOK, balances, BalancesOK
<1>9. CASE request_batch(t)
  <2>1. task' \in [Task -> TaskState \cup {Idle}]
    BY <1>9, GotoType, ReturnType, Zenon DEF request_batch
  <2> QED BY <1>9, <2>1, Zenon DEF request_batch, TypeOK, balances, BalancesOK
<1>10. CASE request_failed(t)
  <2>1. task' \in [Task -> TaskState \cup {Idle}]
    BY <1>10, ReturnType, Zenon DEF request_failed
  <2> QED BY <1>10, <2>1, Zenon DEF request_failed, TypeOK, balances, BalancesOK
<1> QED BY <1>1, <1>2, <1>3, <1>4, <1>5, <1>6, <1>7, <1>8, <1>9, <1>10, Zenon
        DEF TaskStep

(* The sweeps keep them.                                                   *)
LEMMA SweeperType ==
  ASSUME TypeOK, BalancesOK', NEW s \in Sweeper, SweeperStep(s)
  PROVE  TypeOK'
<1> USE ConstantsAssumption
<1>0. sweeper[s].pc = "sweep" => sweeper[s] \in SweeperState
  BY DEF TypeOK, Idle
<1>1. ASSUME NEW time \in Certified, update_certified_timestamp(s, time)
      PROVE  TypeOK'
  <2>1. time \in Time /\ last_certified_time' \in Time /\ ledger_time' \in Time
    BY <1>1 DEF update_certified_timestamp, Time, Maximum, TypeOK
  <2> DEFINE due == {x \in expirations : Expired(x[2], time)}
             new == [pc |-> "sweep", time |-> time, todo |-> {x[1] : x \in due},
                     gone |-> {}]
  <2>2. {x[1] : x \in due} \subseteq Digest
    BY DEF TypeOK
  <2>3. new \in SweeperState
    BY <2>1, <2>2, Zenon DEF SweeperState
  <2>4. sweeper' = [sweeper EXCEPT ![s] = new] /\ expirations' = expirations \ due
    BY <1>1, Zenon DEF update_certified_timestamp
  <2>5. sweeper' \in [Sweeper -> SweeperState \cup {Idle}]
    <3> HIDE DEF new
    <3> QED BY <2>3, <2>4, Zenon DEF TypeOK
  <2> QED BY <1>1, <2>1, <2>4, <2>5, Zenon
          DEF update_certified_timestamp, TypeOK, balances, BalancesOK
<1>2. ASSUME NEW d \in Digest, clear_expired_payload(s, d)
      PROVE  TypeOK'
  <2>1. sweeper[s] \in SweeperState
    BY <1>0, <1>2, Zenon DEF clear_expired_payload
  <2>2. Swept(s, d, {}) \in SweeperState /\ Swept(s, d, {d}) \in SweeperState
    BY <2>1, Zenon DEF SweeperState, Swept
  <2>3. sweeper' \in [Sweeper -> SweeperState \cup {Idle}]
    <3>1. \/ UNCHANGED sweeper
          \/ sweeper' = [sweeper EXCEPT ![s] = Swept(s, d, {})]
          \/ sweeper' = [sweeper EXCEPT ![s] = Swept(s, d, {d})]
      BY <1>2, Zenon DEF clear_expired_payload
    <3> QED BY <2>2, <3>1, Zenon DEF TypeOK
  <2>4. db_cache' \in [Digest -> Entry]
    <3>1. UNCHANGED db_cache \/ db_cache' = [db_cache EXCEPT ![d] = None]
      BY <1>2, Zenon DEF clear_expired_payload
    <3>2. None \in Entry
      BY DEF None, Entry, Time
    <3> QED BY <3>1, <3>2, Zenon DEF TypeOK
  <2>5. db_cache[d].mode \in Mode \cup {"none"}
    BY Zenon DEF TypeOK, Entry
  <2>6. freeing' \in [Remover -> [Digest -> Mode \cup {"none"}]]
    <3>0. s \in Remover
      BY Zenon DEF Remover
    <3>1. \/ UNCHANGED freeing
          \/ freeing' = [freeing EXCEPT ![s] =
                           [freeing[s] EXCEPT ![d] = db_cache[d].mode]]
      BY <1>2, Zenon DEF clear_expired_payload
    <3>2. [freeing[s] EXCEPT ![d] = db_cache[d].mode] \in [Digest -> Mode \cup {"none"}]
      BY <2>5, <3>0, Zenon DEF TypeOK
    <3> QED BY <3>0, <3>1, <3>2, Zenon DEF TypeOK
  <2>7. up' \in BOOLEAN /\ persist_subscribers' \in [Digest -> SUBSET Task]
    BY <1>2, Zenon DEF clear_expired_payload, TypeOK
  <2> QED BY <1>2, <2>3, <2>4, <2>6, <2>7, Zenon
          DEF clear_expired_payload, TypeOK, balances, BalancesOK
<1>3. CASE delete_batches(s)
  <2>1. sweeper[s] \in SweeperState
    BY <1>0, <1>3, Zenon DEF delete_batches
  <2>2. db' \in [Digest -> Time] /\ ledger_time' \in Time
    BY <1>3, <2>1 DEF delete_batches, TypeOK, Time, Maximum, SweeperState
  <2> QED BY <1>3, <2>2, Zenon DEF delete_batches, TypeOK, balances, BalancesOK
<1> QED BY <1>1, <1>2, <1>3, Zenon DEF SweeperStep

(* Freeing what was removed keeps them.                                    *)
LEMMA FreeType ==
  ASSUME TypeOK, BalancesOK', FreeStep
  PROVE  TypeOK'
<1>1. freeing' \in [Remover -> [Digest -> Mode \cup {"none"}]]
  <2>1. PICK s \in Remover, d \in Digest : free_quota(s, d)
    BY Zenon DEF FreeStep
  <2>2. [freeing[s] EXCEPT ![d] = "none"] \in [Digest -> Mode \cup {"none"}]
    BY Zenon DEF TypeOK
  <2> QED BY <2>1, <2>2, Zenon DEF free_quota, TypeOK
<1> QED BY <1>1, FreeEffect, Zenon DEF TypeOK, BalancesOK

(* Building the store from the database keeps them.                        *)
LEMMA RestartType ==
  ASSUME TypeOK, BalancesOK', restart
  PROVE  TypeOK'
<1> USE ConstantsAssumption
<1>1. PICK memory \in SUBSET Kept : populate_cache(memory)
  BY Zenon DEF restart
<1>2. Kept \subseteq Digest
  BY Zenon DEF Kept
<1>3. db_cache' \in [Digest -> Entry]
  <2> SUFFICES ASSUME NEW d \in Digest PROVE db_cache'[d] \in Entry
    BY <1>1, Zenon DEF populate_cache
  <2>1. CASE d \notin Kept
    BY <1>1, <2>1 DEF populate_cache, None, Entry, Time
  <2>2. CASE d \in Kept
    BY <1>1, <2>2, Zenon DEF populate_cache, Entry, Mode, TypeOK
  <2> QED BY <2>1, <2>2, Zenon
<1>4. expirations' \subseteq Digest \X Time
  BY <1>1, <1>2 DEF populate_cache, TypeOK
<1>5. sweeper' \in [Sweeper -> SweeperState \cup {Idle}]
  <2> SUFFICES ASSUME NEW s \in Sweeper PROVE sweeper'[s] \in SweeperState \cup {Idle}
    BY <1>1, Zenon DEF populate_cache
  <2>1. [pc |-> "sweep", time |-> ledger_time, todo |-> {},
         gone |-> {d \in Digest \ Kept : db[d] # 0}] \in SweeperState
    BY Zenon DEF SweeperState, TypeOK
  <2> QED BY <1>1, <2>1, Zenon DEF populate_cache
<1>6. /\ last_certified_time' \in Time /\ ledger_time' \in Time
      /\ db' \in [Digest -> Time]
      /\ persist_subscribers' \in [Digest -> SUBSET Task]
      /\ notified' \subseteq Task /\ signed' \subseteq Digest \X Time
      /\ task' \in [Task -> TaskState \cup {Idle}]
      /\ freeing' \in [Remover -> [Digest -> Mode \cup {"none"}]]
      /\ calls' \in 0 .. MaxCalls /\ restarts' \in 0 .. MaxRestarts
  BY DEF restart, TypeOK
<1>7. up' \in BOOLEAN
  BY <1>1, Zenon DEF populate_cache
<1> QED BY <1>7, <1>3, <1>4, <1>5, <1>6, Zenon DEF TypeOK, BalancesOK

-----------------------------------------------------------------------------
(* There are finitely many places a value can be charged for.              *)
LEMMA SlotFinite ==
  \A S \in SUBSET Slot : IsFiniteSet(S) /\ Cardinality(S) \in Nat
<1>1. IsFiniteSet({"commit"}) /\ IsFiniteSet({"sync"})
      /\ IsFiniteSet({"startup"}) /\ IsFiniteSet({"insert"}) /\ IsFiniteSet({"cache"})
  BY FS_Singleton, Zenon
<1>2. IsFiniteSet({"commit"} \cup {"sync"} \cup {"startup"} \cup {"insert"} \cup {"cache"})
  BY <1>1, FS_AddElement, Zenon
<1>3. Remover \cup {"cache"}
        = {"commit"} \cup {"sync"} \cup {"startup"} \cup {"insert"} \cup {"cache"}
  BY DEF Remover, Sweeper
<1>4. IsFiniteSet(Slot)
  BY <1>2, <1>3, ConstantsAssumption, FS_Product, Zenon DEF Slot
<1> QED BY <1>4, FS_Subset, FS_CardinalityType

(* How the sums change with one slot.                                      *)
LEMMA OneSlot ==
  ASSUME NEW S \in SUBSET Slot, NEW T \in SUBSET Slot, NEW x \in Slot,
         S \ {x} = T \ {x}
  PROVE  /\ Bytes[S] \in Nat /\ Bytes[T] \in Nat /\ Size[x[2]] \in Nat
         /\ Cardinality(S) \in Nat /\ Cardinality(T) \in Nat
         /\ Bytes[T] + (IF x \in S THEN Size[x[2]] ELSE 0)
              = Bytes[S] + (IF x \in T THEN Size[x[2]] ELSE 0)
         /\ Cardinality(T) + (IF x \in S THEN 1 ELSE 0)
              = Cardinality(S) + (IF x \in T THEN 1 ELSE 0)
<1>1. x[2] \in Digest /\ Size[x[2]] \in Nat
  BY ConstantsAssumption, Zenon DEF Slot
<1>2. ASSUME NEW U \in SUBSET Slot
      PROVE  /\ Bytes[U] \in Nat /\ Cardinality(U) \in Nat
             /\ Bytes[U] = Bytes[U \ {x}] + (IF x \in U THEN Size[x[2]] ELSE 0)
             /\ Cardinality(U)
                  = Cardinality(U \ {x}) + (IF x \in U THEN 1 ELSE 0)
  <2>1. U \ {x} \in SUBSET Slot /\ x \in Slot \ (U \ {x})
    OBVIOUS
  <2>2. /\ Bytes[U] \in Nat /\ Bytes[U \ {x}] \in Nat
        /\ Bytes[(U \ {x}) \cup {x}] = Bytes[U \ {x}] + Size[x[2]]
    BY <2>1, BytesAssumption, Zenon
  <2>3. /\ IsFiniteSet(U \ {x})
        /\ Cardinality(U) \in Nat /\ Cardinality(U \ {x}) \in Nat
    BY <2>1, SlotFinite, Zenon
  <2>4. Cardinality((U \ {x}) \cup {x}) = Cardinality(U \ {x}) + 1
    BY <2>1, <2>3, FS_AddElement, Zenon
  <2>5. CASE x \in U
    <3>1. (U \ {x}) \cup {x} = U
      BY <2>5, Zenon
    <3> QED BY <2>2, <2>3, <2>4, <2>5, <3>1, Zenon
  <2>6. CASE x \notin U
    <3>1. U \ {x} = U
      BY <2>6, Zenon
    <3>2. Bytes[U] = Bytes[U] + 0 /\ Cardinality(U) = Cardinality(U) + 0
      BY <2>2, <2>3
    <3> QED BY <2>2, <2>3, <2>6, <3>1, <3>2, Zenon
  <2> QED BY <2>5, <2>6, Zenon
<1>3. /\ Bytes[S \ {x}] \in Nat /\ Cardinality(S \ {x}) \in Nat
  BY <1>2, Zenon
<1>4. /\ Bytes[S] \in Nat /\ Cardinality(S) \in Nat
      /\ Bytes[S] = Bytes[S \ {x}] + (IF x \in S THEN Size[x[2]] ELSE 0)
      /\ Cardinality(S) = Cardinality(S \ {x}) + (IF x \in S THEN 1 ELSE 0)
  BY <1>2, Zenon
<1>5. /\ Bytes[T] \in Nat /\ Cardinality(T) \in Nat
      /\ Bytes[T] = Bytes[S \ {x}] + (IF x \in T THEN Size[x[2]] ELSE 0)
      /\ Cardinality(T) = Cardinality(S \ {x}) + (IF x \in T THEN 1 ELSE 0)
  BY <1>2, Zenon
<1> QED BY <1>1, <1>3, <1>4, <1>5

(* A value that moves to another slot of its digest keeps the sums.        *)
LEMMA MovedSlot ==
  ASSUME NEW S \in SUBSET Slot, NEW U \in SUBSET Slot, NEW c \in Slot, NEW f \in Slot,
         c # f, c[2] = f[2], c \in S <=> f \in U, c \notin U, f \notin S,
         S \ {c, f} = U \ {c, f}
  PROVE  /\ Bytes[S] \in Nat /\ Cardinality(S) \in Nat
         /\ Bytes[U] = Bytes[S] /\ Cardinality(U) = Cardinality(S)
<1> DEFINE T == S \ {c}
<1>1. T \in SUBSET Slot /\ S \ {c} = T \ {c} /\ c \notin T /\ f \notin T
  BY Zenon
<1>2. T \ {f} = U \ {f}
  BY Zenon
<1> HIDE DEF T
<1>3. /\ Bytes[S] \in Nat /\ Bytes[T] \in Nat /\ Size[c[2]] \in Nat
      /\ Cardinality(S) \in Nat /\ Cardinality(T) \in Nat
      /\ Bytes[T] + (IF c \in S THEN Size[c[2]] ELSE 0) = Bytes[S]
      /\ Cardinality(T) + (IF c \in S THEN 1 ELSE 0) = Cardinality(S)
  BY <1>1, OneSlot
<1>4. /\ Bytes[U] \in Nat /\ Cardinality(U) \in Nat
      /\ Bytes[U] = Bytes[T] + (IF f \in U THEN Size[f[2]] ELSE 0)
      /\ Cardinality(U) = Cardinality(T) + (IF f \in U THEN 1 ELSE 0)
  BY <1>1, <1>2, OneSlot
<1> QED BY <1>3, <1>4, Zenon

(* The sums of what an author is charged for change by what Charge(d, new, *)
(* old) takes and gives.                                                   *)
SumsChange(d, new, old) ==
  \A a \in Peer : \A modes \in {Mode, {"memory"}} :
    /\ Bytes[Charged(a, modes)] \in Nat /\ Bytes[Charged(a, modes)'] \in Nat
    /\ Cardinality(Charged(a, modes)) \in Nat /\ Cardinality(Charged(a, modes)') \in Nat
    /\ Bytes[Charged(a, modes)']
         + (IF Author[d] = a /\ old \in modes THEN Size[d] ELSE 0)
       = Bytes[Charged(a, modes)]
         + (IF Author[d] = a /\ new \in modes THEN Size[d] ELSE 0)
    /\ Cardinality(Charged(a, modes)')
         + (IF Author[d] = a /\ old \in modes THEN 1 ELSE 0)
       = Cardinality(Charged(a, modes))
         + (IF Author[d] = a /\ new \in modes THEN 1 ELSE 0)

(* The balances then still account for the sums.                           *)
LEMMA Balanced ==
  ASSUME TypeOK, QuotaConserved, up, NEW d \in Digest,
         NEW new \in Mode \cup {"none"}, NEW old \in Mode \cup {"none"}, Charge(d, new, old),
         new # "none" => batch_balance[Author[d]] # 0 /\ db_balance[Author[d]] >= Size[d],
         new = "memory" => memory_balance[Author[d]] >= Size[d],
         SumsChange(d, new, old)
  PROVE  QuotaConserved' /\ BalancesOK'
<1>1. Author[d] \in Peer /\ Size[d] \in Nat
  BY ConstantsAssumption, Zenon
<1>2. ASSUME NEW a \in Peer
      PROVE  /\ batch_balance'[a] \in 0 .. BatchQuota
             /\ db_balance'[a] \in 0 .. DbQuota
             /\ memory_balance'[a] \in 0 .. MemoryQuota
             /\ batch_balance'[a] + Cardinality(Charged(a, Mode)') = BatchQuota
             /\ db_balance'[a] + Bytes[Charged(a, Mode)'] = DbQuota
             /\ memory_balance'[a] + Bytes[Charged(a, {"memory"})'] = MemoryQuota
  <2> DEFINE Bytes0(modes) == Bytes[Charged(a, modes)]
             Bytes1(modes) == Bytes[Charged(a, modes)']
             Count0 == Cardinality(Charged(a, Mode))
             Count1 == Cardinality(Charged(a, Mode)')
  <2>1. /\ batch_balance[a] \in Nat /\ db_balance[a] \in Nat /\ memory_balance[a] \in Nat
        /\ BatchQuota \in Nat /\ DbQuota \in Nat /\ MemoryQuota \in Nat
        /\ batch_balance[a] + Count0 = BatchQuota
        /\ db_balance[a] + Bytes0(Mode) = DbQuota
        /\ memory_balance[a] + Bytes0({"memory"}) = MemoryQuota
    BY ConstantsAssumption DEF TypeOK, QuotaConserved
  <2>2. /\ Bytes0(Mode) \in Nat /\ Bytes1(Mode) \in Nat /\ Count0 \in Nat /\ Count1 \in Nat
        /\ Bytes0({"memory"}) \in Nat /\ Bytes1({"memory"}) \in Nat
    BY Zenon DEF SumsChange
  <2>3. ASSUME NEW modes \in {Mode, {"memory"}}
        PROVE  Bytes1(modes) + (IF Author[d] = a /\ old \in modes THEN Size[d] ELSE 0)
                 = Bytes0(modes) + (IF Author[d] = a /\ new \in modes THEN Size[d] ELSE 0)
    BY Zenon DEF SumsChange
  <2>4. Count1 + (IF Author[d] = a /\ old \in Mode THEN 1 ELSE 0)
          = Count0 + (IF Author[d] = a /\ new \in Mode THEN 1 ELSE 0)
    BY Zenon DEF SumsChange
  <2> HIDE DEF Bytes0, Bytes1, Count0, Count1
  <2>5. CASE Author[d] # a
    <3>1. /\ batch_balance'[a] = batch_balance[a] /\ db_balance'[a] = db_balance[a]
          /\ memory_balance'[a] = memory_balance[a]
      BY <1>1, <2>5, Zenon DEF Charge, TypeOK
    <3>2. /\ Count1 + 0 = Count0 + 0 /\ Bytes1(Mode) + 0 = Bytes0(Mode) + 0
          /\ Bytes1({"memory"}) + 0 = Bytes0({"memory"}) + 0
      BY <2>3, <2>4, <2>5, Zenon
    <3>3. /\ batch_balance[a] \in 0 .. BatchQuota /\ batch_balance[a] + Count1 = BatchQuota
          /\ db_balance[a] \in 0 .. DbQuota /\ db_balance[a] + Bytes1(Mode) = DbQuota
          /\ memory_balance[a] \in 0 .. MemoryQuota
          /\ memory_balance[a] + Bytes1({"memory"}) = MemoryQuota
      BY <2>1, <2>2, <3>2
    <3> QED BY <3>1, <3>3, Zenon DEF Bytes1, Count1
  <2>6. CASE Author[d] = a
    <3>1. /\ batch_balance'[a] = batch_balance[a] - Count(new) + Count(old)
          /\ db_balance'[a] = db_balance[a] - Held(d, new, Mode) + Held(d, old, Mode)
          /\ memory_balance'[a] = memory_balance[a] - Held(d, new, {"memory"})
                                                    + Held(d, old, {"memory"})
      BY <1>1, <2>6, Zenon DEF Charge, TypeOK
    <3>2. ASSUME NEW m, NEW modes
          PROVE  /\ Held(d, m, modes) = IF Author[d] = a /\ m \in modes THEN Size[d] ELSE 0
                 /\ Held(d, m, modes) \in Nat
      BY <1>1, <2>6 DEF Held
    <3>3. ASSUME NEW m
          PROVE  /\ Count(m) = IF Author[d] = a /\ m \in Mode THEN 1 ELSE 0
                 /\ Count(m) \in Nat
      BY <2>6 DEF Count
    <3>4. /\ Count1 + Count(old) = Count0 + Count(new)
          /\ Bytes1(Mode) + Held(d, old, Mode) = Bytes0(Mode) + Held(d, new, Mode)
          /\ Bytes1({"memory"}) + Held(d, old, {"memory"})
               = Bytes0({"memory"}) + Held(d, new, {"memory"})
      BY <2>3, <2>4, <3>2, <3>3, Zenon
    <3>5. /\ Count(new) <= batch_balance[a] /\ Held(d, new, Mode) <= db_balance[a]
          /\ Held(d, new, {"memory"}) <= memory_balance[a]
      BY <1>1, <2>1, <2>6 DEF Count, Held, Mode
    <3>6. /\ batch_balance'[a] \in 0 .. BatchQuota /\ batch_balance'[a] + Count1 = BatchQuota
          /\ db_balance'[a] \in 0 .. DbQuota /\ db_balance'[a] + Bytes1(Mode) = DbQuota
          /\ memory_balance'[a] \in 0 .. MemoryQuota
          /\ memory_balance'[a] + Bytes1({"memory"}) = MemoryQuota
      <4>1. /\ batch_balance'[a] \in 0 .. BatchQuota
            /\ batch_balance'[a] + Count1 = BatchQuota
        <5>1. /\ Count(new) \in Nat /\ Count(old) \in Nat
              /\ Count0 \in Nat /\ Count1 \in Nat
              /\ batch_balance[a] \in Nat /\ BatchQuota \in Nat
          BY <2>1, <2>2, <3>3, Zenon
        <5>2. /\ batch_balance'[a] = batch_balance[a] - Count(new) + Count(old)
              /\ batch_balance[a] + Count0 = BatchQuota
              /\ Count1 + Count(old) = Count0 + Count(new)
              /\ Count(new) <= batch_balance[a]
          BY <2>1, <3>1, <3>4, <3>5, Zenon
        <5> QED BY <5>1, <5>2
      <4>2. /\ db_balance'[a] \in 0 .. DbQuota
            /\ db_balance'[a] + Bytes1(Mode) = DbQuota
        <5>1. /\ Held(d, new, Mode) \in Nat /\ Held(d, old, Mode) \in Nat
              /\ Bytes0(Mode) \in Nat /\ Bytes1(Mode) \in Nat
              /\ db_balance[a] \in Nat /\ DbQuota \in Nat
          BY <2>1, <2>2, <3>2, Zenon
        <5>2. /\ db_balance'[a] = db_balance[a] - Held(d, new, Mode) + Held(d, old, Mode)
              /\ db_balance[a] + Bytes0(Mode) = DbQuota
              /\ Bytes1(Mode) + Held(d, old, Mode) = Bytes0(Mode) + Held(d, new, Mode)
              /\ Held(d, new, Mode) <= db_balance[a]
          BY <2>1, <3>1, <3>4, <3>5, Zenon
        <5> QED BY <5>1, <5>2
      <4>3. /\ memory_balance'[a] \in 0 .. MemoryQuota
            /\ memory_balance'[a] + Bytes1({"memory"}) = MemoryQuota
        <5>1. /\ Held(d, new, {"memory"}) \in Nat /\ Held(d, old, {"memory"}) \in Nat
              /\ Bytes0({"memory"}) \in Nat /\ Bytes1({"memory"}) \in Nat
              /\ memory_balance[a] \in Nat /\ MemoryQuota \in Nat
          BY <2>1, <2>2, <3>2, Zenon
        <5>2. /\ memory_balance'[a] = memory_balance[a] - Held(d, new, {"memory"}) + Held(d, old, {"memory"})
              /\ memory_balance[a] + Bytes0({"memory"}) = MemoryQuota
              /\ Bytes1({"memory"}) + Held(d, old, {"memory"}) = Bytes0({"memory"}) + Held(d, new, {"memory"})
              /\ Held(d, new, {"memory"}) <= memory_balance[a]
          BY <2>1, <3>1, <3>4, <3>5, Zenon
        <5> QED BY <5>1, <5>2
      <4> QED BY <4>1, <4>2, <4>3, Zenon
    <3> QED BY <3>6, Zenon DEF Bytes1, Count1
  <2> QED BY <2>5, <2>6, Zenon
<1>3. BalancesOK'
  <2>1. /\ batch_balance' = [a \in Peer |-> batch_balance'[a]]
        /\ db_balance' = [a \in Peer |-> db_balance'[a]]
        /\ memory_balance' = [a \in Peer |-> memory_balance'[a]]
    BY Zenon DEF Charge, TypeOK
  <2> QED BY <1>2, <2>1, Zenon DEF BalancesOK
<1> QED BY <1>2, <1>3, Zenon DEF QuotaConserved

(* What leaves the slots and the balances alone.                           *)
LEMMA QuotaUnchanged ==
  ASSUME TypeOK, QuotaConserved, up, UNCHANGED <<db_cache, freeing, balances>>
  PROVE  QuotaConserved' /\ BalancesOK'
<1>1. \A a, modes : Charged(a, modes)' = Charged(a, modes)
  BY Zenon DEF Charged, ModeAt
<1> QED BY <1>1, Zenon DEF QuotaConserved, BalancesOK, TypeOK, balances

(* insert_to_cache charges the new value and holds the one it replaces.    *)
LEMMA InsertQuota ==
  ASSUME TypeOK, QuotaConserved, NEW t \in Task, insert_to_cache(t)
  PROVE  QuotaConserved' /\ BalancesOK'
<1>2. PICK d \in Digest : d = task[t].digest
  BY ActiveTask, Zenon DEF insert_to_cache
<1>1. up /\ freeing["insert"][d] = "none"
  BY <1>2, Zenon DEF insert_to_cache, Locked
<1>3. PICK new \in {"error"} \cup Mode : new = update_quota(d)
  BY Zenon DEF update_quota, Mode
<1>4. CASE UNCHANGED <<db_cache, balances, freeing>>
  BY <1>1, <1>4, QuotaUnchanged, Zenon
<1>5. CASE /\ new # "error"
           /\ db_cache' = [db_cache EXCEPT ![d] = [mode |-> new,
                                                   expiration |-> task[t].expiration]]
           /\ Charge(d, new, "none")
           /\ freeing' = [freeing EXCEPT !["insert"] =
                            [freeing["insert"] EXCEPT ![d] = db_cache[d].mode]]
  <2> DEFINE c == <<"cache", d>>
             f == <<"insert", d>>
  <2>1. /\ c \in Slot /\ c[1] = "cache" /\ c[2] = d
        /\ f \in Slot /\ f[1] = "insert" /\ f[2] = d /\ c # f /\ "insert" \in Remover
    BY Zenon DEF Slot, Remover
  <2>2. ModeAt(c)' = new /\ ModeAt(f) = "none" /\ ModeAt(f)' = ModeAt(c)
    BY <1>1, <1>5, <2>1, Zenon DEF ModeAt, TypeOK
  <2>3. ASSUME NEW y \in Slot \ {c, f} PROVE ModeAt(y)' = ModeAt(y)
    <3>1. y[1] \in Remover \cup {"cache"} /\ y[2] \in Digest /\ y = <<y[1], y[2]>>
      BY DEF Slot
    <3>2. (y[1] # "insert" /\ y[1] # "cache") \/ y[2] # d
      BY <3>1, Zenon
    <3> QED BY <1>5, <2>1, <3>1, <3>2, Zenon DEF ModeAt, TypeOK
  <2>4. ASSUME NEW a \in Peer, NEW modes, "none" \notin modes
        PROVE  /\ Bytes[Charged(a, modes)] \in Nat /\ Bytes[Charged(a, modes)'] \in Nat
               /\ Cardinality(Charged(a, modes)) \in Nat
               /\ Cardinality(Charged(a, modes)') \in Nat
               /\ Bytes[Charged(a, modes)'] = Bytes[Charged(a, modes)]
                    + (IF Author[d] = a /\ new \in modes THEN Size[d] ELSE 0)
               /\ Cardinality(Charged(a, modes)') = Cardinality(Charged(a, modes))
                    + (IF Author[d] = a /\ new \in modes THEN 1 ELSE 0)
    <3> DEFINE S == Charged(a, modes)
               U == Charged(a, modes)'
               W == U \ {c}
    <3>1. S \in SUBSET Slot /\ U \in SUBSET Slot /\ W \in SUBSET Slot
      BY Zenon DEF Charged
    <3>2. /\ c \in S <=> Author[d] = a /\ ModeAt(c) \in modes
          /\ f \in U <=> Author[d] = a /\ ModeAt(c) \in modes
          /\ c \in U <=> Author[d] = a /\ new \in modes
          /\ f \notin S
      BY <2>1, <2>2, <2>4, Zenon DEF Charged
    <3>3. S \ {c, f} = W \ {c, f}
      <4>1. \A y \in Slot \ {c, f} : y \in S <=> y \in U
        BY <2>3, Zenon DEF Charged
      <4> HIDE DEF S, U, c, f
      <4> QED BY <3>1, <4>1, Zenon
    <3>4. c \notin W /\ (c \in S <=> f \in W) /\ W \ {c} = U \ {c}
      BY <2>1, <3>2, Zenon
    <3> HIDE DEF S, U, W, c, f
    <3>5. /\ Bytes[S] \in Nat /\ Cardinality(S) \in Nat
          /\ Bytes[W] = Bytes[S] /\ Cardinality(W) = Cardinality(S)
      BY <2>1, <3>1, <3>2, <3>3, <3>4, MovedSlot, Zenon
    <3>6. /\ Bytes[U] \in Nat /\ Cardinality(U) \in Nat
          /\ Bytes[U] = Bytes[W] + (IF c \in U THEN Size[d] ELSE 0)
          /\ Cardinality(U) = Cardinality(W) + (IF c \in U THEN 1 ELSE 0)
      BY <2>1, <3>1, <3>4, OneSlot
    <3>7. /\ Bytes[U] = Bytes[S] + (IF Author[d] = a /\ new \in modes THEN Size[d] ELSE 0)
          /\ Cardinality(U)
               = Cardinality(S) + (IF Author[d] = a /\ new \in modes THEN 1 ELSE 0)
      BY <3>2, <3>5, <3>6, Zenon
    <3> QED BY <3>5, <3>6, <3>7, Zenon DEF S, U
  <2>5. /\ batch_balance[Author[d]] # 0 /\ ~(db_balance[Author[d]] < Size[d])
        /\ new = "memory" => memory_balance[Author[d]] >= Size[d]
    BY <1>3, <1>5, Zenon DEF update_quota, Mode
  <2>6. db_balance[Author[d]] \in Int /\ Size[d] \in Int
    BY ConstantsAssumption DEF TypeOK
  <2>7. db_balance[Author[d]] >= Size[d]
    BY <2>5, <2>6
  <2>8. SumsChange(d, new, "none")
    <3> SUFFICES ASSUME NEW a \in Peer, NEW modes \in {Mode, {"memory"}}
                 PROVE  /\ Bytes[Charged(a, modes)] \in Nat
                        /\ Bytes[Charged(a, modes)'] \in Nat
                        /\ Cardinality(Charged(a, modes)) \in Nat
                        /\ Cardinality(Charged(a, modes)') \in Nat
                        /\ Bytes[Charged(a, modes)']
                             + (IF Author[d] = a /\ "none" \in modes THEN Size[d] ELSE 0)
                           = Bytes[Charged(a, modes)]
                             + (IF Author[d] = a /\ new \in modes THEN Size[d] ELSE 0)
                        /\ Cardinality(Charged(a, modes)')
                             + (IF Author[d] = a /\ "none" \in modes THEN 1 ELSE 0)
                           = Cardinality(Charged(a, modes))
                             + (IF Author[d] = a /\ new \in modes THEN 1 ELSE 0)
      BY Zenon DEF SumsChange
    <3>1. "none" \notin modes
      <4>1. "none" \notin Mode /\ "none" \notin {"memory"}
        BY DEF Mode
      <4> QED BY <4>1, Zenon
    <3> DEFINE S == Charged(a, modes)
               U == Charged(a, modes)'
    <3>2. /\ Bytes[S] \in Nat /\ Bytes[U] \in Nat
          /\ Cardinality(S) \in Nat /\ Cardinality(U) \in Nat
          /\ Bytes[U] = Bytes[S] + (IF Author[d] = a /\ new \in modes THEN Size[d] ELSE 0)
          /\ Cardinality(U)
               = Cardinality(S) + (IF Author[d] = a /\ new \in modes THEN 1 ELSE 0)
      BY <2>4, <3>1, Zenon
    <3> HIDE DEF S, U
    <3>3. Bytes[U] + 0 = Bytes[U] /\ Cardinality(U) + 0 = Cardinality(U)
      BY <3>2
    <3> QED BY <3>1, <3>2, <3>3, Zenon DEF S, U
  <2>9. new \in Mode \cup {"none"}
    BY <1>5, Zenon
  <2> QED BY <1>1, <1>5, <2>5, <2>7, <2>8, <2>9, Balanced, Zenon
<1> QED BY <1>2, <1>3, <1>4, <1>5, Zenon DEF insert_to_cache

(* What an insert or a sweep took from the cache is freed.                 *)
LEMMA FreeQuota ==
  ASSUME TypeOK, QuotaConserved, NEW s \in Remover, NEW d \in Digest, free_quota(s, d)
  PROVE  QuotaConserved' /\ BalancesOK'
<1> DEFINE x == <<s, d>>
<1>1. /\ up /\ UNCHANGED db_cache /\ Charge(d, "none", freeing[s][d])
      /\ freeing' = [freeing EXCEPT ![s] = [freeing[s] EXCEPT ![d] = "none"]]
  BY Zenon DEF free_quota
<1>2. x \in Slot /\ x[1] = s /\ x[2] = d /\ s # "cache"
  BY Zenon DEF Slot, Remover, Sweeper
<1>3. ModeAt(x) = freeing[s][d] /\ ModeAt(x)' = "none"
  BY <1>1, <1>2, Zenon DEF ModeAt, TypeOK
<1>4. ASSUME NEW y \in Slot \ {x} PROVE ModeAt(y)' = ModeAt(y)
  <2>1. y[1] \in Remover \cup {"cache"} /\ y[2] \in Digest /\ y = <<y[1], y[2]>>
    BY DEF Slot
  <2>2. y[1] # s \/ y[2] # d
    BY <2>1, Zenon
  <2> QED BY <1>1, <2>1, <2>2, Zenon DEF ModeAt, TypeOK
<1>5. ASSUME NEW a \in Peer, NEW modes
      PROVE  /\ Bytes[Charged(a, modes)] \in Nat /\ Bytes[Charged(a, modes)'] \in Nat
             /\ Cardinality(Charged(a, modes)) \in Nat
             /\ Cardinality(Charged(a, modes)') \in Nat
             /\ Bytes[Charged(a, modes)']
                  + (IF Author[d] = a /\ freeing[s][d] \in modes THEN Size[d] ELSE 0)
                = Bytes[Charged(a, modes)]
                  + (IF Author[d] = a /\ "none" \in modes THEN Size[d] ELSE 0)
             /\ Cardinality(Charged(a, modes)')
                  + (IF Author[d] = a /\ freeing[s][d] \in modes THEN 1 ELSE 0)
                = Cardinality(Charged(a, modes))
                  + (IF Author[d] = a /\ "none" \in modes THEN 1 ELSE 0)
  <2> DEFINE S == Charged(a, modes)
             U == Charged(a, modes)'
  <2>1. /\ x \in S <=> Author[d] = a /\ freeing[s][d] \in modes
        /\ x \in U <=> Author[d] = a /\ "none" \in modes
        /\ \A y \in Slot \ {x} : y \in S <=> y \in U
        /\ S \in SUBSET Slot /\ U \in SUBSET Slot
    BY <1>2, <1>3, <1>4, Zenon DEF Charged
  <2> HIDE DEF S, U, x
  <2>2. S \ {x} = U \ {x}
    BY <2>1, Zenon
  <2>3. /\ Bytes[S] \in Nat /\ Bytes[U] \in Nat
        /\ Cardinality(S) \in Nat /\ Cardinality(U) \in Nat
        /\ Bytes[U] + (IF x \in S THEN Size[d] ELSE 0)
             = Bytes[S] + (IF x \in U THEN Size[d] ELSE 0)
        /\ Cardinality(U) + (IF x \in S THEN 1 ELSE 0)
             = Cardinality(S) + (IF x \in U THEN 1 ELSE 0)
    BY <1>2, <2>1, <2>2, OneSlot
  <2> QED BY <2>1, <2>3, Zenon DEF S, U
<1>6. SumsChange(d, "none", freeing[s][d])
  BY <1>5, Zenon DEF SumsChange
<1>7. freeing[s][d] \in Mode \cup {"none"}
  BY DEF TypeOK
<1> QED BY <1>1, <1>6, <1>7, Balanced, Zenon

(* A sweep takes a value out of the cache, and holds it until it frees its *)
(* quota.                                                                  *)
LEMMA ClearQuota ==
  ASSUME TypeOK, QuotaConserved, NEW s \in Sweeper, NEW d \in Digest,
         clear_expired_payload(s, d)
  PROVE  QuotaConserved' /\ BalancesOK'
<1> DEFINE c == <<"cache", d>>
           f == <<s, d>>
<1>1. up /\ freeing[s][d] = "none" /\ UNCHANGED balances
  BY Zenon DEF clear_expired_payload
<1>2. CASE UNCHANGED <<db_cache, freeing>>
  BY <1>1, <1>2, QuotaUnchanged, Zenon
<1>3. CASE /\ db_cache' = [db_cache EXCEPT ![d] = None]
           /\ freeing' = [freeing EXCEPT ![s] = [freeing[s] EXCEPT ![d] = db_cache[d].mode]]
  <2>1. /\ c \in Slot /\ c[1] = "cache" /\ c[2] = d
        /\ f \in Slot /\ f[1] = s /\ f[2] = d /\ s # "cache" /\ s \in Remover
    BY Zenon DEF Slot, Remover, Sweeper
  <2>2. /\ ModeAt(c)' = "none" /\ ModeAt(f) = "none"
        /\ ModeAt(f)' = ModeAt(c)
    BY <1>1, <1>3, <2>1, Zenon DEF ModeAt, TypeOK, None
  <2>3. ASSUME NEW y \in Slot \ {c, f} PROVE ModeAt(y)' = ModeAt(y)
    <3>1. y[1] \in Remover \cup {"cache"} /\ y[2] \in Digest /\ y = <<y[1], y[2]>>
      BY DEF Slot
    <3>2. (y[1] # s /\ y[1] # "cache") \/ y[2] # d
      BY <3>1, Zenon
    <3> QED BY <1>3, <2>1, <3>1, <3>2, Zenon DEF ModeAt, TypeOK
  <2>4. ASSUME NEW a \in Peer, NEW modes, "none" \notin modes
        PROVE  /\ Bytes[Charged(a, modes)'] = Bytes[Charged(a, modes)]
               /\ Cardinality(Charged(a, modes)') = Cardinality(Charged(a, modes))
    <3> DEFINE S == Charged(a, modes)
               U == Charged(a, modes)'
    <3>1. S \in SUBSET Slot /\ U \in SUBSET Slot
      BY Zenon DEF Charged
    <3>2. /\ c \in S <=> Author[d] = a /\ ModeAt(c) \in modes
          /\ f \in U <=> Author[d] = a /\ ModeAt(c) \in modes
          /\ c \notin U /\ f \notin S
      BY <2>1, <2>2, <2>4, Zenon DEF Charged
    <3>3. S \ {c, f} = U \ {c, f} /\ c # f
      <4>1. \A y \in Slot \ {c, f} : y \in S <=> y \in U
        BY <2>3, Zenon DEF Charged
      <4>2. c # f
        BY <2>1, Zenon
      <4> HIDE DEF S, U, c, f
      <4> QED BY <3>1, <4>1, <4>2, Zenon
    <3> HIDE DEF S, U, c, f
    <3>4. Bytes[U] = Bytes[S] /\ Cardinality(U) = Cardinality(S)
      BY <2>1, <3>1, <3>2, <3>3, MovedSlot, Zenon
    <3> QED BY <3>4, Zenon DEF S, U
  <2>5. "none" \notin Mode /\ "none" \notin {"memory"}
    BY Zenon DEF Mode
  <2> QED BY <1>1, <2>4, <2>5, Zenon DEF QuotaConserved, BalancesOK, TypeOK, balances, clear_expired_payload
<1>4. CASE up' = FALSE /\ UNCHANGED balances
  BY <1>4, Zenon DEF QuotaConserved, BalancesOK, TypeOK, balances
<1> QED BY <1>1, <1>2, <1>3, <1>4, Zenon DEF clear_expired_payload

(* A store that was built charges for what it took from the database.      *)
LEMMA RestartQuota ==
  ASSUME TypeOK, restart
  PROVE  QuotaConserved' /\ BalancesOK'
<1>1. PICK memory \in SUBSET Kept : populate_cache(memory)
  BY Zenon DEF restart
<1> DEFINE M(a) == Cached(memory, a)
           K(a) == Cached(Kept, a)
<1>2. ASSUME NEW a \in Peer
      PROVE  /\ K(a) \in SUBSET Slot /\ M(a) \in SUBSET Slot
             /\ K(a) = Charged(a, Mode)' /\ M(a) = Charged(a, {"memory"})'
  <2>1. K(a) \in SUBSET Slot /\ M(a) \in SUBSET Slot
    BY Zenon DEF Cached, Slot, Kept
  <2>2. ASSUME NEW x \in Slot
        PROVE  ModeAt(x)' = IF x[1] = "cache" /\ x[2] \in Kept
                            THEN IF x[2] \in memory THEN "memory" ELSE "db"
                            ELSE "none"
    <3>1. x[1] \in Remover \cup {"cache"} /\ x[2] \in Digest
      BY Zenon DEF Slot
    <3>2. CASE x[1] = "cache"
      BY <1>1, <3>1, <3>2, Zenon DEF ModeAt, populate_cache, None
    <3>3. CASE x[1] # "cache"
      BY <3>1, <3>3, Zenon DEF ModeAt, restart
    <3> QED BY <3>2, <3>3, Zenon
  <2>3. ASSUME NEW x \in Slot
        PROVE  /\ x \in K(a) <=> Author[x[2]] = a /\ x[1] = "cache" /\ x[2] \in Kept
               /\ x \in M(a) <=> Author[x[2]] = a /\ x[1] = "cache" /\ x[2] \in memory
    BY Zenon DEF Cached, Slot, Kept
  <2>4. \A x \in Slot : /\ x \in K(a) <=> x \in Charged(a, Mode)'
                        /\ x \in M(a) <=> x \in Charged(a, {"memory"})'
    BY <2>2, <2>3, Zenon DEF Charged, Mode
  <2>5. Charged(a, Mode)' \in SUBSET Slot /\ Charged(a, {"memory"})' \in SUBSET Slot
    BY Zenon DEF Charged
  <2> HIDE DEF K, M
  <2> QED BY <2>1, <2>4, <2>5, Zenon
<1> HIDE DEF K, M
<1>3. ASSUME NEW a \in Peer
      PROVE  Bytes[K(a)] \in Nat /\ Bytes[M(a)] \in Nat /\ Cardinality(K(a)) \in Nat
  BY <1>2, SlotFinite, BytesAssumption, Zenon
<1>4. ASSUME NEW n \in Nat, NEW k \in Nat
      PROVE  Minus(n, k) \in 0 .. n /\ (k <= n => Minus(n, k) + k = n)
  BY DEF Minus
<1>5. /\ batch_balance' = [a \in Peer |-> Minus(BatchQuota, Cardinality(K(a)))]
      /\ db_balance' = [a \in Peer |-> Minus(DbQuota, Bytes[K(a)])]
      /\ memory_balance' = [a \in Peer |-> Minus(MemoryQuota, Bytes[M(a)])]
      /\ \A a \in Peer : Bytes[M(a)] <= MemoryQuota
  BY <1>1, Zenon DEF populate_cache, K, M
<1>6. up' => \A a \in Peer : Bytes[K(a)] <= DbQuota /\ Cardinality(K(a)) <= BatchQuota
  BY <1>1, Zenon DEF populate_cache, K
<1>7. BalancesOK'
  BY <1>3, <1>4, <1>5, ConstantsAssumption, Zenon DEF BalancesOK
<1>8. ASSUME up', NEW a \in Peer
      PROVE  /\ batch_balance'[a] + Cardinality(K(a)) = BatchQuota
             /\ db_balance'[a] + Bytes[K(a)] = DbQuota
             /\ memory_balance'[a] + Bytes[M(a)] = MemoryQuota
  <2>1. /\ batch_balance'[a] = Minus(BatchQuota, Cardinality(K(a)))
        /\ db_balance'[a] = Minus(DbQuota, Bytes[K(a)])
        /\ memory_balance'[a] = Minus(MemoryQuota, Bytes[M(a)])
    BY <1>5, Zenon
  <2>2. /\ Bytes[K(a)] <= DbQuota /\ Cardinality(K(a)) <= BatchQuota
        /\ Bytes[M(a)] <= MemoryQuota
    BY <1>5, <1>6, <1>8, Zenon
  <2> QED BY <1>3, <1>4, <2>1, <2>2, ConstantsAssumption, Zenon
<1>9. QuotaConserved'
  BY <1>2, <1>8, Zenon DEF QuotaConserved
<1> QED BY <1>7, <1>9, Zenon

(* A step is one of a call, of a sweep, frees quota, or is a restart.      *)
LEMMA NextCases ==
  Next <=> \/ \E t \in Task : TaskStep(t)
           \/ \E s \in Sweeper : SweeperStep(s)
           \/ FreeStep
           \/ restart
BY Zenon DEF Next, TaskStep, SweeperStep, FreeStep

(* The quota is conserved by every step.                                   *)
LEMMA QuotaStep ==
  ASSUME TypeOK, QuotaConserved, Next
  PROVE  QuotaConserved' /\ BalancesOK'
<1>1. ASSUME NEW t \in Task, TaskStep(t)
      PROVE  QuotaConserved' /\ BalancesOK'
  <2>1. CASE insert_to_cache(t)
    BY <2>1, InsertQuota, Zenon
  <2>2. CASE ~insert_to_cache(t)
    <3>1. up /\ UNCHANGED <<db_cache, freeing, balances>>
      BY <1>1, <2>2, Zenon DEF TaskStep, persist, get_or_fetch_batch, add_item, save_batch,
         finish, subscribe, get_batch_from_local, request_batch, request_failed
    <3> QED BY <3>1, QuotaUnchanged, Zenon
  <2> QED BY <2>1, <2>2, Zenon
<1>2. ASSUME NEW s \in Sweeper, SweeperStep(s)
      PROVE  QuotaConserved' /\ BalancesOK'
  <2>1. ASSUME NEW d \in Digest, clear_expired_payload(s, d)
        PROVE  QuotaConserved' /\ BalancesOK'
    BY <2>1, ClearQuota, Zenon
  <2>2. ASSUME NEW time \in Certified, update_certified_timestamp(s, time)
        PROVE  QuotaConserved' /\ BalancesOK'
    BY <2>2, QuotaUnchanged, Zenon DEF update_certified_timestamp
  <2>3. CASE delete_batches(s)
    BY <2>3, QuotaUnchanged, Zenon DEF delete_batches
  <2> QED BY <1>2, <2>1, <2>2, <2>3, Zenon DEF SweeperStep
<1>3. CASE FreeStep
  BY <1>3, FreeQuota, Zenon DEF FreeStep
<1> QED BY <1>1, <1>2, <1>3, RestartQuota, NextCases, Zenon

(* The store starts with nothing charged.                                  *)
LEMMA InitOK == Init => TypeOK /\ QuotaConserved
<1> SUFFICES ASSUME Init PROVE TypeOK /\ QuotaConserved
  OBVIOUS
<1>1. TypeOK
  BY ConstantsAssumption DEF Init, TypeOK, Entry, None, Time, Mode
<1>2. \A a, modes : "none" \notin modes => Charged(a, modes) = {}
  BY Zenon DEF Init, Charged, ModeAt, Slot, None
<1>3. "none" \notin Mode /\ "none" \notin {"memory"}
  BY Zenon DEF Mode
<1>4. Bytes[{}] = 0 /\ Cardinality({}) = 0
  BY BytesAssumption, FS_EmptySet, Zenon
<1>5. ASSUME NEW a \in Peer
      PROVE  /\ batch_balance[a] = BatchQuota /\ db_balance[a] = DbQuota
             /\ memory_balance[a] = MemoryQuota
             /\ Charged(a, Mode) = {} /\ Charged(a, {"memory"}) = {}
  BY <1>2, <1>3, Zenon DEF Init
<1>6. ASSUME NEW a \in Peer
      PROVE  /\ batch_balance[a] + Cardinality(Charged(a, Mode)) = BatchQuota
             /\ db_balance[a] + Bytes[Charged(a, Mode)] = DbQuota
             /\ memory_balance[a] + Bytes[Charged(a, {"memory"})] = MemoryQuota
  <2>1. /\ Cardinality(Charged(a, Mode)) = 0 /\ Bytes[Charged(a, Mode)] = 0
        /\ Bytes[Charged(a, {"memory"})] = 0
    BY <1>4, <1>5, Zenon
  <2>2. BatchQuota \in Nat /\ DbQuota \in Nat /\ MemoryQuota \in Nat
    BY ConstantsAssumption, Zenon
  <2> QED BY <1>5, <2>1, <2>2
<1>7. QuotaConserved
  BY <1>6, Zenon DEF QuotaConserved
<1> QED BY <1>1, <1>7, Zenon

(* The inductive step of QuotaSafety.                                      *)
LEMMA TypeAndQuotaStep ==
  ASSUME TypeOK, QuotaConserved, [Next]_vars
  PROVE  TypeOK' /\ QuotaConserved'
<1>1. CASE Next
  <2>1. QuotaConserved' /\ BalancesOK'
    BY <1>1, QuotaStep, Zenon
  <2> QED BY <1>1, <2>1, NextCases, TaskType, SweeperType, FreeType, RestartType, Zenon
<1>2. CASE UNCHANGED vars
  <2>1. TypeOK'
    BY <1>2, Zenon DEF vars, balances, TypeOK
  <2>2. \A a, modes : Charged(a, modes)' = Charged(a, modes)
    BY <1>2, Zenon DEF vars, Charged, ModeAt
  <2>3. UNCHANGED <<up, batch_balance, db_balance, memory_balance>>
    BY <1>2, Zenon DEF vars, balances
  <2>4. QuotaConserved'
    BY <2>2, <2>3, Zenon DEF QuotaConserved
  <2> QED BY <2>1, <2>4, Zenon
<1> QED BY <1>1, <1>2, Zenon

(* The balances of every author account for what the store holds of it.    *)
THEOREM QuotaSafety == Spec => [](TypeOK /\ QuotaConserved)
BY InitOK, TypeAndQuotaStep, PTL DEF Spec

-----------------------------------------------------------------------------
(* A call moves no other call.                                             *)
LEMMA TaskFrame ==
  ASSUME TypeOK, NEW t \in Task, TaskStep(t)
  PROVE  \A u \in Task \ {t} : task'[u] = task[u]
<1> SUFFICES \E v : task' = [task EXCEPT ![t] = v]
  BY Zenon DEF TypeOK
<1>1. \A pc : Goto(t, pc) => \E v : task' = [task EXCEPT ![t] = v]
  BY Zenon DEF Goto
<1>2. Return(t) => \E v : task' = [task EXCEPT ![t] = v]
  BY Zenon DEF Return
<1>3. ASSUME NEW d \in Digest, NEW e \in Expiration,
             persist(t, d, e) \/ get_or_fetch_batch(t, d, e)
      PROVE  \E v : task' = [task EXCEPT ![t] = v]
  BY <1>3, Zenon DEF persist, get_or_fetch_batch
<1> QED BY <1>1, <1>2, <1>3, Zenon
        DEF TaskStep, insert_to_cache, add_item, save_batch, finish, subscribe,
            get_batch_from_local, request_batch, request_failed

(* What the steps of a call leave alone.                                   *)
LEMMA TaskEffect ==
  ASSUME NEW t \in Task, TaskStep(t)
  PROVE  /\ up /\ UNCHANGED <<last_certified_time, sweeper>>
         /\ signed' = signed \/ finish(t)
<1>1. ASSUME NEW d \in Digest, NEW e \in Expiration,
             persist(t, d, e) \/ get_or_fetch_batch(t, d, e)
      PROVE  up /\ UNCHANGED <<last_certified_time, sweeper, signed>>
  BY <1>1, Zenon DEF persist, get_or_fetch_batch
<1>2. ASSUME insert_to_cache(t) \/ add_item(t) \/ save_batch(t)
      PROVE  up /\ UNCHANGED <<last_certified_time, sweeper, signed>>
  BY <1>2, Zenon DEF insert_to_cache, add_item, save_batch
<1>3. ASSUME finish(t) PROVE up /\ UNCHANGED <<last_certified_time, sweeper>>
  BY <1>3, Zenon DEF finish
<1>4. ASSUME \/ subscribe(t) \/ get_batch_from_local(t)
             \/ request_batch(t) \/ request_failed(t)
      PROVE  up /\ UNCHANGED <<last_certified_time, sweeper, signed>>
  BY <1>4, Zenon DEF subscribe, get_batch_from_local, request_batch, request_failed
<1> QED BY <1>1, <1>2, <1>3, <1>4, Zenon DEF TaskStep

(* What the steps of a sweep leave alone.                                  *)
LEMMA SweeperEffect ==
  ASSUME NEW s \in Sweeper, SweeperStep(s)
  PROVE  up /\ UNCHANGED <<task, signed>>
BY Zenon DEF SweeperStep, update_certified_timestamp, clear_expired_payload,
   delete_batches

-----------------------------------------------------------------------------
(* insert_to_cache finds the batch there, with a later expiration, or puts *)
(* it there.                                                               *)
LEMMA InsertCases ==
  ASSUME NEW t \in Task, insert_to_cache(t), ~Return(t)
  PROVE  \/ /\ Goto(t, "finish") /\ UNCHANGED db_cache
            /\ db_cache[task[t].digest].mode # "none"
            /\ db_cache[task[t].digest].expiration >= task[t].expiration
         \/ /\ Goto(t, "add")
            /\ update_quota(task[t].digest) # "error"
            /\ db_cache' = [db_cache EXCEPT ![task[t].digest] =
                              [mode |-> update_quota(task[t].digest),
                               expiration |-> task[t].expiration]]
BY DEF insert_to_cache

(* A sweep that goes on keeps its time.                                    *)
LEMMA SweepTime ==
  ASSUME TypeOK, NEW r \in Sweeper, NEW g \in Digest, clear_expired_payload(r, g),
         NEW s \in Sweeper, sweeper'[s] # sweeper[s]
  PROVE  /\ sweeper[s].pc = "sweep" /\ sweeper[s].time \in Int
         /\ sweeper'[s].time = sweeper[s].time
<1>1. PICK removed \in {{}, {g}} : sweeper' = [sweeper EXCEPT ![r] = Swept(r, g, removed)]
  BY Zenon DEF clear_expired_payload
<1>2. sweeper \in [Sweeper -> SweeperState \cup {Idle}]
  BY Zenon DEF TypeOK
<1>3. r = s /\ sweeper'[s] = Swept(s, g, removed)
  BY <1>1, <1>2, Zenon
<1>4. sweeper[s].pc = "sweep" /\ sweeper[s] \in SweeperState
  BY <1>2, <1>3 DEF clear_expired_payload, Idle
<1> QED BY <1>3, <1>4 DEF Swept, SweeperState, Time

(* A batch in the cache stays scheduled to expire.                         *)
LEMMA ScheduledStep ==
  ASSUME TypeOK, ScheduledForExpiry, [Next]_vars
  PROVE  ScheduledForExpiry'
<1> DEFINE Queued(d) == <<d, db_cache[d].expiration>> \in expirations
           Adding(d) == \E t \in Task : /\ task[t].pc = "add" /\ task[t].digest = d
                                        /\ task[t].expiration = db_cache[d].expiration
           Sweeping(d) == \E s \in Sweeper :
                            /\ sweeper[s].pc = "sweep" /\ d \in sweeper[s].todo
                            /\ Expired(db_cache[d].expiration, sweeper[s].time)
<1> SUFFICES ASSUME up', NEW d \in Digest, db_cache'[d].mode # "none"
             PROVE  Queued(d)' \/ Adding(d)' \/ Sweeping(d)'
  BY Zenon DEF ScheduledForExpiry
<1>0. up /\ db_cache[d].mode # "none" => Queued(d) \/ Adding(d) \/ Sweeping(d)
  BY Zenon DEF ScheduledForExpiry
<1>1. CASE UNCHANGED vars
  BY <1>0, <1>1, Zenon DEF vars
<1>2. ASSUME NEW t \in Task, TaskStep(t), ~insert_to_cache(t), ~add_item(t)
      PROVE  Queued(d)' \/ Adding(d)' \/ Sweeping(d)'
  <2>1. up /\ UNCHANGED <<db_cache, expirations, sweeper>>
    BY <1>2, Zenon DEF TaskStep, persist, get_or_fetch_batch, save_batch,
       finish, subscribe, get_batch_from_local, request_batch, request_failed
  <2>2. task[t].pc # "add"
    <3>1. \/ task[t] = Idle
          \/ task[t].pc \in {"save", "finish", "subscribe", "look", "wait"}
      BY <1>2, Zenon DEF TaskStep, persist, get_or_fetch_batch, save_batch, finish,
         subscribe, get_batch_from_local, request_batch, request_failed
    <3>2. Idle.pc = "idle"
      BY Zenon DEF Idle
    <3> QED BY <3>1, <3>2, Zenon
  <2>3. \A u \in Task \ {t} : task'[u] = task[u]
    BY <1>2, TaskFrame, Zenon
  <2> QED BY <1>0, <2>1, <2>2, <2>3, Zenon
<1>3. ASSUME NEW t \in Task, insert_to_cache(t)
      PROVE  Queued(d)' \/ Adding(d)' \/ Sweeping(d)'
  <2>1. up /\ task[t].pc = "insert" /\ UNCHANGED <<expirations, sweeper>>
    BY <1>3, Zenon DEF insert_to_cache
  <2>2. task[t] \in TaskState
    BY <2>1, ActiveTask, Zenon
  <2>3. \A u \in Task \ {t} : task'[u] = task[u]
    BY <1>3, Zenon DEF insert_to_cache, Goto, Return, TypeOK
  <2>4. CASE db_cache'[d] = db_cache[d]
    BY <1>0, <2>1, <2>3, <2>4, Zenon
  <2>5. CASE db_cache'[d] # db_cache[d]
    <3>1. /\ task[t].digest = d /\ Goto(t, "add")
          /\ db_cache'[d].expiration = task[t].expiration
      BY <1>3, <2>2, <2>5 DEF insert_to_cache, TypeOK, TaskState
    <3>2. /\ task'[t].pc = "add" /\ task'[t].digest = d
          /\ task'[t].expiration = task[t].expiration
      BY <2>2, <3>1, Zenon DEF Goto, TypeOK, TaskState
    <3> QED BY <3>1, <3>2, Zenon
  <2> QED BY <2>4, <2>5, Zenon
<1>4. ASSUME NEW t \in Task, add_item(t)
      PROVE  Queued(d)' \/ Adding(d)' \/ Sweeping(d)'
  <2>1. /\ up /\ UNCHANGED <<db_cache, sweeper>>
        /\ expirations' = expirations \cup {<<task[t].digest, task[t].expiration>>}
        /\ \A u \in Task \ {t} : task'[u] = task[u]
    BY <1>4, Zenon DEF add_item, Goto, TypeOK
  <2> QED BY <1>0, <2>1, Zenon
<1>5. ASSUME NEW s \in Sweeper, NEW time \in Certified, update_certified_timestamp(s, time)
      PROVE  Queued(d)' \/ Adding(d)' \/ Sweeping(d)'
  <2>1. /\ up /\ UNCHANGED <<db_cache, task>> /\ sweeper[s] = Idle
        /\ expirations' = expirations \ {x \in expirations : Expired(x[2], time)}
        /\ sweeper' = [sweeper EXCEPT ![s] =
             [pc |-> "sweep", time |-> time,
              todo |-> {x[1] : x \in {y \in expirations : Expired(y[2], time)}},
              gone |-> {}]]
    BY <1>5, Zenon DEF update_certified_timestamp
  <2>2. CASE Queued(d) /\ Expired(db_cache[d].expiration, time)
    <3>1. /\ sweeper'[s].pc = "sweep" /\ sweeper'[s].time = time
          /\ sweeper'[s].todo = {x[1] : x \in {y \in expirations : Expired(y[2], time)}}
      BY <2>1, Zenon DEF TypeOK
    <3>2. d \in {x[1] : x \in {y \in expirations : Expired(y[2], time)}}
      BY <2>2
    <3> QED BY <2>1, <2>2, <3>1, <3>2, Zenon
  <2>3. CASE Queued(d) /\ ~Expired(db_cache[d].expiration, time)
    BY <2>1, <2>3, Zenon
  <2>4. CASE Sweeping(d)
    <3>1. PICK r \in Sweeper : /\ sweeper[r].pc = "sweep" /\ d \in sweeper[r].todo
                               /\ Expired(db_cache[d].expiration, sweeper[r].time)
      BY <2>4, Zenon
    <3>2. r # s
      BY <2>1, <3>1 DEF Idle
    <3> QED BY <2>1, <3>1, <3>2, Zenon DEF TypeOK
  <2>5. CASE Adding(d)
    BY <2>1, <2>5, Zenon
  <2> QED BY <1>0, <2>1, <2>2, <2>3, <2>4, <2>5, Zenon
<1>6. ASSUME NEW s \in Sweeper, NEW e \in Digest, clear_expired_payload(s, e)
      PROVE  Queued(d)' \/ Adding(d)' \/ Sweeping(d)'
  <2>1. up /\ UNCHANGED <<expirations, task>> /\ sweeper[s] \in SweeperState
    BY <1>6 DEF clear_expired_payload, TypeOK, Idle
  <2>2. /\ db_cache[d].mode # "none" /\ UNCHANGED db_cache[d]
        /\ d = e => ~StillExpired(s, e)
    BY <1>6 DEF clear_expired_payload, None, TypeOK
  <2>3. CASE Sweeping(d)
    <3>1. PICK r \in Sweeper : /\ sweeper[r].pc = "sweep" /\ d \in sweeper[r].todo
                               /\ Expired(db_cache[d].expiration, sweeper[r].time)
      BY <2>3, Zenon
    <3>2. CASE r # s
      <4>1. sweeper'[r] = sweeper[r]
        BY <1>6, <3>2, Zenon DEF clear_expired_payload, TypeOK
      <4> QED BY <2>2, <3>1, <4>1, Zenon
    <3>3. CASE r = s
      <4>1. d # e
        BY <2>2, <3>1, <3>3, Zenon DEF StillExpired
      <4>2. /\ sweeper'[s].pc = "sweep" /\ sweeper'[s].time = sweeper[s].time
            /\ d \in sweeper'[s].todo
        <5>1. \/ sweeper'[s] = sweeper[s]
              \/ \E removed : sweeper'[s] = Swept(s, e, removed)
          BY <1>6 DEF clear_expired_payload, TypeOK
        <5> QED BY <2>1, <3>1, <3>3, <4>1, <5>1, Zenon DEF Swept, SweeperState
      <4> QED BY <2>2, <3>1, <3>3, <4>2, Zenon
    <3> QED BY <3>2, <3>3, Zenon
  <2> QED BY <1>0, <2>1, <2>2, <2>3, Zenon
<1>7. CASE FreeStep
  <2>1. up /\ UNCHANGED <<db_cache, expirations, task, sweeper>>
    BY <1>7, FreeEffect, Zenon
  <2> QED BY <1>0, <2>1, Zenon
<1>8. ASSUME NEW s \in Sweeper, delete_batches(s)
      PROVE  Queued(d)' \/ Adding(d)' \/ Sweeping(d)'
  <2>1. /\ up /\ UNCHANGED <<db_cache, task, expirations>> /\ sweeper[s].todo = {}
        /\ \A r \in Sweeper \ {s} : sweeper'[r] = sweeper[r]
    BY <1>8, Zenon DEF delete_batches, TypeOK
  <2> QED BY <1>0, <2>1, Zenon
<1>9. CASE restart
  <2>1. PICK memory \in SUBSET Kept : populate_cache(memory)
    BY <1>9, Zenon DEF restart
  <2>2. d \in Kept
    BY <2>1, Zenon DEF populate_cache, None
  <2>3. db_cache'[d].expiration = db[d] /\ <<d, db[d]>> \in expirations'
    BY <2>1, <2>2, Zenon DEF populate_cache
  <2> QED BY <2>3, Zenon
<1> QED BY <1>1, <1>2, <1>3, <1>4, <1>5, <1>6, <1>7, <1>8, <1>9, NextCases, Zenon
        DEF SweeperStep, TaskStep

(* No batch is left in the cache with nothing to expire it.                *)
THEOREM Scheduled == Spec => []ScheduledForExpiry
<1>1. Init => ScheduledForExpiry
  BY DEF Init, ScheduledForExpiry, None
<1> QED BY <1>1, QuotaSafety, ScheduledStep, PTL DEF Spec

-----------------------------------------------------------------------------
(* Batch d with expiration e is past its time, or in the cache for as long. *)
Safe(d, e) ==
  \/ Expired(e, last_certified_time)
  \/ db_cache[d].mode # "none" /\ db_cache[d].expiration >= e

(* The strengthening of SignedKept: a batch is safe from the moment its    *)
(* task has cached it, and no sweep is ahead of the certified time.        *)
Promised ==
  /\ \A x \in signed : Safe(x[1], x[2])
  /\ \A t \in Task : task[t].pc \in {"add", "save", "finish"} =>
                       Safe(task[t].digest, task[t].expiration)
  /\ \A s \in Sweeper : sweeper[s].pc = "sweep" => sweeper[s].time <= last_certified_time

(* What has expired, with the buffer, stays so as time passes, and so has  *)
(* anything due earlier.                                                   *)
LEMMA ExpiredFacts ==
  ASSUME NEW e \in Time, NEW f \in Time, NEW now \in Time, NEW later \in Time,
         e <= f, now <= later, Expired(f, now)
  PROVE  Expired(e, later)
BY ConstantsAssumption DEF Expired, Minus, Time

(* While the store runs, what is safe stays safe.                          *)
LEMMA SafeStep ==
  ASSUME TypeOK, Promised, up', ~restart, Next, NEW d \in Digest, NEW e \in Time,
         Safe(d, e)
  PROVE  Safe(d, e)'
<1> USE ConstantsAssumption
<1>0. /\ last_certified_time \in Time /\ db_cache[d].expiration \in Time
      /\ db_cache[d] \in Entry
  BY Zenon DEF TypeOK, Entry
<1>1. ASSUME NEW t \in Task, TaskStep(t) PROVE Safe(d, e)'
  <2>1. CASE insert_to_cache(t)
    <3>1. UNCHANGED last_certified_time
      BY <2>1, Zenon DEF insert_to_cache
    <3>2. CASE db_cache'[d] = db_cache[d]
      BY <3>1, <3>2, Zenon DEF Safe
    <3>3. CASE db_cache'[d] # db_cache[d]
      <4>1. task[t] \in TaskState /\ task[t].expiration \in Time
        BY <2>1, ActiveTask, Zenon DEF insert_to_cache
      <4>2. /\ db_cache'[d].mode \in Mode
            /\ db_cache'[d].expiration = task[t].expiration
            /\ db_cache[d].mode = "none" \/ db_cache[d].expiration < task[t].expiration
        BY <2>1, <3>3 DEF insert_to_cache, TypeOK, update_quota, Mode
      <4> QED BY <1>0, <3>1, <4>1, <4>2 DEF Safe, Mode, Time
    <3> QED BY <3>2, <3>3, Zenon
  <2>2. CASE ~insert_to_cache(t)
    <3>1. UNCHANGED <<last_certified_time, db_cache>>
      BY <1>1, <2>2, Zenon DEF TaskStep, persist, get_or_fetch_batch, add_item, save_batch,
         finish, subscribe, get_batch_from_local, request_batch, request_failed
    <3> QED BY <3>1, Zenon DEF Safe
  <2> QED BY <2>1, <2>2, Zenon
<1>2. ASSUME NEW s \in Sweeper, NEW time \in Certified, update_certified_timestamp(s, time)
      PROVE  Safe(d, e)'
  <2>1. /\ UNCHANGED db_cache /\ last_certified_time' \in Time
        /\ last_certified_time <= last_certified_time'
    BY <1>0, <1>2 DEF update_certified_timestamp, Maximum, Time
  <2>2. e <= e
    BY DEF Time
  <2> QED BY <1>0, <2>1, <2>2, ExpiredFacts, Zenon DEF Safe
<1>3. ASSUME NEW s \in Sweeper, NEW g \in Digest, clear_expired_payload(s, g)
      PROVE  Safe(d, e)'
  <2>1. UNCHANGED last_certified_time /\ sweeper[s].pc = "sweep"
    BY <1>3, Zenon DEF clear_expired_payload
  <2>2. sweeper[s].time \in Time /\ sweeper[s].time <= last_certified_time
    BY <2>1 DEF Promised, TypeOK, Idle, SweeperState
  <2>3. CASE db_cache'[d] = db_cache[d]
    BY <2>1, <2>3, Zenon DEF Safe
  <2>4. CASE db_cache'[d] # db_cache[d]
    <3>1. Expired(db_cache[d].expiration, sweeper[s].time)
      BY <1>3, <2>4, Zenon DEF clear_expired_payload, StillExpired, TypeOK
    <3>2. CASE Expired(e, last_certified_time)
      BY <2>1, <3>2, Zenon DEF Safe
    <3>3. CASE db_cache[d].expiration >= e
      <4>1. e <= db_cache[d].expiration
        BY <1>0, <3>3, Zenon DEF Time
      <4>2. Expired(e, last_certified_time)
        BY <1>0, <2>2, <3>1, <4>1, ExpiredFacts, Zenon
      <4> QED BY <2>1, <4>2, Zenon DEF Safe
    <3> QED BY <3>2, <3>3, Zenon DEF Safe
  <2> QED BY <2>3, <2>4, Zenon
<1>4. CASE FreeStep
  BY <1>4, FreeEffect, Zenon DEF Safe
<1>5. ASSUME NEW s \in Sweeper, delete_batches(s) PROVE Safe(d, e)'
  BY <1>5, Zenon DEF delete_batches, Safe
<1> QED BY <1>1, <1>2, <1>3, <1>4, <1>5, NextCases, Zenon DEF SweeperStep

(* The inductive step of SignedBatchesKept.                                *)
LEMMA PromisedStep ==
  ASSUME TypeOK, TypeOK', up => Promised, [Next]_vars, up'
  PROVE  Promised'
<1> USE ConstantsAssumption
<1>1. CASE UNCHANGED vars
  BY <1>1, Zenon DEF vars, Promised, Safe
<1>2. CASE restart
  <2>1. PICK memory \in SUBSET Kept : populate_cache(memory)
    BY <1>2, Zenon DEF restart
  <2>2. \A s \in Sweeper : sweeper'[s].pc = "sweep" => sweeper'[s].time <= last_certified_time'
    <3>1. last_certified_time' = ledger_time
      BY <1>2, Zenon DEF restart
    <3>2. ledger_time \in Int
      BY DEF TypeOK, Time
    <3>3. \A s \in Sweeper : sweeper'[s] = Idle \/ sweeper'[s].time = ledger_time
      BY <2>1, Zenon DEF populate_cache
    <3> QED BY <3>1, <3>2, <3>3 DEF Idle
  <2>3. signed' = {} /\ \A t \in Task : task'[t].pc = "idle"
    BY <1>2, Zenon DEF restart, Idle
  <2> QED BY <2>2, <2>3, Zenon DEF Promised
<1>3. CASE Next /\ ~restart
  <2>0. up
    BY <1>3, NextCases, TaskEffect, SweeperEffect, FreeEffect, Zenon
  <2>1. Promised
    BY <2>0, Zenon
  <2>2. \A d \in Digest, e \in Time : Safe(d, e) => Safe(d, e)'
    BY <1>3, <2>1, SafeStep, Zenon
  <2>3. ASSUME NEW x \in signed' PROVE Safe(x[1], x[2])'
    <3>1. x \in Digest \X Time
      BY Zenon DEF TypeOK
    <3>2. CASE x \in signed
      BY <2>1, <2>2, <3>1, <3>2, Zenon DEF Promised
    <3>3. CASE x \notin signed
      <4>1. PICK t \in Task : finish(t)
        BY <1>3, <3>3, NextCases, TaskEffect, SweeperEffect, FreeEffect, Zenon
      <4>2. task[t].pc = "finish" /\ x = <<task[t].digest, task[t].expiration>>
        BY <3>3, <4>1, Zenon DEF finish
      <4>3. Safe(x[1], x[2])
        BY <2>1, <4>2, Zenon DEF Promised
      <4> QED BY <2>2, <3>1, <4>3, Zenon
    <3> QED BY <3>2, <3>3, Zenon
  <2>4. ASSUME NEW t \in Task, task'[t].pc \in {"add", "save", "finish"}
        PROVE  Safe(task[t].digest, task[t].expiration)' 
    <3>1. task'[t] \in TaskState /\ task'[t].digest \in Digest /\ task'[t].expiration \in Time
      BY <2>4 DEF TypeOK, Idle, TaskState
    <3>2. CASE task'[t] = task[t]
      BY <2>1, <2>2, <2>4, <3>1, <3>2, Zenon DEF Promised
    <3>3. CASE task'[t] # task[t]
      <4>1. TaskStep(t)
        <5>1. ~FreeStep /\ ~\E s \in Sweeper : SweeperStep(s)
          BY <3>3, SweeperEffect, FreeEffect, Zenon
        <5> QED BY <1>3, <3>3, <5>1, NextCases, TaskFrame, Zenon
      <4>2. CASE insert_to_cache(t)
        <5>1. task[t] \in TaskState
          BY <4>2, ActiveTask, Zenon DEF insert_to_cache
        <5>2. ~Return(t)
          BY <2>4 DEF Return, Idle, TypeOK
        <5>3. \/ /\ Goto(t, "finish") /\ UNCHANGED db_cache
                 /\ db_cache[task[t].digest].mode # "none"
                 /\ db_cache[task[t].digest].expiration >= task[t].expiration
              \/ /\ Goto(t, "add")
                 /\ update_quota(task[t].digest) # "error"
                 /\ db_cache' = [db_cache EXCEPT ![task[t].digest] =
                                   [mode |-> update_quota(task[t].digest),
                                    expiration |-> task[t].expiration]]
          BY <4>2, <5>2, InsertCases, Zenon
        <5>4. /\ task'[t].digest = task[t].digest
              /\ task'[t].expiration = task[t].expiration
          BY <5>1, <5>3 DEF Goto, TaskState, TypeOK
        <5>5. task[t].digest \in Digest /\ task[t].expiration \in Int
          BY <5>1 DEF TaskState, Time
        <5>6. update_quota(task[t].digest) # "none"
          BY Zenon DEF update_quota
        <5>7. /\ db_cache'[task[t].digest].mode # "none"
              /\ db_cache'[task[t].digest].expiration >= task[t].expiration
          BY <5>3, <5>5, <5>6 DEF TypeOK
        <5> QED BY <5>4, <5>7 DEF Safe
      <4>3. CASE add_item(t) \/ save_batch(t)
        <5>0. task[t].pc \in {"add", "save"} /\ \E pc : Goto(t, pc)
          BY <4>3, Zenon DEF add_item, save_batch
        <5>1. task[t] \in TaskState
          BY <5>0, ActiveTask, Zenon
        <5>2. task'[t].digest = task[t].digest /\ task'[t].expiration = task[t].expiration
          BY <5>0, <5>1 DEF Goto, TaskState, TypeOK
        <5> QED BY <2>1, <2>2, <3>1, <5>0, <5>2, Zenon DEF Promised
      <4>4. CASE ~(insert_to_cache(t) \/ add_item(t) \/ save_batch(t))
        <5>1. ~Return(t)
          BY <2>4 DEF Return, Idle, TypeOK
        <5>2. ASSUME NEW pc \in {"insert", "look", "wait"}, Goto(t, pc),
                     task[t].pc # "idle"
              PROVE  FALSE
          <6>1. task'[t] = [task[t] EXCEPT !.pc = pc]
            BY <5>2, Zenon DEF Goto, TypeOK
          <6>2. task[t] \in TaskState
            BY <5>2, ActiveTask, Zenon
          <6>3. task'[t].pc = pc
            BY <6>1, <6>2, Zenon DEF TaskState
          <6> QED BY <2>4, <5>2, <6>3, Zenon
        <5>3. ASSUME NEW d \in Digest, NEW e \in Expiration,
                     persist(t, d, e) \/ get_or_fetch_batch(t, d, e)
              PROVE  FALSE
          <6>1. task'[t].pc \in {"insert", "subscribe"}
            <7>1. CASE persist(t, d, e)
              BY <7>1, Zenon DEF persist, TypeOK
            <7>2. CASE get_or_fetch_batch(t, d, e)
              BY <7>2, Zenon DEF get_or_fetch_batch, TypeOK
            <7> QED BY <5>3, <7>1, <7>2, Zenon
          <6> QED BY <2>4, <6>1, Zenon
        <5> QED BY <4>1, <4>4, <5>1, <5>2, <5>3, Zenon
                DEF TaskStep, finish, subscribe, get_batch_from_local, request_batch,
                    request_failed
      <4> QED BY <4>2, <4>3, <4>4, Zenon
    <3> QED BY <3>2, <3>3, Zenon
  <2>5. ASSUME NEW s \in Sweeper, sweeper'[s].pc = "sweep"
        PROVE  sweeper'[s].time <= last_certified_time'
    <3>1. /\ last_certified_time <= last_certified_time'
          /\ last_certified_time \in Int /\ last_certified_time' \in Int
      <4>0. last_certified_time \in Int /\ last_certified_time' \in Int
        BY DEF TypeOK, Time
      <4>1. ASSUME NEW t \in Task, TaskStep(t) PROVE UNCHANGED last_certified_time
        BY <4>1, TaskEffect, Zenon
      <4>2. ASSUME NEW r \in Sweeper, SweeperStep(r)
            PROVE  last_certified_time' >= last_certified_time
        <5>1. ASSUME NEW time \in Certified, update_certified_timestamp(r, time)
              PROVE  last_certified_time' >= last_certified_time
          BY <4>0, <5>1 DEF update_certified_timestamp, Maximum
        <5>2. ASSUME ~\E time \in Certified : update_certified_timestamp(r, time)
              PROVE  UNCHANGED last_certified_time
          BY <4>2, <5>2, Zenon DEF SweeperStep, clear_expired_payload, delete_batches
        <5> QED BY <4>0, <5>1, <5>2
      <4>3. FreeStep => UNCHANGED last_certified_time
        BY FreeEffect, Zenon
      <4> QED BY <1>3, <4>0, <4>1, <4>2, <4>3, NextCases
    <3>2. CASE sweeper'[s] = sweeper[s]
      BY <2>1, <2>5, <3>1, <3>2 DEF Promised, TypeOK, SweeperState, Idle, Time
    <3>3. CASE sweeper'[s] # sweeper[s]
      <4>1. ~FreeStep /\ ~\E t \in Task : TaskStep(t)
        BY <3>3, TaskEffect, FreeEffect, Zenon
      <4>2. PICK r \in Sweeper : SweeperStep(r)
        BY <1>3, <4>1, NextCases, Zenon
      <4>3. ASSUME NEW time \in Certified, update_certified_timestamp(r, time)
            PROVE  sweeper'[s].time <= last_certified_time'
        BY <3>3, <4>3 DEF update_certified_timestamp, Maximum, TypeOK, Time
      <4>4. ASSUME NEW g \in Digest, clear_expired_payload(r, g)
            PROVE  sweeper'[s].time <= last_certified_time'
        <5>1. /\ sweeper[s].pc = "sweep" /\ sweeper[s].time \in Int
              /\ sweeper'[s].time = sweeper[s].time
          BY <3>3, <4>4, SweepTime, Zenon
        <5>2. sweeper[s].time <= last_certified_time
          BY <2>1, <5>1, Zenon DEF Promised
        <5> QED BY <3>1, <5>1, <5>2
      <4>5. ~delete_batches(r)
        <5>1. ASSUME delete_batches(r) PROVE sweeper'[s] \in {sweeper[s], Idle}
          BY <5>1, Zenon DEF delete_batches, TypeOK
        <5> QED BY <2>5, <3>3, <5>1 DEF Idle
      <4> QED BY <4>2, <4>3, <4>4, <4>5, Zenon DEF SweeperStep
    <3> QED BY <3>2, <3>3, Zenon
  <2> QED BY <2>3, <2>4, <2>5, Zenon DEF Promised
<1> QED BY <1>1, <1>2, <1>3, Zenon

(* A batch the validator signed for is kept until it has expired and the   *)
(* extra time is over, for as long as the store is not built anew.         *)
THEOREM SignedBatchesKept == Spec => []SignedKept
<1> DEFINE I == up => Promised
<1>1. Init => I
  BY DEF Init, Promised, Idle
<1>2. TypeOK /\ TypeOK' /\ I /\ [Next]_vars => I'
  BY PromisedStep, Zenon
<1>3. I => SignedKept
  BY Zenon DEF SignedKept, Promised, Safe
<1> HIDE DEF I
<1> QED BY <1>1, <1>2, <1>3, QuotaSafety, PTL DEF Spec

-----------------------------------------------------------------------------
(* The step of a task, seen by a fetch that waits for the same batch.      *)
LEMMA WakeupTask ==
  ASSUME TypeOK, NoLostWakeup, NEW u \in Task, TaskStep(u)
  PROVE  NoLostWakeup'
<1> DEFINE Notifies(d) == \E v \in Task : /\ task[v].pc \in {"add", "save", "finish"}
                                          /\ task[v].digest = d
<1> SUFFICES ASSUME NEW t \in Task, task'[t].pc = "wait",
                    t \in persist_subscribers'[task'[t].digest],
                    Readable(task[t].digest)'
             PROVE  t \in notified' \/ Notifies(task[t].digest)'
  BY Zenon DEF NoLostWakeup
<1>0. up /\ \A v \in Task \ {u} : task'[v] = task[v]
  BY TaskFrame, Zenon DEF TaskStep, persist, get_or_fetch_batch, insert_to_cache, add_item,
     save_batch, finish, subscribe, get_batch_from_local, request_batch, request_failed
<1>1. ASSUME NEW pc, Goto(u, pc), task[u].pc # "idle"
      PROVE  task'[u].pc = pc /\ task'[u].digest = task[u].digest
  <2>1. task[u] \in TaskState
    BY <1>1, ActiveTask, Zenon
  <2>2. task'[u] = [task[u] EXCEPT !.pc = pc]
    BY <1>1, Zenon DEF Goto, TypeOK
  <2> QED BY <2>1, <2>2, Zenon DEF TaskState
<1>2. Return(u) => task'[u].pc = "idle"
  BY DEF Return, Idle, TypeOK
<1>3. t # u
  <2> SUFFICES ASSUME t = u PROVE FALSE
    OBVIOUS
  <2>1. ~\E d \in Digest, e \in Expiration :
           persist(u, d, e) \/ get_or_fetch_batch(u, d, e)
    BY DEF persist, get_or_fetch_batch, TypeOK
  <2>2. ~(add_item(u) \/ save_batch(u) \/ finish(u) \/ subscribe(u))
    BY <1>1, <1>2 DEF add_item, save_batch, finish, subscribe
  <2>3. ~(insert_to_cache(u) \/ request_batch(u) \/ request_failed(u))
    BY <1>1, <1>2 DEF insert_to_cache, request_batch, request_failed
  <2>4. ~get_batch_from_local(u)
    <3> SUFFICES ASSUME get_batch_from_local(u) PROVE FALSE
      OBVIOUS
    <3>1. Goto(u, "wait") /\ ~Readable(task[u].digest) /\ task[u].pc = "look"
      BY <1>2, Zenon DEF get_batch_from_local
    <3>2. task'[u].digest = task[u].digest
      BY <1>1, <3>1, Zenon
    <3> QED BY <3>1, <3>2, Zenon DEF get_batch_from_local, Readable
  <2> QED BY <2>1, <2>2, <2>3, <2>4, Zenon DEF TaskStep
<1>4. task'[t] = task[t] /\ task[t].pc = "wait" /\ task[t].digest \in Digest
  BY <1>0, <1>3 DEF TypeOK, Idle, TaskState
<1> DEFINE d == task[t].digest
<1>5. finish(u) => task[u].digest # d
  <2> SUFFICES ASSUME finish(u), task[u].digest = d PROVE FALSE
    OBVIOUS
  <2> QED BY <1>4, Zenon DEF finish, notify_subscribers, TypeOK
<1>6. CASE Readable(d) /\ t \in persist_subscribers[d]
  <2>1. t \in notified \/ Notifies(d)
    BY <1>0, <1>4, <1>6, Zenon DEF NoLostWakeup
  <2>2. t \in notified => t \in notified'
    BY <1>3, Zenon DEF TaskStep, persist, get_or_fetch_batch, insert_to_cache, add_item,
       save_batch, finish, subscribe, get_batch_from_local, request_batch,
       request_failed, notify_subscribers
  <2>3. ASSUME NEW v \in Task, task[v].pc \in {"add", "save", "finish"}, task[v].digest = d
        PROVE  task'[v].pc \in {"add", "save", "finish"} /\ task'[v].digest = d
    <3>1. CASE v # u
      BY <1>0, <2>3, <3>1, Zenon
    <3>2. CASE v = u
      <4>0. task[u].pc \in {"add", "save", "finish"} /\ task[u].digest = d
        BY <2>3, <3>2, Zenon
      <4>2. /\ ~\E e \in Digest, f \in Expiration :
                 persist(u, e, f) \/ get_or_fetch_batch(u, e, f)
            /\ ~(insert_to_cache(u) \/ subscribe(u))
        <5>1. task[u].pc # "idle" /\ task[u] # Idle /\ task[u].pc # "insert" /\ task[u].pc # "subscribe"
          BY <4>0 DEF Idle
        <5> QED BY <5>1, Zenon DEF persist, get_or_fetch_batch, insert_to_cache, subscribe
      <4>3. ~(get_batch_from_local(u) \/ request_batch(u) \/ request_failed(u))
        BY <4>0, Zenon DEF get_batch_from_local, request_batch, request_failed
      <4>1. add_item(u) \/ save_batch(u)
        BY <1>5, <4>0, <4>2, <4>3, Zenon DEF TaskStep
      <4> QED BY <1>1, <2>3, <3>2, <4>1, Zenon DEF add_item, save_batch
    <3> QED BY <3>1, <3>2, Zenon
  <2> QED BY <1>4, <2>1, <2>2, <2>3, Zenon
<1>7. CASE t \notin persist_subscribers[d]
  <2>1. ASSUME NEW e \in Digest, NEW f \in Expiration, get_or_fetch_batch(u, e, f)
        PROVE  t \notin persist_subscribers'[d]
    BY <1>3, <1>4, <1>7, <2>1, Zenon DEF get_or_fetch_batch, TypeOK
  <2>2. ASSUME NEW e \in Digest, notify_subscribers(e)
        PROVE  t \notin persist_subscribers'[d]
    BY <1>4, <1>7, <2>2, Zenon DEF notify_subscribers, TypeOK
  <2>3. task[u].pc # "idle" => task[u].digest \in Digest
    BY ActiveTask, Zenon
  <2>4. finish(u) \/ subscribe(u) => t \notin persist_subscribers'[d]
    BY <1>7, <2>2, <2>3, Zenon DEF finish, subscribe
  <2>5. t \notin persist_subscribers'[d]
    BY <1>7, <2>1, <2>4, Zenon DEF TaskStep, persist, insert_to_cache, add_item, save_batch,
       get_batch_from_local, request_batch, request_failed
  <2> QED BY <1>4, <2>5, Zenon
<1>8. CASE ~Readable(d)
  <2>1. db_cache'[d] # db_cache[d] \/ db'[d] # db[d]
    BY <1>4, <1>8, Zenon DEF Readable
  <2>2. /\ task[u].digest = d
        /\ (insert_to_cache(u) /\ Goto(u, "add")) \/ (save_batch(u) /\ Goto(u, "finish"))
    <3>1. CASE insert_to_cache(u)
      <4>1. /\ UNCHANGED db
            /\ \/ UNCHANGED db_cache
               \/ /\ \E v : db_cache' = [db_cache EXCEPT ![task[u].digest] = v]
                  /\ Goto(u, "add")
        BY <3>1, Zenon DEF insert_to_cache
      <4> QED BY <1>4, <2>1, <3>1, <4>1, Zenon DEF TypeOK
    <3>2. CASE save_batch(u)
      <4>1. /\ Goto(u, "finish") /\ db_cache' = db_cache
            /\ db' = [db EXCEPT ![task[u].digest] = task[u].expiration]
        BY <3>2, Zenon DEF save_batch
      <4> QED BY <1>4, <2>1, <3>2, <4>1, Zenon DEF TypeOK
    <3>3. CASE ~insert_to_cache(u) /\ ~save_batch(u)
      BY <2>1, <3>3, Zenon DEF TaskStep, persist, get_or_fetch_batch, add_item, finish, subscribe,
         get_batch_from_local, request_batch, request_failed
    <3> QED BY <3>1, <3>2, <3>3, Zenon
  <2>3. task'[u].pc \in {"add", "finish"} /\ task'[u].digest = d
    BY <1>1, <2>2, Zenon DEF insert_to_cache, save_batch
  <2> QED BY <1>4, <2>3, Zenon
<1> QED BY <1>6, <1>7, <1>8, Zenon

(* The inductive step of FetchWakeup.                                      *)
LEMMA WakeupStep ==
  ASSUME TypeOK, NoLostWakeup, [Next]_vars
  PROVE  NoLostWakeup'
<1>1. CASE UNCHANGED vars
  BY <1>1, Zenon DEF vars, NoLostWakeup, Readable
<1>2. ASSUME NEW s \in Sweeper, SweeperStep(s) PROVE NoLostWakeup'
  <2> DEFINE Frame ==
        /\ up /\ UNCHANGED <<task, notified>>
        /\ \A d \in Digest : /\ persist_subscribers'[d] \subseteq persist_subscribers[d]
                             /\ Readable(d)' => Readable(d)
  <2>1. Frame
    <3>1. ASSUME NEW time \in Certified, update_certified_timestamp(s, time) PROVE  Frame
      BY <3>1, Zenon DEF update_certified_timestamp, Readable
    <3>2. ASSUME NEW e \in Digest, clear_expired_payload(s, e) PROVE  Frame
      <4>1. /\ up /\ UNCHANGED <<task, notified, db>>
            /\ \/ UNCHANGED db_cache
               \/ db_cache' = [db_cache EXCEPT ![e] = None]
            /\ \/ UNCHANGED persist_subscribers
               \/ persist_subscribers' = [persist_subscribers EXCEPT ![e] = {}]
        BY <3>2, Zenon DEF clear_expired_payload
      <4>2. ASSUME NEW d \in Digest, Readable(d)' PROVE Readable(d)
        <5>1. None.mode = "none"
          BY DEF None
        <5>2. db_cache'[d] = db_cache[d] \/ db_cache'[d] = None
          BY <4>1, Zenon DEF TypeOK
        <5> QED BY <4>1, <4>2, <5>1, <5>2, Zenon DEF Readable
      <4>3. ASSUME NEW d \in Digest
            PROVE  persist_subscribers'[d] \subseteq persist_subscribers[d]
        BY <4>1, Zenon DEF TypeOK
      <4> QED BY <4>1, <4>2, <4>3, Zenon
    <3>3. CASE delete_batches(s)
      BY <3>3, Zenon DEF delete_batches, Readable
    <3> QED BY <1>2, <3>1, <3>2, <3>3, Zenon DEF SweeperStep
  <2>2. \A t \in Task : task[t].pc = "wait" => task[t].digest \in Digest
    BY ActiveTask, Zenon
  <2> QED BY <2>1, <2>2, Zenon DEF NoLostWakeup
<1>3. CASE restart
  <2>1. \A t \in Task : task'[t].pc = "idle"
    BY <1>3, Zenon DEF restart, Idle
  <2> QED BY <2>1, Zenon DEF NoLostWakeup
<1>4. CASE FreeStep
  BY <1>4, FreeEffect, Zenon DEF NoLostWakeup, Readable
<1> QED BY <1>1, <1>2, <1>3, <1>4, WakeupTask, NextCases, Zenon

(* A fetch that is registered for a batch never waits when the batch is    *)
(* there, with nobody to tell it.                                          *)
THEOREM FetchWakeup == Spec => []NoLostWakeup
<1>1. Init => NoLostWakeup
  BY DEF Init, NoLostWakeup, Idle
<1> QED BY <1>1, WakeupStep, QuotaSafety, PTL DEF Spec

=============================================================================
