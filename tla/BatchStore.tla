----------------------------- MODULE BatchStore -----------------------------
(***************************************************************************)
(* The quorum store's BatchStore: the transaction batches a validator      *)
(* keeps for others, in a cache with per-author quotas over a database.    *)
(*                                                                         *)
(* Many tasks use the store at once: persists of batches received from     *)
(* their authors, fetches of batches a proposal names, and the two paths   *)
(* that tell it the certified time (a commit, a state sync), which sweep   *)
(* expired batches.  Only the cache entry of a digest, the queue of        *)
(* expirations and the list of subscribers are locked, each on its own;    *)
(* one action here is what happens under one lock or in one database call. *)
(*                                                                         *)
(* A digest fixes its batch's author and size (it hashes both), not its    *)
(* expiration: an author may send the same batch again with a later one.   *)
(***************************************************************************)
EXTENDS Integers, FiniteSets

CONSTANTS Digest,
          Peer,
          Author,         \* the author of a batch
          Size,           \* its num_bytes
          Task,           \* the tasks that persist or fetch a batch
          MaxTime,        \* timestamps are 0 .. MaxTime
          Expiration,     \* the expirations batches are sent with
          Certified,      \* the timestamps commits and state syncs have
          ExpirationBuffer,
          MemoryQuota, DbQuota, BatchQuota,
          Bytes,          \* the bytes charged for a set of slots
          MaxCalls, MaxRestarts   \* bounds on the calls and the crashes

(* Who holds a value that is charged to its author: the cache; one of the  *)
(* sweeping calls, between removing it and freeing its quota; or the       *)
(* insert that replaced it, which keeps the lock of the entry meanwhile.   *)
Sweeper == {"commit", "sync", "startup"}
Remover == Sweeper \cup {"insert"}
Slot == (Remover \cup {"cache"}) \X Digest

ASSUME ConstantsAssumption ==
  /\ IsFiniteSet(Digest)
  /\ Author \in [Digest -> Peer]
  /\ Size \in [Digest -> Nat]
  /\ MaxTime \in Nat /\ MaxCalls \in Nat /\ MaxRestarts \in Nat
  /\ ExpirationBuffer \in Nat
  /\ Expiration \cup Certified \subseteq 1 .. MaxTime
  /\ MemoryQuota \in Nat /\ DbQuota \in Nat /\ BatchQuota \in Nat

ASSUME BytesAssumption ==
  /\ Bytes \in [SUBSET Slot -> Nat]
  /\ Bytes[{}] = 0
  /\ \A S \in SUBSET Slot : \A x \in Slot \ S :
       Bytes[S \cup {x}] = Bytes[S] + Size[x[2]]

Time == 0 .. MaxTime
Mode == {"memory", "db"}      \* MemoryAndPersisted, PersistedOnly
Entry == [mode : Mode \cup {"none"}, expiration : Time]
None == [mode |-> "none", expiration |-> 0]
Idle == [pc |-> "idle"]

VARIABLES last_certified_time,
          db_cache,             \* digest -> entry, or None
          batch_balance, db_balance, memory_balance,   \* author -> quota left
          expirations,          \* TimeExpirations: pairs of digest and time
          db,                   \* the database: digest -> expiration, 0 if absent
          persist_subscribers,  \* digest -> the fetching tasks subscribed to it
          notified,             \* the fetching tasks that were sent a value
          task,                 \* where each persist or fetch stands
          sweeper,              \* where each sweep stands
          freeing,              \* what each remover has not freed yet
          ledger_time,          \* the timestamp of the committed ledger
          up,                   \* FALSE after a panic
          calls, restarts,      \* how many of each so far
          signed                \* history: digests and expirations signed for
                                \* since the store was built

balances == <<batch_balance, db_balance, memory_balance>>
vars == <<last_certified_time, db_cache, balances, expirations, db,
          persist_subscribers, notified, task, sweeper, freeing, ledger_time, up,
          calls, restarts, signed>>

Minus(time, d) == IF time > d THEN time - d ELSE 0

(* A batch is kept for ExpirationBuffer after its expiration.              *)
Expired(expiration, time) == expiration <= Minus(time, ExpirationBuffer)
Maximum(a, b) == IF a > b THEN a ELSE b

TaskState ==
  [pc : {"insert", "add", "save", "finish", "subscribe", "look", "wait"},
   digest : Digest, expiration : Time, fetch : BOOLEAN]
SweeperState ==
  [pc : {"sweep"}, time : Time, todo : SUBSET Digest, gone : SUBSET Digest]

(* The state is well formed; no balance is negative or above its quota,    *)
(* although values are charged and freed by several tasks at once.         *)
TypeOK ==
  /\ last_certified_time \in Time /\ ledger_time \in Time
  /\ db_cache \in [Digest -> Entry]
  /\ batch_balance \in [Peer -> 0 .. BatchQuota]
  /\ db_balance \in [Peer -> 0 .. DbQuota]
  /\ memory_balance \in [Peer -> 0 .. MemoryQuota]
  /\ expirations \subseteq Digest \X Time
  /\ db \in [Digest -> Time]
  /\ persist_subscribers \in [Digest -> SUBSET Task]
  /\ notified \subseteq Task
  /\ task \in [Task -> TaskState \cup {Idle}]
  /\ sweeper \in [Sweeper -> SweeperState \cup {Idle}]
  /\ freeing \in [Remover -> [Digest -> Mode \cup {"none"}]]
  /\ up \in BOOLEAN /\ calls \in 0 .. MaxCalls /\ restarts \in 0 .. MaxRestarts
  /\ signed \subseteq Digest \X Time

----------------------------------------------------------------------------
(* QuotaManager: what an author may still store.  A batch that exceeds the *)
(* memory quota is kept in the database only.                              *)
update_quota(d) ==
  LET a == Author[d] IN
    IF batch_balance[a] = 0 \/ db_balance[a] < Size[d] THEN "error"
    ELSE IF memory_balance[a] >= Size[d] THEN "memory" ELSE "db"

(* What a value of mode m is charged for, of what modes are charged for.   *)
Held(d, m, modes) == IF m \in modes THEN Size[d] ELSE 0
Count(m) == IF m \in Mode THEN 1 ELSE 0

(* The balances after charging a value of mode new, or freeing one of mode *)
(* old; the other is "none".                                               *)
Charge(d, new, old) ==
  /\ batch_balance' = [batch_balance EXCEPT ![Author[d]] = @ - Count(new) + Count(old)]
  /\ db_balance' =
       [db_balance EXCEPT ![Author[d]] = @ - Held(d, new, Mode) + Held(d, old, Mode)]
  /\ memory_balance' =
       [memory_balance EXCEPT ![Author[d]] =
          @ - Held(d, new, {"memory"}) + Held(d, old, {"memory"})]

(* get_batch_from_local finds the batch.                                   *)
Readable(d) ==
  \/ db_cache[d].mode = "memory"
  \/ db_cache[d].mode = "db" /\ db[d] # 0

(* Send the value to the fetches subscribed to d; one that is past waiting *)
(* has dropped its receiver.                                               *)
notify_subscribers(d) ==
  /\ notified' = notified \cup {t \in persist_subscribers[d] :
                                  /\ task[t].pc \in {"subscribe", "look", "wait"}
                                  /\ task[t].digest = d}
  /\ persist_subscribers' = [persist_subscribers EXCEPT ![d] = {}]

Goto(t, pc) == task' = [task EXCEPT ![t].pc = pc]
Return(t) == task' = [task EXCEPT ![t] = Idle]

----------------------------------------------------------------------------
(* A batch arrives from its author.  save refuses one that has expired.    *)
persist(t, d, e) ==
  /\ up /\ calls < MaxCalls /\ calls' = calls + 1
  /\ task[t] = Idle
  /\ e > last_certified_time
  /\ task' = [task EXCEPT ![t] = [pc |-> "insert", digest |-> d,
                                  expiration |-> e, fetch |-> FALSE]]
  /\ UNCHANGED <<last_certified_time, db_cache, balances, expirations, db,
                 persist_subscribers, notified, sweeper, freeing, ledger_time,
                 up, restarts, signed>>

(* An insert that has not freed what it replaced holds the entry's lock.   *)
Locked(d) == freeing["insert"][d] # "none"

(* insert_to_cache, under the lock of the entry: the new value is charged, *)
(* and the one it replaces is freed in a second use of peer_quota, before  *)
(* which another batch of the author may be refused.                       *)
insert_to_cache(t) ==
  /\ up /\ task[t].pc = "insert" /\ ~Locked(task[t].digest)
  /\ \E d \in {task[t].digest}, e \in {task[t].expiration} :
     \E old \in {db_cache[d]}, mode \in {update_quota(d)} :
       \/ /\ old.mode # "none" /\ old.expiration >= e
          /\ Goto(t, "finish")
          /\ UNCHANGED <<db_cache, balances, freeing>>
       \/ /\ old.mode = "none" \/ old.expiration < e
          /\ mode = "error"
          /\ Return(t)
          /\ UNCHANGED <<db_cache, balances, freeing>>
       \/ /\ old.mode = "none" \/ old.expiration < e
          /\ mode # "error"
          /\ db_cache' = [db_cache EXCEPT ![d] = [mode |-> mode, expiration |-> e]]
          /\ Charge(d, mode, "none")
          /\ freeing' = [freeing EXCEPT !["insert"] = [@ EXCEPT ![d] = old.mode]]
          /\ Goto(t, "add")
  /\ UNCHANGED <<last_certified_time, expirations, db, persist_subscribers,
                 notified, sweeper, ledger_time, up, calls, restarts, signed>>

(* Mutant: a digest that is queued is not queued again.                    *)
MutQueueOnce(t) ==
  /\ up /\ task[t].pc = "add" /\ ~Locked(task[t].digest)
  /\ expirations' =
       IF \E x \in expirations : x[1] = task[t].digest THEN expirations
       ELSE expirations \cup {<<task[t].digest, task[t].expiration>>}
  /\ Goto(t, "save")
  /\ UNCHANGED <<last_certified_time, db_cache, balances, db,
                 persist_subscribers, notified, sweeper, freeing, ledger_time,
                 up, calls, restarts, signed>>

(* The end of insert_to_cache, after the entry is unlocked: "no need to be *)
(* atomic w. insertion".  It does not matter that it also waits while      *)
(* another insert holds the entry: that one has only quota left to free.   *)
add_item(t) ==
  /\ up /\ task[t].pc = "add" /\ ~Locked(task[t].digest)
  /\ expirations' = expirations \cup {<<task[t].digest, task[t].expiration>>}
  /\ Goto(t, "save")
  /\ UNCHANGED <<last_certified_time, db_cache, balances, db,
                 persist_subscribers, notified, sweeper, freeing, ledger_time,
                 up, calls, restarts, signed>>

(* Mutant: subscribers are notified before the batch is written.           *)
MutNotifyFirst(t) ==
  /\ \/ /\ up /\ task[t].pc = "save"
        /\ notify_subscribers(task[t].digest)
        /\ Goto(t, "write")
        /\ UNCHANGED db
     \/ /\ up /\ task[t].pc = "write"
        /\ db' = [db EXCEPT ![task[t].digest] = task[t].expiration]
        /\ Return(t)
        /\ UNCHANGED <<notified, persist_subscribers>>
  /\ UNCHANGED <<last_certified_time, db_cache, balances, expirations, sweeper,
                 freeing, ledger_time, up, calls, restarts, signed>>

save_batch(t) ==
  /\ up /\ task[t].pc = "save"
  /\ db' = [db EXCEPT ![task[t].digest] = task[t].expiration]
  /\ Goto(t, "finish")
  /\ UNCHANGED <<last_certified_time, db_cache, balances, expirations,
                 persist_subscribers, notified, sweeper, freeing, ledger_time,
                 up, calls, restarts, signed>>

(* generate_signed_batch_info, then persist notifies.  What a fetch signs  *)
(* is not sent to anyone.                                                  *)
finish(t) ==
  /\ up /\ task[t].pc = "finish"
  /\ signed' = IF task[t].fetch THEN signed
               ELSE signed \cup {<<task[t].digest, task[t].expiration>>}
  /\ notify_subscribers(task[t].digest)
  /\ Return(t)
  /\ UNCHANGED <<last_certified_time, db_cache, balances, expirations, db,
                 sweeper, freeing, ledger_time, up, calls, restarts>>

----------------------------------------------------------------------------
(* get_or_fetch_batch for a digest no fetch is in flight for: subscribe    *)
(* registers, then looks whether the batch is already there.               *)
get_or_fetch_batch(t, d, e) ==
  /\ up /\ calls < MaxCalls /\ calls' = calls + 1
  /\ task[t] = Idle
  /\ ~\E u \in Task : task[u].pc # "idle" /\ task[u].fetch /\ task[u].digest = d
  /\ persist_subscribers' = [persist_subscribers EXCEPT ![d] = @ \cup {t}]
  /\ task' = [task EXCEPT ![t] = [pc |-> "subscribe", digest |-> d,
                                  expiration |-> e, fetch |-> TRUE]]
  /\ UNCHANGED <<last_certified_time, db_cache, balances, expirations, db,
                 notified, sweeper, freeing, ledger_time, up, restarts, signed>>

subscribe(t) ==
  /\ up /\ task[t].pc = "subscribe"
  /\ IF Readable(task[t].digest) THEN notify_subscribers(task[t].digest)
     ELSE UNCHANGED <<notified, persist_subscribers>>
  /\ Goto(t, "look")
  /\ UNCHANGED <<last_certified_time, db_cache, balances, expirations, db,
                 sweeper, freeing, ledger_time, up, calls, restarts, signed>>

(* The spawned future reads the batch, or asks for it.                     *)
get_batch_from_local(t) ==
  /\ up /\ task[t].pc = "look"
  /\ IF Readable(task[t].digest)
     THEN Return(t) /\ notified' = notified \ {t}
     ELSE Goto(t, "wait") /\ UNCHANGED notified
  /\ UNCHANGED <<last_certified_time, db_cache, balances, expirations, db,
                 persist_subscribers, sweeper, freeing, ledger_time, up,
                 calls, restarts, signed>>

(* request_batch ends with a payload, from a responder or from the         *)
(* subscription, which is then persisted.                                  *)
request_batch(t) ==
  /\ up /\ task[t].pc = "wait"
  /\ IF task[t].expiration > last_certified_time THEN Goto(t, "insert")
     ELSE Return(t)
  /\ notified' = notified \ {t}
  /\ UNCHANGED <<last_certified_time, db_cache, balances, expirations, db,
                 persist_subscribers, sweeper, freeing, ledger_time, up,
                 calls, restarts, signed>>

(* No responder has it: it expired, or the retries are used up.            *)
request_failed(t) ==
  /\ up /\ task[t].pc = "wait" /\ t \notin notified
  /\ Return(t)
  /\ UNCHANGED <<last_certified_time, db_cache, balances, expirations, db,
                 persist_subscribers, notified, sweeper, freeing, ledger_time,
                 up, calls, restarts, signed>>

----------------------------------------------------------------------------
(* update_certified_timestamp, called after a commit (the ledger has the   *)
(* time already) and before a state sync (it has not).  Raising the time   *)
(* and draining the queue are one step: what is inserted in between        *)
(* expires later than both.                                                *)
update_certified_timestamp(s, time) ==
  /\ up /\ sweeper[s] = Idle
  /\ s \in {"commit", "sync"} /\ time > ledger_time
  /\ last_certified_time' = Maximum(last_certified_time, time)
  /\ ledger_time' = IF s = "commit" THEN time ELSE ledger_time
  /\ \E due \in {{x \in expirations : Expired(x[2], time)}} :
       /\ expirations' = expirations \ due
       /\ sweeper' = [sweeper EXCEPT ![s] =
                        [pc |-> "sweep", time |-> time, todo |-> {x[1] : x \in due},
                         gone |-> {}]]
  /\ UNCHANGED <<db_cache, balances, db, persist_subscribers, notified, task,
                 freeing, up, calls, restarts, signed>>

(* Mutant: the expiration is not looked at again under the lock.           *)
MutNoRecheck(s, d) == TRUE

(* "We need to check up-to-date expiration again".                         *)
StillExpired(s, d) == Expired(db_cache[d].expiration, sweeper[s].time)

(* The sweep is done with d, which is gone or stays.                       *)
Swept(s, d, removed) ==
  [sweeper[s] EXCEPT !.todo = sweeper[s].todo \ {d},
                     !.gone = sweeper[s].gone \cup removed]

(* clear_expired_payload for one digest, under the lock of its entry: a    *)
(* batch whose expiration was extended stays, one that is missing is       *)
(* unreachable!.                                                           *)
clear_expired_payload(s, d) ==
  /\ up /\ sweeper[s].pc = "sweep" /\ d \in sweeper[s].todo /\ ~Locked(d)
  /\ \A x \in Digest : freeing[s][x] = "none"
  /\ \/ /\ db_cache[d].mode = "none"
        /\ up' = FALSE
        /\ UNCHANGED <<db_cache, persist_subscribers, sweeper, freeing>>
     \/ /\ db_cache[d].mode # "none" /\ StillExpired(s, d)
        /\ db_cache' = [db_cache EXCEPT ![d] = None]
        /\ persist_subscribers' = [persist_subscribers EXCEPT ![d] = {}]
        /\ freeing' = [freeing EXCEPT ![s] = [@ EXCEPT ![d] = db_cache[d].mode]]
        /\ sweeper' = [sweeper EXCEPT ![s] = Swept(s, d, {d})]
        /\ UNCHANGED up
     \/ /\ db_cache[d].mode # "none" /\ ~StillExpired(s, d)
        /\ sweeper' = [sweeper EXCEPT ![s] = Swept(s, d, {})]
        /\ UNCHANGED <<db_cache, persist_subscribers, freeing, up>>
  /\ UNCHANGED <<last_certified_time, balances, expirations, db, notified, task,
                 ledger_time, calls, restarts, signed>>

(* Mutant: the value that an insert replaces is not freed.                 *)
MutForgetReplaced(s, d) ==
  /\ up /\ freeing[s][d] # "none"
  /\ IF s = "insert" THEN UNCHANGED balances ELSE Charge(d, "none", freeing[s][d])
  /\ freeing' = [freeing EXCEPT ![s] = [@ EXCEPT ![d] = "none"]]
  /\ UNCHANGED <<last_certified_time, db_cache, expirations, db,
                 persist_subscribers, notified, task, sweeper, ledger_time, up,
                 calls, restarts, signed>>

(* What was taken out of the cache is freed: by an insert before it        *)
(* unlocks the entry, by a sweep "no longer holding the lock" on it.       *)
free_quota(s, d) ==
  /\ up /\ freeing[s][d] # "none"
  /\ Charge(d, "none", freeing[s][d])
  /\ freeing' = [freeing EXCEPT ![s] = [@ EXCEPT ![d] = "none"]]
  /\ UNCHANGED <<last_certified_time, db_cache, expirations, db,
                 persist_subscribers, notified, task, sweeper, ledger_time, up,
                 calls, restarts, signed>>

(* The sweep ends; a state sync may have reached its target then, or not.  *)
delete_batches(s) ==
  /\ up /\ sweeper[s].pc = "sweep" /\ sweeper[s].todo = {}
  /\ \A x \in Digest : freeing[s][x] = "none"
  /\ db' = [d \in Digest |-> IF d \in sweeper[s].gone THEN 0 ELSE db[d]]
  /\ ledger_time' \in {ledger_time} \cup
       (IF s = "sync" THEN {Maximum(ledger_time, sweeper[s].time)} ELSE {})
  /\ sweeper' = [sweeper EXCEPT ![s] = Idle]
  /\ UNCHANGED <<last_certified_time, db_cache, balances, expirations,
                 persist_subscribers, notified, task, freeing, up, calls, restarts,
                 signed>>

----------------------------------------------------------------------------
(* The stored batches a new store takes.  When the node's ledger is still  *)
(* the end of the previous epoch (time 0) it starts empty, and leaves this *)
(* epoch's batches in the database.                                        *)
Kept ==
  {d \in Digest : /\ ledger_time # 0 /\ db[d] # 0
                  /\ ledger_time < Minus(db[d], ExpirationBuffer)}

Cached(S, a) == {"cache"} \X {d \in S : Author[d] = a}

(* populate_cache_and_gc_expired_batches inserts them in some order, as    *)
(* many in memory as fit; an author over quota is a panic.  The expired    *)
(* ones are deleted in the background.                                     *)
populate_cache(memory) ==
  /\ \A a \in Peer : Bytes[Cached(memory, a)] <= MemoryQuota
  /\ \A d \in Kept \ memory :
       Bytes[Cached(memory, Author[d])] + Size[d] > MemoryQuota
  /\ db_cache' =
       [d \in Digest |->
          IF d \notin Kept THEN None
          ELSE [mode |-> IF d \in memory THEN "memory" ELSE "db",
                expiration |-> db[d]]]
  /\ expirations' = {<<d, db[d]>> : d \in Kept}
  /\ up' = \A a \in Peer : /\ Bytes[Cached(Kept, a)] <= DbQuota
                           /\ Cardinality(Cached(Kept, a)) <= BatchQuota
  /\ batch_balance' = [a \in Peer |-> Minus(BatchQuota, Cardinality(Cached(Kept, a)))]
  /\ db_balance' = [a \in Peer |-> Minus(DbQuota, Bytes[Cached(Kept, a)])]
  /\ memory_balance' = [a \in Peer |-> Minus(MemoryQuota, Bytes[Cached(memory, a)])]
  /\ sweeper' =
       [s \in Sweeper |->
          IF s = "startup" /\ ledger_time # 0
          THEN [pc |-> "sweep", time |-> ledger_time, todo |-> {},
                gone |-> {d \in Digest \ Kept : db[d] # 0}]
          ELSE Idle]

(* BatchStore::new after a crash, for the ledger the node has then.        *)
restart ==
  /\ restarts < MaxRestarts
  /\ restarts' = restarts + 1
  /\ last_certified_time' = ledger_time
  /\ task' = [t \in Task |-> Idle]
  /\ persist_subscribers' = [d \in Digest |-> {}]
  /\ notified' = {}
  /\ signed' = {}
  /\ freeing' = [s \in Remover |-> [d \in Digest |-> "none"]]
  /\ \E memory \in SUBSET Kept : populate_cache(memory)
  /\ UNCHANGED <<db, ledger_time, calls>>

Init ==
  /\ last_certified_time = 0 /\ ledger_time = 0
  /\ db_cache = [d \in Digest |-> None]
  /\ batch_balance = [a \in Peer |-> BatchQuota]
  /\ db_balance = [a \in Peer |-> DbQuota]
  /\ memory_balance = [a \in Peer |-> MemoryQuota]
  /\ expirations = {}
  /\ db = [d \in Digest |-> 0]
  /\ persist_subscribers = [d \in Digest |-> {}]
  /\ notified = {}
  /\ task = [t \in Task |-> Idle]
  /\ sweeper = [s \in Sweeper |-> Idle]
  /\ freeing = [s \in Remover |-> [d \in Digest |-> "none"]]
  /\ up = TRUE /\ calls = 0 /\ restarts = 0 /\ signed = {}

Next ==
  \/ \E t \in Task :
       \/ \E d \in Digest, e \in Expiration :
            persist(t, d, e) \/ get_or_fetch_batch(t, d, e)
       \/ insert_to_cache(t) \/ add_item(t) \/ save_batch(t) \/ finish(t)
       \/ subscribe(t) \/ get_batch_from_local(t)
       \/ request_batch(t) \/ request_failed(t)
  \/ \E s \in Sweeper :
       \/ \E time \in Certified : update_certified_timestamp(s, time)
       \/ \E d \in Digest : clear_expired_payload(s, d)
       \/ delete_batches(s)
  \/ \E s \in Remover, d \in Digest : free_quota(s, d)
  \/ restart

Spec == Init /\ [][Next]_vars

----------------------------------------------------------------------------
(* The slots author a is charged for, of the given modes.                  *)
ModeAt(x) == IF x[1] = "cache" THEN db_cache[x[2]].mode ELSE freeing[x[1]][x[2]]
Charged(a, modes) == {x \in Slot : Author[x[2]] = a /\ ModeAt(x) \in modes}

(* Every byte and every batch an author is charged for is either in the    *)
(* cache or was just taken out of it by a sweep or a replacement that is   *)
(* about to free it: no interleaving of persists, extensions, sweeps and   *)
(* restarts leaks quota or gives it back twice.                            *)
QuotaConserved ==
  up => \A a \in Peer :
          /\ batch_balance[a] + Cardinality(Charged(a, Mode)) = BatchQuota
          /\ db_balance[a] + Bytes[Charged(a, Mode)] = DbQuota
          /\ memory_balance[a] + Bytes[Charged(a, {"memory"})] = MemoryQuota

(* Every cached batch is queued for the time it expires, or the task that  *)
(* cached it is about to queue it, so that some sweep frees it; also when  *)
(* its expiration was extended while a sweep was looking at it.            *)
ScheduledForExpiry ==
  up => \A d \in Digest : db_cache[d].mode # "none" =>
          \/ <<d, db_cache[d].expiration>> \in expirations
          \/ \E t \in Task : /\ task[t].pc = "add" /\ task[t].digest = d
                             /\ task[t].expiration = db_cache[d].expiration
          \/ \E s \in Sweeper : /\ sweeper[s].pc = "sweep" /\ d \in sweeper[s].todo
                                /\ Expired(db_cache[d].expiration, sweeper[s].time)

(* A batch this validator signed for stays in its cache until              *)
(* ExpirationBuffer after the expiration it signed, whichever task cached  *)
(* it and whatever sweeps run meanwhile.                                   *)
SignedKept ==
  up => \A x \in signed :
          \/ Expired(x[2], last_certified_time)
          \/ db_cache[x[1]].mode # "none" /\ db_cache[x[1]].expiration >= x[2]

(* A fetch that is subscribed to a batch does not go on waiting when the   *)
(* batch is there: whoever made it readable has still to notify.  It is    *)
(* about registered subscribers: clear_expired_payload drops those of what *)
(* it removes, and they are left to the answers of the responders.         *)
NoLostWakeup ==
  up => \A t \in Task :
          ( /\ task[t].pc = "wait"
            /\ t \in persist_subscribers[task[t].digest]
            /\ Readable(task[t].digest) ) =>
          \/ t \in notified
          \/ \E u \in Task : /\ task[u].pc \in {"add", "save", "finish"}
                             /\ task[u].digest = task[t].digest

(* "To help slow nodes catch up [...] we keep the blocks for 60 extra      *)
(* seconds after the expiration time": building the store from the         *)
(* database keeps the batches that are not due by that rule.               *)
KeptThroughRestart ==
  [][restarts' # restarts =>
       \A d \in Digest :
         (db[d] # 0 /\ ledger_time # 0 /\ ~Expired(db[d], ledger_time)) =>
           db_cache'[d].mode # "none"]_vars
=============================================================================
